---------------------------- MODULE StampProofs ----------------------------
(***************************************************************************)
(* The time stamp of postItem goes through a buffer that all threads       *)
(* share.  With one thread it is complete, whatever the requests, the      *)
(* faults and the crashes; the run stamp_race shows two threads that break *)
(* the answer.                                                             *)
(***************************************************************************)
EXTENDS BoardService_proofs

\* What one thread knows of the buffer at each step of postItem.
StampOK ==
  \A w \in Workers :
    /\ pc[w] = "strlen" => ctimeBuf = Newline
    /\ pc[w] = "truncate" => ctimeBuf = Newline /\ length[w] = Newline
    /\ pc[w] = "measure" => ctimeBuf = Newline - 1
    /\ pc[w] = "copy" => ctimeBuf = Newline - 1 /\ length[w] = Newline - 1
    /\ pc[w] = "insertItem" => ctimeBuf = Newline - 1 /\ length[w] = Newline - 1

\* The inductive invariant of StampsAreComplete.
StampInv == StampOK /\ StampsAreComplete

SeedsAreStamped ==
  \A db \in Seeds : \A i \in DOMAIN db.item : db.item[i].date = Newline - 1

\* No statement but an insert brings a time stamp into the file.
LEMMA StampsStay ==
  ASSUME StampsAreComplete,
         \/ item' = item
         \/ \E i, c, title, p : UpdateItem(i, c, title, p)
         \/ \E i, c : DeleteItem(i, c)
         \/ \E title, p, c : InsertItem(title, Newline - 1, p, c)
  PROVE  StampsAreComplete'
<1>1. CASE item' = item
  BY <1>1 DEF StampsAreComplete
<1>2. CASE \E i, c, title, p : UpdateItem(i, c, title, p)
  BY <1>2 DEF UpdateItem, Put, IsItemOf, ItemsOf, StampsAreComplete
<1>3. CASE \E i, c : DeleteItem(i, c)
  BY <1>3 DEF DeleteItem, Restrict, StampsAreComplete
<1>4. CASE \E title, p, c : InsertItem(title, Newline - 1, p, c)
  BY <1>4 DEF InsertItem, NextItemId, Put, StampsAreComplete
<1> QED
  BY <1>1, <1>2, <1>3, <1>4

\* A step of the only thread keeps the stored stamps complete.
LEMMA WorkStoresStamps ==
  ASSUME StampInv, NEW w \in Workers, RepositoryStep(w)
  PROVE  StampsAreComplete'
<1>1. CASE getColumns(w) \/ getColumn(w) \/ getItems(w) \/ selectItem(w)
  BY <1>1 DEF getColumns, getColumn, getItems, selectItem, Select, dbVars, StampInv,
     StampsAreComplete
<1>2. CASE postColumn(w) \/ putColumn(w) \/ deleteColumn(w)
  BY <1>2 DEF postColumn, putColumn, deleteColumn, ExecInsertColumn, ExecUpdateColumn,
     ExecDeleteColumn, ExecDelete, InsertColumn, UpdateColumn, DeleteColumn, NotPrepared,
     Aborted, NotCommitted, MatchedNothing, dbVars, StampInv, StampsAreComplete
<1>3. CASE putItem(w)
  <2>1. item' = item \/ \E i, c, title, p : UpdateItem(i, c, title, p)
    BY <1>3 DEF putItem, ExecUpdateItem, NotPrepared, Aborted, MatchedNothing, dbVars
  <2> QED
    BY <2>1, StampsStay DEF StampInv
<1>4. CASE deleteItem(w)
  <2>1. item' = item \/ \E i, c : DeleteItem(i, c)
    BY <1>4 DEF deleteItem, ExecDeleteItem, ExecDelete, dbVars
  <2> QED
    BY <2>1, StampsStay DEF StampInv
<1>5. CASE ctime(w) \/ strlen(w) \/ truncate(w) \/ measure(w) \/ copy(w)
  BY <1>5 DEF ctime, strlen, truncate, measure, copy, dbVars, StampInv, StampsAreComplete
<1>6. CASE insertItem(w)
  <2>1. length[w] = Newline - 1
    BY <1>6 DEF insertItem, StampInv, StampOK
  <2>2. item' = item \/ \E title, p, c : InsertItem(title, Newline - 1, p, c)
    BY <1>6, <2>1 DEF insertItem, Results, ExecInsertItem, NotPrepared, Aborted, NotCommitted, dbVars
  <2> QED
    BY <2>2, StampsStay DEF StampInv
<1>7. CASE last_insert_rowid(w) \/ timestamp(w) \/ changesOfColumn(w) \/ changesOfItem(w)
  BY <1>7 DEF last_insert_rowid, timestamp, changesOfColumn, changesOfItem, dbVars,
     StampInv, StampsAreComplete
<1> QED
  BY <1>1, <1>2, <1>3, <1>4, <1>5, <1>6, <1>7 DEF RepositoryStep

\* It keeps what it knows of the buffer, step by step.
LEMMA WorkKeepsStamp ==
  ASSUME OneWorker, ProcessOK, StampOK, NEW w \in Workers, RepositoryStep(w)
  PROVE  StampOK'
<1>1. w \in DOMAIN pc /\ w \in DOMAIN length /\ Newline \in Nat \ {0}
  BY NewlineAssumption DEF ProcessOK
<1>2. SUFFICES
        /\ pc'[w] = "strlen" => ctimeBuf' = Newline
        /\ pc'[w] = "truncate" => ctimeBuf' = Newline /\ length'[w] = Newline
        /\ pc'[w] = "measure" => ctimeBuf' = Newline - 1
        /\ pc'[w] = "copy" => ctimeBuf' = Newline - 1 /\ length'[w] = Newline - 1
        /\ pc'[w] = "insertItem" => ctimeBuf' = Newline - 1 /\ length'[w] = Newline - 1
  BY DEF OneWorker, StampOK
<1> USE <1>1 DEF Goto, AfterInsert, StampOK
<1>3. CASE getColumns(w) \/ getColumn(w) \/ getItems(w) \/ selectItem(w)
  BY <1>3 DEF getColumns, getColumn, getItems, selectItem
<1>4. CASE postColumn(w) \/ putColumn(w) \/ deleteColumn(w) \/ putItem(w) \/ deleteItem(w)
  BY <1>4 DEF postColumn, putColumn, deleteColumn, putItem, deleteItem
<1>5. CASE ctime(w)
  BY <1>5 DEF ctime
<1>6. CASE strlen(w)
  BY <1>6 DEF strlen
<1>7. CASE truncate(w)
  BY <1>7 DEF truncate, Cut
<1>8. CASE measure(w)
  BY <1>8 DEF measure
<1>9. CASE copy(w)
  BY <1>9 DEF copy
<1>10. CASE insertItem(w) \/ last_insert_rowid(w) \/ timestamp(w)
  BY <1>10 DEF insertItem, last_insert_rowid, timestamp
<1>11. CASE changesOfColumn(w) \/ changesOfItem(w)
  BY <1>11 DEF changesOfColumn, changesOfItem
<1> QED
  BY <1>3, <1>4, <1>5, <1>6, <1>7, <1>8, <1>9, <1>10, <1>11 DEF RepositoryStep

\* Every step of a service with one thread keeps the inductive invariant.
LEMMA NextKeepsStamps ==
  ASSUME OneWorker PROVE TypeOK /\ StampInv /\ [Next]_vars => StampInv'
<1> SUFFICES ASSUME TypeOK, StampInv, [Next]_vars PROVE StampInv'
  OBVIOUS
<1>1. ProcessOK /\ DOMAIN pc = Workers
  BY TypeOKParts DEF ProcessOK
<1>2. CASE Start
  BY <1>2 DEF Start, CreateTables, repoVars, StampInv, StampOK, StampsAreComplete
<1>3. CASE Crash
  BY <1>3 DEF Crash, PerWorker, dbVars, StampInv, StampOK, StampsAreComplete
<1>4. ASSUME NEW w \in Workers, Work(w) PROVE StampInv'
  BY <1>1, <1>4, WorkStoresStamps, WorkKeepsStamp DEF Work, StampInv
<1>5. ASSUME NEW w \in Workers, Reply(w) PROVE StampInv'
  <2>1. \A v \in Workers : pc'[v] = "idle"
    BY <1>1, <1>5 DEF OneWorker, Reply, Goto
  <2> QED
    BY <1>5, <2>1 DEF Reply, Cleared, dbVars, StampInv, StampOK, StampsAreComplete
<1>6. ASSUME NEW w \in Workers, NEW r \in Requests, Receive(w, r) PROVE StampInv'
  <2>1. PICK c \in CallsOf(r) : pc' = [pc EXCEPT ![w] = EntryOf(c.op)]
    BY <1>6 DEF Receive, Goto
  <2>2. c.op \in Ops \cup {"none"}
    BY <2>1, CallsAreTyped DEF Calls
  <2>3. EntryOf(c.op) \notin {"strlen", "truncate", "measure", "copy", "insertItem"}
    BY <2>2 DEF EntryOf, Ops, ColumnWrites, ItemWrites
  <2>4. \A v \in Workers :
          pc'[v] \notin {"strlen", "truncate", "measure", "copy", "insertItem"}
    BY <1>1, <2>1, <2>3 DEF OneWorker
  <2> QED
    BY <1>6, <2>4 DEF Receive, dbVars, StampInv, StampOK, StampsAreComplete
<1>7. CASE UNCHANGED vars
  BY <1>7 DEF vars, dbVars, repoVars, StampInv, StampOK, StampsAreComplete
<1> QED
  BY <1>2, <1>3, <1>4, <1>5, <1>6, <1>7 DEF Next

\* With one thread every item that POST stores has the full text of ctime,
\* less the newline (BoardRepository.cpp:226-234).
THEOREM OneThreadStoresWholeStamps ==
  ASSUME OneWorker, SeedsAreStamped PROVE Spec => []StampsAreComplete
<1>1. Init => StampInv
  BY DEF Init, DatabaseInit, PerWorker, SeedsAreStamped, StampInv, StampOK, StampsAreComplete
<1>2. StampInv => StampsAreComplete
  BY DEF StampInv
<1> QED
  BY <1>1, <1>2, InitTypes, NextTypes, NextKeepsStamps, PTL DEF Spec
=============================================================================
