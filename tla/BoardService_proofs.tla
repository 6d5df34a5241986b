------------------------ MODULE BoardService_proofs -------------------------
(***************************************************************************)
(* The service, whatever its threads, requests, faults and crashes:        *)
(* it touches the file only through the statements of BoardDatabase, so    *)
(* what is proved of every file holds of its file, and its answers to GET  *)
(* are what ReadsAreValid and NoItemTwice say.                             *)
(***************************************************************************)
EXTENDS BoardService, BoardDatabase_proofs

\* Each statement, failed or not, is a step of the database or changes nothing.
LEMMA ExecInsertColumnIsStep ==
  ASSUME NEW name \in Text, NEW p \in Positions, NEW rc,
         ExecInsertColumn(name, p, rc)
  PROVE  [DatabaseNext]_dbVars
BY DEF ExecInsertColumn, NotPrepared, Aborted, NotCommitted, DatabaseNext

\* The update of a column is a step of the database or changes nothing.
LEMMA ExecUpdateColumnIsStep ==
  ASSUME NEW i \in Ids, NEW name \in Text, NEW p \in Positions, NEW rc,
         ExecUpdateColumn(i, name, p, rc)
  PROVE  [DatabaseNext]_dbVars
BY DEF ExecUpdateColumn, NotPrepared, Aborted, MatchedNothing, DatabaseNext

\* The insert of an item is a step of the database or changes nothing.
LEMMA ExecInsertItemIsStep ==
  ASSUME NEW title \in Text, NEW date, NEW p \in Positions, NEW c \in Ids, NEW torn, NEW rc,
         ~torn => date \in Dates,
         ExecInsertItem(title, date, p, c, torn, rc)
  PROVE  [DatabaseNext]_dbVars
BY DEF ExecInsertItem, NotPrepared, Aborted, NotCommitted, DatabaseNext

\* The update of an item is a step of the database or changes nothing.
LEMMA ExecUpdateItemIsStep ==
  ASSUME NEW i \in Ids, NEW c \in Ids, NEW title \in Text, NEW p \in Positions, NEW rc,
         ExecUpdateItem(i, c, title, p, rc)
  PROVE  [DatabaseNext]_dbVars
BY DEF ExecUpdateItem, NotPrepared, Aborted, MatchedNothing, DatabaseNext

\* The deletes are steps of the database or change nothing.
LEMMA ExecDeleteIsStep ==
  ASSUME NEW i \in Ids, NEW c \in Ids, ExecDeleteColumn(i) \/ ExecDeleteItem(i, c)
  PROVE  [DatabaseNext]_dbVars
BY DEF ExecDeleteColumn, ExecDeleteItem, ExecDelete, DatabaseNext

-----------------------------------------------------------------------------
\* What a worker at a write statement has to write is of the right type.
LEMMA WriteArguments ==
  ASSUME TypeOK, NEW w \in Workers
  PROVE  /\ pc[w] \in {"postColumn", "putColumn", "putItem", "insertItem"} =>
              call[w].text \in Text /\ call[w].position \in Positions
         /\ pc[w] \in {"putColumn", "putItem", "insertItem", "deleteColumn", "deleteItem"} =>
              call[w].column \in Ids /\ call[w].item \in Ids
         /\ length[w] # Torn => length[w] \in Dates
<1>1. call[w].op \in Ops \cup {"none"} /\ IsCall(call[w])
      /\ IsAt(pc[w], call[w].op) /\ length[w] \in {Torn} \cup 0 .. Newline
  BY DEF TypeOK, Calls
<1>2. length[w] # Torn => length[w] \in Dates
  BY <1>1, NewlineAssumption
<1>3. /\ pc[w] \in {"postColumn", "putColumn", "putItem", "insertItem"} =>
           call[w].op \in ColumnWrites \cup ItemWrites
      /\ pc[w] \in {"putColumn", "putItem", "insertItem", "deleteColumn", "deleteItem"} =>
           call[w].op \in Ops
  BY <1>1 DEF IsAt, PostOps, Ops, ColumnWrites, ItemWrites
<1> QED
  BY <1>1, <1>2, <1>3 DEF IsCall

\* A step of a worker is a step of the database or changes nothing in it.
LEMMA RepositoryStepIsStep ==
  ASSUME TypeOK, NEW w \in Workers, RepositoryStep(w)
  PROVE  [DatabaseNext]_dbVars
<1> USE WriteArguments
<1>1. CASE getColumns(w) \/ getColumn(w) \/ getItems(w) \/ selectItem(w)
  BY <1>1 DEF getColumns, getColumn, getItems, selectItem, Select
<1>2. CASE postColumn(w)
  BY <1>2, ExecInsertColumnIsStep DEF postColumn, Results
<1>3. CASE putColumn(w)
  BY <1>3, ExecUpdateColumnIsStep DEF putColumn
<1>4. CASE deleteColumn(w)
  BY <1>4, ExecDeleteIsStep DEF deleteColumn
<1>5. CASE putItem(w)
  BY <1>5, ExecUpdateItemIsStep DEF putItem
<1>6. CASE deleteItem(w)
  BY <1>6, ExecDeleteIsStep DEF deleteItem
<1>7. CASE ctime(w) \/ strlen(w) \/ truncate(w) \/ measure(w) \/ copy(w)
  BY <1>7 DEF ctime, strlen, truncate, measure, copy
<1>8. CASE insertItem(w)
  <2>1. PICK rc \in {"ok", "error"} :
          ExecInsertItem(call[w].text, length[w], call[w].position, call[w].column,
                         length[w] = Torn, rc)
    BY <1>8 DEF insertItem, Results
  <2> QED
    BY <1>8, <2>1, ExecInsertItemIsStep DEF insertItem
<1>9. CASE last_insert_rowid(w) \/ timestamp(w) \/ changesOfColumn(w) \/ changesOfItem(w)
  BY <1>9 DEF last_insert_rowid, timestamp, changesOfColumn, changesOfItem
<1> QED
  BY <1>1, <1>2, <1>3, <1>4, <1>5, <1>6, <1>7, <1>8, <1>9 DEF RepositoryStep

\* So is a step of the service.
LEMMA NextIsStep == TypeOK /\ [Next]_vars => [DatabaseNext]_dbVars
<1> SUFFICES ASSUME TypeOK, [Next]_vars PROVE [DatabaseNext]_dbVars
  OBVIOUS
<1>1. CASE Start
  BY <1>1 DEF Start, DatabaseNext
<1>2. CASE Crash
  BY <1>2 DEF Crash
<1>3. ASSUME NEW w \in Workers, Work(w) PROVE [DatabaseNext]_dbVars
  BY <1>3, RepositoryStepIsStep DEF Work
<1>4. ASSUME NEW w \in Workers, Reply(w) PROVE [DatabaseNext]_dbVars
  BY <1>4 DEF Reply
<1>5. ASSUME NEW w \in Workers, NEW r \in Requests, Receive(w, r) PROVE [DatabaseNext]_dbVars
  BY <1>5 DEF Receive
<1>6. CASE UNCHANGED vars
  BY <1>6 DEF vars
<1> QED
  BY <1>1, <1>2, <1>3, <1>4, <1>5, <1>6 DEF Next

-----------------------------------------------------------------------------
\* TypeOK but for the file, which DatabaseInv describes.
ProcessOK ==
  /\ lastRowid \in Nat /\ changes \in {0, 1}
  /\ ctimeBuf \in 0 .. Newline
  /\ pc \in [Workers -> Steps]
  /\ call \in [Workers -> Calls]
  /\ \A w \in Workers : IsCall(call[w]) /\ IsAt(pc[w], call[w].op)
  /\ todo \in [Workers -> SUBSET Int]
  /\ columns \in [Workers -> SUBSET ColumnJsons]
  /\ items \in [Workers -> SUBSET ItemJsons]
  /\ length \in [Workers -> {Torn} \cup 0 .. Newline]
  /\ up \in BOOLEAN

Observed ==
  /\ ever \in [Workers -> Boards] /\ always \in [Workers -> Boards]
  /\ raced \in [Workers -> BOOLEAN]

\* The parts are the whole.
LEMMA TypeOKParts == TypeOK <=> DatabaseInv /\ ProcessOK /\ Observed
BY DEF TypeOK, ProcessOK, Observed

\* What the callbacks build of a well-formed file is well formed.
LEMMA RowsAreJson ==
  ASSUME FileOK
  PROVE  /\ DOMAIN column \subseteq Int
         /\ \A i \in DOMAIN column : ColumnJson(i) \in ColumnJsons
         /\ StoredItems \subseteq ItemJsons
         /\ Stored \in Boards
<1>1. /\ \A i \in DOMAIN column : i \in Int /\ column[i] \in ColumnRow
      /\ \A i \in DOMAIN item : i \in Int /\ item[i] \in ItemRow
  BY DEF FileOK, IsTable
<1>2. \A i \in DOMAIN column : ColumnJson(i) \in ColumnJsons
  BY <1>1, PositionsAssumption DEF ColumnRow, ColumnJson, jsonColumn, ColumnJsons
<1>3. StoredItems \subseteq ItemJsons
  <2>1. \A i \in DOMAIN item : ItemJson(item[i].column_id, i) \in ItemJsons
    BY <1>1, PositionsAssumption, IdsAssumption DEF ItemRow, ItemJson, jsonItem, ItemJsons
  <2> QED
    BY <2>1 DEF StoredItems
<1>4. Stored \in Boards
  BY <1>2, <1>3 DEF Stored, StoredColumns, Boards
<1> QED
  BY <1>1, <1>2, <1>3, <1>4

\* So what is stored could be shown.
LEMMA StoredIsBoard == FileOK => Stored \in Boards
BY RowsAreJson

\* What is shown under a column are the stored items of that column.
LEMMA ItemsUnderAreStored ==
  ASSUME NEW c
  PROVE  ItemsUnder(c) = {x \in StoredItems : x.column = c}
BY DEF ItemsUnder, ItemsOf, StoredItems, ItemJson, jsonItem

\* No statement breaks the type of a counter of the connection.
LEMMA CountersOK ==
  ASSUME TypeOK, NEW w \in Workers, RepositoryStep(w)
  PROVE  lastRowid' \in Nat /\ changes' \in {0, 1}
<1>1. columnSeq \in Nat /\ itemSeq \in Nat /\ lastRowid \in Nat /\ changes \in {0, 1}
  BY FileOKIsDatabaseInv DEF TypeOK, FileOK
<1> USE <1>1 DEF NotPrepared, Aborted, NotCommitted, MatchedNothing, connVars
<1>2. CASE getColumns(w) \/ getColumn(w) \/ getItems(w) \/ selectItem(w)
  BY <1>2 DEF getColumns, getColumn, getItems, selectItem, Select
<1>3. CASE postColumn(w)
  BY <1>3 DEF postColumn, ExecInsertColumn
<1>4. CASE putColumn(w)
  BY <1>4 DEF putColumn, ExecUpdateColumn
<1>5. CASE deleteColumn(w)
  BY <1>5 DEF deleteColumn, ExecDeleteColumn, ExecDelete
<1>6. CASE putItem(w)
  BY <1>6 DEF putItem, ExecUpdateItem
<1>7. CASE deleteItem(w)
  BY <1>7 DEF deleteItem, ExecDeleteItem, ExecDelete
<1>8. CASE ctime(w) \/ strlen(w) \/ truncate(w) \/ measure(w) \/ copy(w)
  BY <1>8 DEF ctime, strlen, truncate, measure, copy
<1>9. CASE insertItem(w)
  BY <1>9 DEF insertItem, ExecInsertItem
<1>10. CASE last_insert_rowid(w) \/ timestamp(w) \/ changesOfColumn(w) \/ changesOfItem(w)
  BY <1>10 DEF last_insert_rowid, timestamp, changesOfColumn, changesOfItem
<1> QED
  BY <1>2, <1>3, <1>4, <1>5, <1>6, <1>7, <1>8, <1>9, <1>10 DEF RepositoryStep

\* A step of a worker leaves the locals of the others alone.
LEMMA StepIsLocal ==
  ASSUME ProcessOK, NEW w \in Workers, RepositoryStep(w)
  PROVE  /\ call' = call
         /\ pc' = [pc EXCEPT ![w] = pc'[w]]
         /\ todo' = [todo EXCEPT ![w] = todo'[w]]
         /\ columns' = [columns EXCEPT ![w] = columns'[w]]
         /\ items' = [items EXCEPT ![w] = items'[w]]
         /\ length' = [length EXCEPT ![w] = length'[w]]
<1>1. /\ DOMAIN pc = Workers /\ pc = [v \in Workers |-> pc[v]]
      /\ DOMAIN todo = Workers /\ todo = [v \in Workers |-> todo[v]]
      /\ DOMAIN columns = Workers /\ columns = [v \in Workers |-> columns[v]]
      /\ DOMAIN items = Workers /\ items = [v \in Workers |-> items[v]]
      /\ DOMAIN length = Workers /\ length = [v \in Workers |-> length[v]]
  BY DEF ProcessOK
<1> USE <1>1 DEF Goto, resultVars
<1>2. CASE getColumns(w)
  BY <1>2 DEF getColumns
<1>3. CASE getColumn(w)
  BY <1>3 DEF getColumn
<1>4. CASE getItems(w)
  BY <1>4 DEF getItems
<1>5. CASE selectItem(w)
  BY <1>5 DEF selectItem
<1>6. CASE postColumn(w) \/ putColumn(w) \/ deleteColumn(w) \/ putItem(w) \/ deleteItem(w)
  BY <1>6 DEF postColumn, putColumn, deleteColumn, putItem, deleteItem
<1>7. CASE ctime(w) \/ strlen(w) \/ truncate(w) \/ measure(w) \/ copy(w)
  BY <1>7 DEF ctime, strlen, truncate, measure, copy
<1>8. CASE insertItem(w)
  BY <1>8 DEF insertItem
<1>9. CASE last_insert_rowid(w)
  BY <1>9 DEF last_insert_rowid
<1>10. CASE timestamp(w)
  BY <1>10 DEF timestamp
<1>11. CASE changesOfColumn(w) \/ changesOfItem(w)
  BY <1>11 DEF changesOfColumn, changesOfItem
<1> QED
  BY <1>2, <1>3, <1>4, <1>5, <1>6, <1>7, <1>8, <1>9, <1>10, <1>11 DEF RepositoryStep

\* A step of a worker stays within its call.
LEMMA StepStaysInCall ==
  ASSUME ProcessOK, NEW w \in Workers, RepositoryStep(w)
  PROVE  pc'[w] \in Steps /\ IsAt(pc'[w], call[w].op)
<1>1. w \in DOMAIN pc /\ IsAt(pc[w], call[w].op)
  BY DEF ProcessOK
<1> USE <1>1 DEF Goto, IsAt, Steps
<1>2. CASE getColumns(w)
  BY <1>2 DEF getColumns
<1>3. CASE getColumn(w)
  BY <1>3 DEF getColumn
<1>4. CASE getItems(w)
  BY <1>4 DEF getItems
<1>5. CASE selectItem(w)
  BY <1>5 DEF selectItem
<1>6. CASE postColumn(w)
  BY <1>6 DEF postColumn, AfterInsert, PostOps
<1>7. CASE putColumn(w)
  BY <1>7 DEF putColumn
<1>8. CASE deleteColumn(w) \/ deleteItem(w)
  BY <1>8 DEF deleteColumn, deleteItem
<1>9. CASE putItem(w)
  BY <1>9 DEF putItem
<1>10. CASE ctime(w) \/ strlen(w) \/ truncate(w) \/ measure(w) \/ copy(w)
  BY <1>10 DEF ctime, strlen, truncate, measure, copy
<1>11. CASE insertItem(w)
  BY <1>11 DEF insertItem, AfterInsert, PostOps
<1>12. CASE last_insert_rowid(w)
  BY <1>12 DEF last_insert_rowid
<1>13. CASE timestamp(w)
  BY <1>13 DEF timestamp
<1>14. CASE changesOfColumn(w)
  BY <1>14 DEF changesOfColumn
<1>15. CASE changesOfItem(w)
  BY <1>15 DEF changesOfItem
<1> QED
  BY <1>2, <1>3, <1>4, <1>5, <1>6, <1>7, <1>8, <1>9, <1>10, <1>11, <1>12, <1>13, <1>14,
     <1>15 DEF RepositoryStep

\* A step of a worker keeps the buffer of ctime and its own length typed.
LEMMA StepTypesStamp ==
  ASSUME ProcessOK, NEW w \in Workers, RepositoryStep(w)
  PROVE  ctimeBuf' \in 0 .. Newline /\ length'[w] \in {Torn} \cup 0 .. Newline
<1>1. /\ w \in DOMAIN length /\ ctimeBuf \in 0 .. Newline
      /\ length[w] \in {Torn} \cup 0 .. Newline
      /\ Newline \in Nat
  BY NewlineAssumption DEF ProcessOK
<1> USE <1>1
<1>2. CASE getColumns(w) \/ getColumn(w) \/ getItems(w) \/ selectItem(w)
  BY <1>2 DEF getColumns, getColumn, getItems, selectItem
<1>3. CASE postColumn(w) \/ putColumn(w) \/ deleteColumn(w) \/ putItem(w) \/ deleteItem(w)
  BY <1>3 DEF postColumn, putColumn, deleteColumn, putItem, deleteItem
<1>4. CASE ctime(w)
  BY <1>4 DEF ctime
<1>5. CASE strlen(w)
  BY <1>5 DEF strlen
<1>6. CASE truncate(w)
  BY <1>6 DEF truncate, Cut, Torn
<1>7. CASE measure(w)
  BY <1>7 DEF measure
<1>8. CASE copy(w)
  BY <1>8 DEF copy
<1>9. CASE insertItem(w) \/ last_insert_rowid(w) \/ timestamp(w)
  BY <1>9 DEF insertItem, last_insert_rowid, timestamp
<1>10. CASE changesOfColumn(w) \/ changesOfItem(w)
  BY <1>10 DEF changesOfColumn, changesOfItem
<1> QED
  BY <1>2, <1>3, <1>4, <1>5, <1>6, <1>7, <1>8, <1>9, <1>10 DEF RepositoryStep

\* A step of a worker keeps its result, and what it has still to read, typed.
LEMMA StepTypesResult ==
  ASSUME ProcessOK, FileOK, NEW w \in Workers, RepositoryStep(w)
  PROVE  /\ todo'[w] \subseteq Int
         /\ columns'[w] \subseteq ColumnJsons
         /\ items'[w] \subseteq ItemJsons
<1>1. /\ w \in DOMAIN todo /\ w \in DOMAIN columns /\ w \in DOMAIN items
      /\ todo[w] \subseteq Int /\ columns[w] \subseteq ColumnJsons /\ items[w] \subseteq ItemJsons
  BY DEF ProcessOK
<1>2. /\ call[w].op \in Ops => call[w].column \in Int /\ call[w].item \in Int
      /\ call[w].op \in ColumnWrites \cup ItemWrites =>
           call[w].text \in Text /\ call[w].position \in Int
      /\ lastRowid \in Int
  <2>1. IsCall(call[w])
    BY DEF ProcessOK
  <2>2. lastRowid \in Int
    BY DEF ProcessOK
  <2> QED
    BY <2>1, <2>2, IdsAssumption, PositionsAssumption DEF IsCall
<1>3. /\ DOMAIN column \subseteq Int
      /\ \A i \in DOMAIN column : ColumnJson(i) \in ColumnJsons
      /\ StoredItems \subseteq ItemJsons
  BY RowsAreJson
<1>4. 0 \in Dates /\ ctimeBuf \in Dates
  BY NewlineAssumption DEF ProcessOK
<1> USE <1>1
<1>5. CASE getColumns(w)
  BY <1>3, <1>5 DEF getColumns, StoredColumns
<1>6. CASE getColumn(w)
  BY <1>3, <1>6 DEF getColumn
<1>7. CASE getItems(w)
  <2>1. PICK c \in todo[w] :
          /\ \E found \in SUBSET ItemsUnder(c) :
               items' = [items EXCEPT ![w] = @ \cup found]
          /\ todo' = [todo EXCEPT ![w] = @ \ {c}]
          /\ columns' = columns
    BY <1>7 DEF getItems, Rest
  <2> QED
    BY <1>3, <2>1, ItemsUnderAreStored
<1>8. CASE selectItem(w)
  BY <1>3, <1>8, ItemsUnderAreStored DEF selectItem, Selected
<1>9. CASE postColumn(w) \/ putColumn(w) \/ deleteColumn(w) \/ putItem(w) \/ deleteItem(w)
  BY <1>9 DEF postColumn, putColumn, deleteColumn, putItem, deleteItem, resultVars
<1>10. CASE ctime(w) \/ strlen(w) \/ truncate(w) \/ measure(w) \/ copy(w) \/ insertItem(w)
  BY <1>10 DEF ctime, strlen, truncate, measure, copy, insertItem, resultVars
<1>11. CASE last_insert_rowid(w)
  <2>1. call[w].op \in ColumnWrites \cup ItemWrites /\ call[w].op \in Ops
    BY <1>11 DEF last_insert_rowid, Ops, ColumnWrites, ItemWrites
  <2>2. jsonColumn(lastRowid, call[w].text, call[w].position) \in ColumnJsons
    BY <1>2, <2>1 DEF jsonColumn, ColumnJsons
  <2>3. jsonItem(call[w].column, lastRowid, call[w].text, call[w].position, 0) \in ItemJsons
    BY <1>2, <1>4, <2>1 DEF jsonItem, ItemJsons
  <2> QED
    BY <1>11, <2>2, <2>3 DEF last_insert_rowid
<1>12. CASE timestamp(w)
  <2>1. \A x \in items[w] : [x EXCEPT !.timestamp = Stamp] \in ItemJsons
    BY <1>4 DEF ItemJsons, Stamp
  <2> QED
    BY <1>12, <2>1 DEF timestamp
<1>13. CASE changesOfColumn(w)
  <2>1. call[w].op \in ColumnWrites \cup ItemWrites /\ call[w].op \in Ops
    BY <1>13 DEF changesOfColumn, Ops, ColumnWrites, ItemWrites
  <2>2. jsonColumn(call[w].column, call[w].text, call[w].position) \in ColumnJsons
    BY <1>2, <2>1 DEF jsonColumn, ColumnJsons
  <2> QED
    BY <1>2, <1>13, <2>1, <2>2 DEF changesOfColumn
<1>14. CASE changesOfItem(w)
  <2>1. call[w].op \in ColumnWrites \cup ItemWrites /\ call[w].op \in Ops
    BY <1>14 DEF changesOfItem, Ops, ColumnWrites, ItemWrites
  <2>2. \A x \in items[w] : jsonItem(call[w].column, call[w].item, call[w].text,
                                     call[w].position, x.timestamp) \in ItemJsons
    BY <1>2, <2>1 DEF jsonItem, ItemJsons
  <2> QED
    BY <1>14, <2>2 DEF changesOfItem
<1> QED
  BY <1>5, <1>6, <1>7, <1>8, <1>9, <1>10, <1>11, <1>12, <1>13, <1>14 DEF RepositoryStep

\* Together: a step of a worker keeps the process typed.
LEMMA StepKeepsProcess ==
  ASSUME TypeOK, NEW w \in Workers, RepositoryStep(w), UNCHANGED up
  PROVE  ProcessOK'
<1>1. ProcessOK /\ FileOK
  BY TypeOKParts, FileOKIsDatabaseInv
<1>2. lastRowid' \in Nat /\ changes' \in {0, 1} /\ up' \in BOOLEAN
  BY <1>1, CountersOK DEF ProcessOK
<1>3. ctimeBuf' \in 0 .. Newline /\ length'[w] \in {Torn} \cup 0 .. Newline
  BY <1>1, StepTypesStamp
<1>4. pc'[w] \in Steps /\ IsAt(pc'[w], call[w].op)
  BY <1>1, StepStaysInCall
<1>5. todo'[w] \subseteq Int /\ columns'[w] \subseteq ColumnJsons /\ items'[w] \subseteq ItemJsons
  BY <1>1, StepTypesResult
<1>6. /\ call' = call
      /\ pc' = [pc EXCEPT ![w] = pc'[w]]
      /\ todo' = [todo EXCEPT ![w] = todo'[w]]
      /\ columns' = [columns EXCEPT ![w] = columns'[w]]
      /\ items' = [items EXCEPT ![w] = items'[w]]
      /\ length' = [length EXCEPT ![w] = length'[w]]
  BY <1>1, StepIsLocal
<1>7. pc' \in [Workers -> Steps] /\ call' \in [Workers -> Calls]
      /\ todo' \in [Workers -> SUBSET Int]
  BY <1>1, <1>4, <1>5, <1>6 DEF ProcessOK
<1>8. columns' \in [Workers -> SUBSET ColumnJsons] /\ items' \in [Workers -> SUBSET ItemJsons]
  BY <1>1, <1>5, <1>6 DEF ProcessOK
<1>9. length' \in [Workers -> {Torn} \cup 0 .. Newline]
  BY <1>1, <1>3, <1>6 DEF ProcessOK
<1>10. \A v \in Workers : IsCall(call'[v]) /\ IsAt(pc'[v], call'[v].op)
  BY <1>1, <1>4, <1>6 DEF ProcessOK
<1> QED
  BY <1>2, <1>3, <1>7, <1>8, <1>9, <1>10 DEF ProcessOK, IsCall, IsAt

\* The observer's notes stay notes.
LEMMA ObserveOK ==
  ASSUME Observed, Stored' \in Boards, NEW w \in Workers, Observe(w)
  PROVE  Observed'
BY DEF Observed, Observe, Union, Common, Boards

\* The process that has died or not started yet is typed.
LEMMA NoCallIsCall ==
  /\ NoCall \in Calls /\ IsCall(NoCall) /\ Nothing \in Boards
  /\ "idle" \in Steps /\ IsAt("idle", NoCall.op) /\ 0 \in 0 .. Newline
<1>1. 0 \in 0 .. Newline
  BY NewlineAssumption
<1> QED
  BY <1>1 DEF NoCall, Calls, IsCall, IsAt, Steps, Ops, ColumnWrites, ItemWrites, Nothing, Boards

\* An int holds what a handler receives as one.
LEMMA NarrowIsInt ==
  ASSUME NEW id \in Int PROVE Narrow(id) \in -IntHalf .. IntHalf - 1
<1>1. \A m \in Int, n \in Nat \ {0} : m % n \in 0 .. n - 1
  OBVIOUS
<1>2. id + IntHalf \in Int /\ 2 * IntHalf \in Nat \ {0}
  BY IntHalfAssumption
<1>3. (id + IntHalf) % (2 * IntHalf) \in 0 .. 2 * IntHalf - 1
  BY <1>1, <1>2
<1> QED
  BY <1>3, IntHalfAssumption DEF Narrow

\* A route has a handler of the board's, if it has one.
LEMMA HandlersAreOps ==
  ASSUME NEW route, NEW method PROVE HandlersOf(route, method) \subseteq Ops
<1>1. \A h \in registerRoutes : h[3] \in Ops
  BY DEF registerRoutes, Ops, ColumnWrites, ItemWrites
<1> QED
  BY <1>1 DEF HandlersOf

\* What the parser lets through of a body has the types that a call needs.
LEMMA ParsedIsTyped ==
  ASSUME NEW r \in Requests, NEW op \in Ops,
         NEW parsed \in ParsedBodies(op, r.body), NEW model \in parsed
  PROVE  /\ model.text \in Text \cup {NoText} /\ model.position \in Int
         /\ op \in ColumnWrites \cup ItemWrites =>
              model.text \in Text /\ model.position \in Positions
<1>1. CASE op \in ColumnWrites
  <2>1. parsed = convertColumnToModel(r.body) \/ parsed = {}
    BY <1>1 DEF ParsedBodies, OutcomesOf
  <2>2. /\ isValidColumn(r.body)
        /\ model = [text |-> r.body.name.data, position |-> r.body.position.data]
    BY <2>1 DEF convertColumnToModel
  <2> QED
    BY <2>2, RequestsAssumption, PositionsAssumption DEF isValidColumn
<1>2. CASE op \in ItemWrites
  <2>1. parsed = convertItemToModel(r.body) \/ parsed = {}
    BY <1>2 DEF ParsedBodies, OutcomesOf, ColumnWrites, ItemWrites
  <2>2. /\ isValidItem(r.body)
        /\ model = [text |-> r.body.title.data, position |-> r.body.position.data]
    BY <2>1 DEF convertItemToModel
  <2> QED
    BY <2>2, RequestsAssumption, PositionsAssumption DEF isValidItem
<1>3. CASE op \notin ColumnWrites \cup ItemWrites
  BY <1>3 DEF ParsedBodies
<1> QED
  BY <1>1, <1>2, <1>3

\* Every request becomes calls of the right type,
LEMMA CallsAreTyped ==
  ASSUME NEW r \in Requests, NEW c \in CallsOf(r)
  PROVE  c \in Calls /\ IsCall(c)
<1>1. CASE c = NoCall
  BY <1>1, NoCallIsCall
<1>2. CASE c # NoCall
  <2>1. PICK op \in HandlersOf(r.route, r.method) :
          \E parsed \in ParsedBodies(op, r.body) : c \in CallsFor(op, r, parsed)
    BY <1>2 DEF CallsOf
  <2>2. op \in Ops
    BY <2>1, HandlersAreOps
  <2>3. PICK parsed \in ParsedBodies(op, r.body) : c \in CallsFor(op, r, parsed)
    BY <2>1
  <2>4. PICK model \in parsed :
          c = [op |-> op, column |-> Narrow(r.column), item |-> Narrow(r.item),
               text |-> model.text, position |-> model.position]
    BY <1>2, <2>3 DEF CallsFor
  <2>5. /\ model.text \in Text \cup {NoText} /\ model.position \in Int
        /\ op \in ColumnWrites \cup ItemWrites =>
             model.text \in Text /\ model.position \in Positions
    BY <2>2, <2>3, <2>4, ParsedIsTyped
  <2>6. Narrow(r.column) \in Ids /\ Narrow(r.item) \in Ids
    BY NarrowIsInt, RequestsAssumption
  <2> QED
    BY <2>2, <2>4, <2>5, <2>6, IdsAssumption DEF Calls, IsCall
<1> QED
  BY <1>1, <1>2

\* at their first steps.
LEMMA ReceiveOK ==
  ASSUME TypeOK, NEW w \in Workers, NEW r \in Requests, Receive(w, r)
  PROVE  ProcessOK' /\ Observed'
<1>1. ProcessOK /\ FileOK /\ Observed
  BY TypeOKParts, FileOKIsDatabaseInv
<1>2. PICK c \in CallsOf(r) :
        /\ call' = [call EXCEPT ![w] = c]
        /\ pc' = [pc EXCEPT ![w] = EntryOf(c.op)]
        /\ todo' = [todo EXCEPT ![w] = IF c.op = "getItems" THEN {c.column} ELSE {}]
  BY DEF Receive, Goto
<1>3. c \in Calls /\ IsCall(c)
  BY <1>2, CallsAreTyped
<1>4. EntryOf(c.op) \in Steps /\ IsAt(EntryOf(c.op), c.op)
  <2>1. c.op \in Ops \cup {"none"}
    BY <1>3 DEF Calls
  <2> QED
    BY <2>1 DEF EntryOf, IsAt, Steps, Ops, ColumnWrites, ItemWrites
<1>5. c.op = "getItems" => c.column \in Int
  BY <1>3 DEF Calls
<1>6. ProcessOK'
  <2>1. pc' \in [Workers -> Steps] /\ call' \in [Workers -> Calls]
        /\ todo' \in [Workers -> SUBSET Int]
    BY <1>1, <1>2, <1>3, <1>4, <1>5 DEF ProcessOK
  <2>2. \A v \in Workers : IsCall(call'[v]) /\ IsAt(pc'[v], call'[v].op)
    BY <1>1, <1>2, <1>3, <1>4 DEF ProcessOK
  <2> QED
    BY <1>1, <2>1, <2>2 DEF Receive, ProcessOK, connVars, IsCall, IsAt
<1>7. Observed'
  BY <1>1, RowsAreJson DEF Observed, Receive
<1> QED
  BY <1>6, <1>7

\* The process is typed at the start, and every step keeps it so.
LEMMA InitTypes == Init => TypeOK
<1> SUFFICES ASSUME Init PROVE TypeOK
  OBVIOUS
<1>1. DatabaseInv
  BY InitOK, FileOKIsDatabaseInv DEF Init
<1>2. ProcessOK
  BY NoCallIsCall DEF Init, ConnectionInit, PerWorker, ProcessOK
<1>3. Observed
  BY NoCallIsCall DEF Init, PerWorker, Observed
<1> QED
  BY <1>1, <1>2, <1>3, TypeOKParts

\* No step of the service breaks a type.
LEMMA NextTypes == TypeOK /\ [Next]_vars => TypeOK'
<1> SUFFICES ASSUME TypeOK, [Next]_vars PROVE TypeOK'
  OBVIOUS
<1>1. FileOK /\ ProcessOK /\ Observed
  BY TypeOKParts, FileOKIsDatabaseInv
<1>2. FileOK' /\ DatabaseInv'
  <2>1. FileOK'
    BY <1>1, NextIsStep, NextOK
  <2> QED
    BY <2>1, FileOKIsDatabaseInv, PTL
<1>3. ProcessOK' /\ Observed'
  <2>1. CASE Start
    BY <1>1, <2>1 DEF Start, ProcessOK, Observed, connVars, repoVars, obsVars, IsCall, IsAt
  <2>2. CASE Crash
    <3>1. ProcessOK'
      BY <2>2, NoCallIsCall DEF Crash, PerWorker, ProcessOK
    <3>2. Observed'
      BY <2>2, NoCallIsCall DEF Crash, PerWorker, Observed
    <3> QED
      BY <3>1, <3>2
  <2>3. ASSUME NEW w \in Workers, Work(w) PROVE ProcessOK' /\ Observed'
    <3>1. (Stored \in Boards)'
      BY <1>2, StoredIsBoard, PTL
    <3> QED
      BY <1>1, <2>3, <3>1, StepKeepsProcess, ObserveOK DEF Work
  <2>4. ASSUME NEW w \in Workers, Reply(w) PROVE ProcessOK' /\ Observed'
    <3>1. ProcessOK'
      BY <1>1, <2>4, NoCallIsCall DEF Reply, Cleared, Goto, ProcessOK, connVars
    <3>2. Observed'
      BY <1>1, <2>4, NoCallIsCall DEF Reply, Cleared, Observed
    <3> QED
      BY <3>1, <3>2
  <2>5. ASSUME NEW w \in Workers, NEW r \in Requests, Receive(w, r)
        PROVE  ProcessOK' /\ Observed'
    BY <2>5, ReceiveOK
  <2>6. CASE UNCHANGED vars
    BY <1>1, <2>6 DEF vars, ProcessOK, Observed, connVars, repoVars, obsVars, IsCall, IsAt
  <2> QED
    BY <2>1, <2>2, <2>3, <2>4, <2>5, <2>6 DEF Next
<1> QED
  BY <1>2, <1>3 DEF TypeOK, ProcessOK, Observed

\* Types, calls and steps are what TypeOK says, for any number of threads.
THEOREM ServiceIsTyped == Spec => []TypeOK
BY InitTypes, NextTypes, PTL DEF Spec

\* The service implements the database file: whatever its threads do, and
\* however it dies, the file changes by whole statements.
THEOREM ServiceImplementsDatabase == Spec => DatabaseSpec
<1>1. Init => DatabaseInit
  BY DEF Init
<1> QED
  BY <1>1, InitTypes, NextTypes, NextIsStep, PTL DEF Spec, DatabaseSpec

\* So what is proved of every file holds of the file of the service: no two
\* columns or items at one place,
THEOREM ServiceKeepsPositionsUnique == Spec => []UniquePositions
BY ServiceImplementsDatabase, PositionsAreUnique, PTL

\* and no id given twice, across crashes and restarts.
THEOREM ServiceNeverReusesIds == Spec => IdsNeverReused
BY ServiceImplementsDatabase, IdsAreNeverReused, PTL

-----------------------------------------------------------------------------
\* What one step of a call that reads may add to its result.
LEMMA ReadStep ==
  ASSUME ProcessOK, NEW w \in Workers, RepositoryStep(w), IsRead(w)
  PROVE  /\ UNCHANGED dbVars
         /\ pc'[w] \notin {"idle", "getColumns", "getColumn"}
         /\ \/ /\ pc[w] \in {"getColumns", "getColumn"}
               /\ columns'[w] \subseteq columns[w] \cup StoredColumns
               /\ items'[w] = items[w]
            \/ /\ pc[w] = "getItems" /\ columns'[w] = columns[w]
               /\ \E c \in todo[w] :
                    /\ items'[w] \subseteq items[w] \cup ItemsUnder(c)
                    /\ todo'[w] = todo[w] \ {c}
            \/ /\ pc[w] = "selectItem" /\ pc'[w] # "getItems"
               /\ columns'[w] = columns[w]
               /\ items'[w] \subseteq Selected(call[w])
<1>1. /\ w \in DOMAIN pc /\ w \in DOMAIN todo /\ w \in DOMAIN columns /\ w \in DOMAIN items
      /\ IsAt(pc[w], call[w].op)
  BY DEF ProcessOK
<1>2. pc[w] \in {"getColumns", "getColumn", "getItems", "selectItem", "reply"}
  BY <1>1 DEF IsRead, IsAt, PostOps
<1>3. CASE getColumns(w)
  BY <1>1, <1>3 DEF getColumns, Select, Goto
<1>4. CASE getColumn(w)
  BY <1>1, <1>4 DEF getColumn, Select, Goto, StoredColumns
<1>5. CASE getItems(w)
  <2>1. PICK c \in todo[w] :
          /\ \E found \in SUBSET ItemsUnder(c) :
               items' = [items EXCEPT ![w] = @ \cup found]
          /\ todo' = [todo EXCEPT ![w] = @ \ {c}]
    BY <1>5 DEF getItems, Rest
  <2>2. items'[w] \subseteq items[w] \cup ItemsUnder(c)
        /\ todo'[w] = todo[w] \ {c}
    BY <1>1, <2>1
  <2>3. UNCHANGED dbVars /\ pc'[w] \in {"reply", "getItems"}
        /\ pc[w] = "getItems" /\ columns'[w] = columns[w]
    BY <1>1, <1>5 DEF getItems, Select, Goto
  <2> QED
    BY <2>2, <2>3
<1>6. CASE selectItem(w)
  BY <1>1, <1>6 DEF selectItem, Select, Goto, IsRead
<1> QED
  BY <1>2, <1>3, <1>4, <1>5, <1>6
     DEF RepositoryStep, postColumn, putColumn, deleteColumn, putItem, deleteItem, ctime,
         strlen, truncate, measure, copy, insertItem, last_insert_rowid, timestamp,
         changesOfColumn, changesOfItem

\* A worker that reads is not idle.
LEMMA ReaderIsBusy ==
  ASSUME ProcessOK, NEW w \in Workers, IsRead(w) PROVE pc[w] # "idle"
<1>1. IsAt(pc[w], call[w].op)
  BY DEF ProcessOK
<1> QED
  BY <1>1 DEF IsAt, IsRead

\* The server has one thread (or none).
OneWorker == \A v, w \in Workers : v = w

\* The locals of the others, one by one.
LEMMA OthersStay ==
  ASSUME ProcessOK, NEW w \in Workers, RepositoryStep(w)
  PROVE  /\ call' = call
         /\ \A v \in Workers \ {w} : /\ pc'[v] = pc[v] /\ todo'[v] = todo[v]
                                    /\ columns'[v] = columns[v] /\ items'[v] = items[v]
<1>1. /\ DOMAIN pc = Workers /\ DOMAIN todo = Workers
      /\ DOMAIN columns = Workers /\ DOMAIN items = Workers
  BY DEF ProcessOK
<1>2. /\ call' = call
      /\ pc' = [pc EXCEPT ![w] = pc'[w]] /\ todo' = [todo EXCEPT ![w] = todo'[w]]
      /\ columns' = [columns EXCEPT ![w] = columns'[w]]
      /\ items' = [items EXCEPT ![w] = items'[w]]
  BY StepIsLocal
<1>3. \A v \in Workers \ {w} : pc'[v] = pc[v] /\ todo'[v] = todo[v]
  BY <1>1, <1>2
<1>4. \A v \in Workers \ {w} : columns'[v] = columns[v] /\ items'[v] = items[v]
  BY <1>1, <1>2
<1> QED
  BY <1>2, <1>3, <1>4

\* No step of a worker leads back to the first step of a call.
LEMMA StepLeavesEntry ==
  ASSUME ProcessOK, NEW w \in Workers, RepositoryStep(w)
  PROVE  pc'[w] \notin {"idle", "getColumns", "getColumn"}
<1>1. w \in DOMAIN pc
  BY DEF ProcessOK
<1> QED
  BY <1>1 DEF RepositoryStep, Goto, AfterInsert, getColumns, getColumn, getItems, selectItem,
     postColumn, putColumn, deleteColumn, putItem, deleteItem, ctime, strlen, truncate, measure, copy,
     insertItem, last_insert_rowid, timestamp, changesOfColumn, changesOfItem

\* What ReadingOK says of one item x of the result of worker v.
Settled(v, x) ==
  /\ pc[v] = "getItems" => x.column \notin todo[v]
  /\ x.id <= itemSeq
  /\ x.id \in DOMAIN item => item[x.id].column_id = x.column

\* A statement of anybody leaves the items that were read where they were.
LEMMA ItemsStaySettled ==
  ASSUME FileOK, [DatabaseNext]_dbVars, NEW v, NEW x, x.id \in Int, Settled(v, x),
         pc'[v] = "getItems" => pc[v] = "getItems" /\ todo'[v] \subseteq todo[v]
  PROVE  Settled(v, x)'
<1>1. NoIdAgain /\ SameColumn
  BY StepKeepsIds
<1>2. itemSeq \in Int /\ itemSeq' \in Int
  BY NextOK DEF FileOK
<1>3. x.id <= itemSeq'
  BY <1>1, <1>2 DEF NoIdAgain, Settled
<1>4. x.id \in DOMAIN item' => item'[x.id].column_id = x.column
  <2>1. x.id \in DOMAIN item' => x.id \in DOMAIN item
    BY <1>1, <1>2 DEF NoIdAgain, Settled
  <2> QED
    BY <1>1, <2>1 DEF SameColumn, Settled
<1> QED
  BY <1>3, <1>4 DEF Settled

\* ReadingOK in terms of Settled.
LEMMA ReadingOKIsSettled ==
  ReadingOK <=>
    \A v \in Workers :
      /\ pc[v] \in {"idle", "getColumns", "getColumn"} => IsEmpty(v)
      /\ IsRead(v) => \A x \in items[v] : Settled(v, x)
BY DEF ReadingOK, Settled

\* A step of a worker keeps what every worker has read settled.
LEMMA WorkKeepsReading ==
  ASSUME TypeOK, ReadingOK, NEW w \in Workers, Work(w)
  PROVE  \A v \in Workers :
           /\ pc'[v] \in {"idle", "getColumns", "getColumn"} => IsEmpty(v)'
           /\ IsRead(v)' => \A x \in items'[v] : Settled(v, x)'
<1>1. FileOK /\ ProcessOK /\ RepositoryStep(w) /\ [DatabaseNext]_dbVars
  BY TypeOKParts, FileOKIsDatabaseInv, RepositoryStepIsStep DEF Work
<1>2. /\ call' = call
      /\ \A v \in Workers \ {w} : /\ pc'[v] = pc[v] /\ todo'[v] = todo[v]
                                 /\ columns'[v] = columns[v] /\ items'[v] = items[v]
  BY <1>1, OthersStay
<1>3. \A v \in Workers : \A x \in items[v] : x.id \in Int
  BY <1>1 DEF ProcessOK, ItemJsons
<1>4. \A v \in Workers : pc'[v] \in {"idle", "getColumns", "getColumn"} => IsEmpty(v)'
  <2>1. pc'[w] \notin {"idle", "getColumns", "getColumn"}
    BY <1>1, StepLeavesEntry
  <2> QED
    BY <1>2, <2>1 DEF ReadingOK, IsEmpty
<1>5. ASSUME NEW v \in Workers \ {w}, IsRead(v)', NEW x \in items'[v]
      PROVE  Settled(v, x)'
  <2>1. IsRead(v) /\ x \in items[v] /\ x.id \in Int
    BY <1>2, <1>3, <1>5 DEF IsRead
  <2>2. Settled(v, x)
    BY <2>1, ReadingOKIsSettled
  <2> QED
    BY <1>1, <1>2, <2>1, <2>2, ItemsStaySettled
<1>6. ASSUME IsRead(w)', NEW x \in items'[w]
      PROVE  Settled(w, x)'
  <2>1. IsRead(w) /\ UNCHANGED dbVars
    BY <1>1, <1>2, <1>6, ReadStep DEF IsRead
  <2>2. \A y \in StoredItems : /\ y.id \in DOMAIN item /\ y.id <= itemSeq
                               /\ y.column = item[y.id].column_id
    BY <1>1 DEF FileOK, StoredItems, ItemJson, jsonItem
  <2>3. item' = item /\ itemSeq' = itemSeq
    BY <2>1 DEF dbVars
  <2>4. \A y \in items[w] : Settled(w, y)
    BY <2>1, ReadingOKIsSettled
  <2>5. CASE pc[w] \in {"getColumns", "getColumn"}
    <3>1. items'[w] = {}
      BY <1>1, <2>1, <2>5, ReadStep DEF ReadingOK, IsEmpty
    <3> QED
      BY <1>6, <3>1
  <2>6. CASE pc[w] = "getItems"
    <3>1. PICK c \in todo[w] :
            /\ items'[w] \subseteq items[w] \cup ItemsUnder(c)
            /\ todo'[w] = todo[w] \ {c}
      BY <1>1, <2>1, <2>6, ReadStep
    <3>2. CASE x \in items[w]
      BY <2>3, <2>4, <2>6, <3>1, <3>2 DEF Settled
    <3>3. CASE x \in ItemsUnder(c)
      BY <2>2, <2>3, <3>1, <3>3, ItemsUnderAreStored DEF Settled
    <3> QED
      BY <1>6, <3>1, <3>2, <3>3
  <2>7. CASE pc[w] = "selectItem"
    <3>1. /\ pc'[w] # "getItems"
          /\ items'[w] \subseteq Selected(call[w])
      BY <1>1, <2>1, <2>7, ReadStep
    <3> QED
      BY <1>6, <2>2, <2>3, <3>1, ItemsUnderAreStored DEF Settled, Selected
  <2> QED
    BY <1>1, <2>1, <2>5, <2>6, <2>7, ReadStep
<1> QED
  BY <1>4, <1>5, <1>6

\* A worker that starts a call or ends one has read nothing.
LEMMA NewCallKeepsReading ==
  ASSUME TypeOK, ReadingOK, NEW w \in Workers,
         Reply(w) \/ \E r \in Requests : Receive(w, r)
  PROVE  ReadingOK'
<1>1. /\ DOMAIN pc = Workers /\ DOMAIN call = Workers /\ DOMAIN todo = Workers
      /\ DOMAIN columns = Workers /\ DOMAIN items = Workers
  BY TypeOKParts DEF ProcessOK
<1>2. /\ columns'[w] = {} /\ items'[w] = {}
      /\ \A v \in Workers \ {w} : /\ pc'[v] = pc[v] /\ call'[v] = call[v] /\ todo'[v] = todo[v]
                                 /\ columns'[v] = columns[v] /\ items'[v] = items[v]
      /\ item' = item /\ itemSeq' = itemSeq
  <2>1. CASE Reply(w)
    BY <1>1, <2>1 DEF Reply, Cleared, Goto, dbVars
  <2>2. ASSUME NEW r \in Requests, Receive(w, r)
        PROVE  /\ columns'[w] = {} /\ items'[w] = {}
               /\ \A v \in Workers \ {w} :
                    /\ pc'[v] = pc[v] /\ call'[v] = call[v] /\ todo'[v] = todo[v]
                    /\ columns'[v] = columns[v] /\ items'[v] = items[v]
               /\ item' = item /\ itemSeq' = itemSeq
    <3>1. columns[w] = {} /\ items[w] = {}
      BY <2>2 DEF Receive, ReadingOK, IsEmpty
    <3> QED
      BY <1>1, <2>2, <3>1 DEF Receive, Goto, dbVars
  <2> QED
    BY <2>1, <2>2
<1> QED
  BY <1>2 DEF ReadingOK, IsRead, IsEmpty

\* No step of the service unsettles what was read.
LEMMA NextKeepsReading == TypeOK /\ ReadingOK /\ [Next]_vars => ReadingOK'
<1> SUFFICES ASSUME TypeOK, ReadingOK, [Next]_vars PROVE ReadingOK'
  OBVIOUS
<1>1. CASE Start
  BY <1>1 DEF Start, CreateTables, repoVars, ReadingOK, IsRead, IsEmpty
<1>2. CASE Crash
  BY <1>2 DEF Crash, PerWorker, ReadingOK, IsEmpty
<1>3. ASSUME NEW w \in Workers, Work(w) PROVE ReadingOK'
  BY <1>3, WorkKeepsReading DEF ReadingOK, Settled, IsEmpty, IsRead
<1>4. ASSUME NEW w \in Workers, Reply(w) PROVE ReadingOK'
  BY <1>4, NewCallKeepsReading
<1>5. ASSUME NEW w \in Workers, NEW r \in Requests, Receive(w, r) PROVE ReadingOK'
  BY <1>5, NewCallKeepsReading
<1>6. CASE UNCHANGED vars
  BY <1>6 DEF vars, dbVars, repoVars, ReadingOK, IsRead, IsEmpty
<1> QED
  BY <1>1, <1>2, <1>3, <1>4, <1>5, <1>6 DEF Next

\* At the start nothing has been read.
LEMMA InitReading == Init => ReadingOK
BY DEF Init, PerWorker, ReadingOK, IsEmpty

\* What a call has read so far can turn up nowhere else, with any number of
\* threads: ids are not reused and items keep their column.
THEOREM ReadingIsSettled == Spec => []ReadingOK
BY InitTypes, NextTypes, InitReading, NextKeepsReading, PTL DEF Spec

-----------------------------------------------------------------------------
\* A read of one more column adds no item that was read before.
LEMMA WorkShowsNoItemTwice ==
  ASSUME TypeOK, ReadingOK, NoItemTwice, NEW w \in Workers, Work(w)
  PROVE  NoItemTwice'
<1>1. FileOK /\ ProcessOK /\ RepositoryStep(w)
  BY TypeOKParts, FileOKIsDatabaseInv DEF Work
<1>2. call' = call /\ \A v \in Workers \ {w} : items'[v] = items[v]
  BY <1>1, OthersStay
<1>3. ASSUME NEW v \in Workers \ {w}, IsRead(v)', NEW x \in items'[v], NEW y \in items'[v],
             x.id = y.id
      PROVE  x = y
  BY <1>2, <1>3 DEF NoItemTwice, IsRead
<1>4. ASSUME IsRead(w)', NEW x \in items'[w], NEW y \in items'[w], x.id = y.id
      PROVE  x = y
  <2>1. IsRead(w)
    BY <1>2, <1>4 DEF IsRead
  <2>2. \A a, b \in StoredItems : a.id = b.id => a = b
    BY DEF StoredItems, ItemJson, jsonItem
  <2>3. CASE pc[w] = "getItems"
    <3>1. PICK c \in todo[w] :
            items'[w] \subseteq items[w] \cup ItemsUnder(c)
      BY <1>1, <2>1, <2>3, ReadStep
    <3>2. \A z \in ItemsUnder(c) : z \in StoredItems /\ z.id \in DOMAIN item /\ item[z.id].column_id = c
      BY DEF ItemsUnder, ItemsOf, StoredItems, ItemJson, jsonItem
    <3>3. \A z \in items[w], y1 \in ItemsUnder(c) : z.id # y1.id
      BY <2>1, <2>3, <3>1, <3>2 DEF ReadingOK
    <3>4. CASE x \in items[w] /\ y \in items[w]
      BY <1>4, <2>1, <3>4 DEF NoItemTwice
    <3>5. CASE x \notin items[w] \/ y \notin items[w]
      BY <1>4, <2>2, <3>1, <3>2, <3>3, <3>5
    <3> QED
      BY <3>4, <3>5
  <2>4. CASE items'[w] = items[w]
    BY <1>4, <2>1, <2>4 DEF NoItemTwice
  <2>5. CASE items'[w] \subseteq Selected(call[w])
    BY <1>4, <2>2, <2>5, ItemsUnderAreStored DEF Selected
  <2> QED
    BY <1>1, <2>1, <2>3, <2>4, <2>5, ReadStep
<1> QED
  BY <1>3, <1>4 DEF NoItemTwice

\* Nor does any other step.
LEMMA NextShowsNoItemTwice ==
  TypeOK /\ ReadingOK /\ NoItemTwice /\ [Next]_vars => NoItemTwice'
<1> SUFFICES ASSUME TypeOK, ReadingOK, NoItemTwice, [Next]_vars PROVE NoItemTwice'
  OBVIOUS
<1>1. DOMAIN call = Workers /\ DOMAIN items = Workers
  BY TypeOKParts DEF ProcessOK
<1>2. CASE Start
  BY <1>2 DEF Start, repoVars, NoItemTwice, IsRead
<1>3. CASE Crash
  BY <1>3 DEF Crash, PerWorker, NoItemTwice
<1>4. ASSUME NEW w \in Workers, Work(w) PROVE NoItemTwice'
  BY <1>4, WorkShowsNoItemTwice
<1>5. ASSUME NEW w \in Workers, Reply(w) PROVE NoItemTwice'
  BY <1>1, <1>5 DEF Reply, Cleared, NoItemTwice, IsRead
<1>6. ASSUME NEW w \in Workers, NEW r \in Requests, Receive(w, r) PROVE NoItemTwice'
  <2>1. items[w] = {} /\ items' = items
    BY <1>6 DEF Receive, ReadingOK, IsEmpty
  <2>2. \A v \in Workers \ {w} : call'[v] = call[v]
    BY <1>1, <1>6 DEF Receive
  <2> QED
    BY <2>1, <2>2 DEF NoItemTwice, IsRead
<1>7. CASE UNCHANGED vars
  BY <1>7 DEF vars, repoVars, NoItemTwice, IsRead
<1> QED
  BY <1>2, <1>3, <1>4, <1>5, <1>6, <1>7 DEF Next

\* No answer to a GET shows an item twice, however the selects of its columns
\* and the writes of other threads interleave.
THEOREM NoItemIsShownTwice == Spec => []NoItemTwice
<1>1. Init => NoItemTwice
  BY DEF Init, PerWorker, NoItemTwice
<1> QED
  BY <1>1, InitTypes, NextTypes, InitReading, NextKeepsReading, NextShowsNoItemTwice, PTL
     DEF Spec

-----------------------------------------------------------------------------
\* What a worker reads is stored when it reads it.
LEMMA WorkReadsWhatIsStored ==
  ASSUME TypeOK, ReadsAreValid, NEW w \in Workers, Work(w)
  PROVE  ReadsAreValid'
<1>1. FileOK /\ ProcessOK /\ RepositoryStep(w)
  BY TypeOKParts, FileOKIsDatabaseInv DEF Work
<1>2. call' = call /\ \A v \in Workers \ {w} : columns'[v] = columns[v] /\ items'[v] = items[v]
  BY <1>1, OthersStay
<1>3. \A v \in Workers : IsRead(v) =>
        /\ ever'[v].columns = ever[v].columns \cup StoredColumns'
        /\ ever'[v].items = ever[v].items \cup StoredItems'
  BY <1>1, ReaderIsBusy DEF Work, Observe, Union, Stored
<1>4. ASSUME NEW v \in Workers \ {w}, IsRead(v)
      PROVE  columns'[v] \subseteq ever'[v].columns /\ items'[v] \subseteq ever'[v].items
  BY <1>2, <1>3, <1>4 DEF ReadsAreValid
<1>5. ASSUME IsRead(w)
      PROVE  columns'[w] \subseteq ever'[w].columns /\ items'[w] \subseteq ever'[w].items
  <2>1. StoredColumns' = StoredColumns /\ StoredItems' = StoredItems
    BY <1>1, <1>5, ReadStep DEF dbVars, StoredColumns, StoredItems, ColumnJson, ItemJson
  <2>2. columns'[w] \subseteq columns[w] \cup StoredColumns
    BY <1>1, <1>5, ReadStep
  <2>3. items'[w] \subseteq items[w] \cup StoredItems
    BY <1>1, <1>5, ReadStep, ItemsUnderAreStored DEF Selected
  <2> QED
    BY <1>3, <1>5, <2>1, <2>2, <2>3 DEF ReadsAreValid
<1> QED
  BY <1>2, <1>4, <1>5 DEF ReadsAreValid, IsRead

\* Every step of the service keeps what was read among what was ever stored.
LEMMA NextKeepsReadsValid ==
  TypeOK /\ ReadingOK /\ ReadsAreValid /\ [Next]_vars => ReadsAreValid'
<1> SUFFICES ASSUME TypeOK, ReadingOK, ReadsAreValid, [Next]_vars PROVE ReadsAreValid'
  OBVIOUS
<1>1. /\ DOMAIN call = Workers /\ DOMAIN items = Workers /\ DOMAIN columns = Workers
      /\ DOMAIN ever = Workers
  BY TypeOKParts DEF ProcessOK, Observed
<1>2. CASE Start
  BY <1>2 DEF Start, repoVars, obsVars, ReadsAreValid, IsRead
<1>3. CASE Crash
  BY <1>3 DEF Crash, PerWorker, ReadsAreValid
<1>4. ASSUME NEW w \in Workers, Work(w) PROVE ReadsAreValid'
  BY <1>4, WorkReadsWhatIsStored
<1>5. ASSUME NEW w \in Workers, Reply(w) PROVE ReadsAreValid'
  BY <1>1, <1>5 DEF Reply, Cleared, ReadsAreValid, IsRead
<1>6. ASSUME NEW w \in Workers, NEW r \in Requests, Receive(w, r) PROVE ReadsAreValid'
  <2>1. columns[w] = {} /\ items[w] = {} /\ columns' = columns /\ items' = items
    BY <1>6 DEF Receive, ReadingOK, IsEmpty
  <2>2. \A v \in Workers \ {w} : call'[v] = call[v] /\ ever'[v] = ever[v]
    BY <1>1, <1>6 DEF Receive
  <2> QED
    BY <2>1, <2>2 DEF ReadsAreValid, IsRead
<1>7. CASE UNCHANGED vars
  BY <1>7 DEF vars, repoVars, obsVars, ReadsAreValid, IsRead
<1> QED
  BY <1>2, <1>3, <1>4, <1>5, <1>6, <1>7 DEF Next

\* Whatever a GET shows was stored, just so, at some moment of the request.
THEOREM ReadsShowWhatWasStored == Spec => []ReadsAreValid
<1>1. Init => ReadsAreValid
  BY DEF Init, PerWorker, ReadsAreValid
<1> QED
  BY <1>1, InitTypes, NextTypes, InitReading, NextKeepsReading, NextKeepsReadsValid, PTL
     DEF Spec
=============================================================================
