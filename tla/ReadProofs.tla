---------------------------- MODULE ReadProofs -----------------------------
(***************************************************************************)
(* GET of the board or of the columns leaves out nothing that was there,   *)
(* unchanged, from its first moment to its last, with any number of        *)
(* threads: the loop of BoardRepository::getColumns comes to every column  *)
(* that its first select has seen.  And the loop ends: it has always a     *)
(* next column, no step takes a request back, and no other thread can.     *)
(***************************************************************************)
EXTENDS BoardService_proofs, FiniteSetTheorems, WellFoundedInduction

\* The items that the answer of w may not leave out.
Lasting(w) == {x \in always[w].items : \E c \in always[w].columns : c.id = x.column}

\* How far a read has come: the columns are there after the first select, and
\* an item that is not there yet is of a column that is still to be read.
LoopOK(w) ==
  call[w].op \in {"getBoard", "getColumns"} /\ ~Faults =>
    /\ pc[w] \in {"getItems", "reply"} => always[w].columns \subseteq columns[w]
    /\ pc[w] = "getItems" => \A x \in Lasting(w) : x \in items[w] \/ x.column \in todo[w]
    /\ pc[w] = "reply" => Lasting(w) \subseteq items[w]

\* The inductive invariant of ReadsMissNothing.
LoopInv == \A w \in Workers : LoopOK(w)

\* It says what the property asks.
LEMMA LoopInvIsEnough == LoopInv => ReadsMissNothing
BY DEF LoopInv, LoopOK, Lasting, ReadsMissNothing, Answers

-----------------------------------------------------------------------------
\* A step leaves fewer lasting items, and of worker v's what it has not read.
LEMMA LastingShrinks ==
  ASSUME ProcessOK, NEW w \in Workers, Work(w), NEW v \in Workers, pc[v] # "idle"
  PROVE  /\ always'[v].columns \subseteq always[v].columns
         /\ always'[v].columns \subseteq StoredColumns'
         /\ Lasting(v)' \subseteq Lasting(v)
         /\ Lasting(v)' \subseteq StoredItems'
<1>1. /\ always'[v].columns = always[v].columns \cap StoredColumns'
      /\ always'[v].items = always[v].items \cap StoredItems'
  BY DEF Work, Observe, Common, Stored
<1> QED
  BY <1>1 DEF Lasting

\* A step of worker w leaves the loop of another where it was.
LEMMA WorkKeepsOtherLoops ==
  ASSUME ProcessOK, NEW w \in Workers, Work(w), NEW v \in Workers \ {w}, LoopOK(v)
  PROVE  LoopOK(v)'
<1>1. /\ call'[v] = call[v] /\ pc'[v] = pc[v] /\ todo'[v] = todo[v]
      /\ columns'[v] = columns[v] /\ items'[v] = items[v]
  BY OthersStay DEF Work
<1>2. CASE pc[v] = "idle"
  BY <1>1, <1>2 DEF LoopOK
<1>3. CASE pc[v] # "idle"
  <2>1. always'[v].columns \subseteq always[v].columns /\ Lasting(v)' \subseteq Lasting(v)
    BY <1>3, LastingShrinks
  <2> QED
    BY <1>1, <2>1 DEF LoopOK
<1> QED
  BY <1>2, <1>3

\* Where a select fails without a fault there is no table, and nothing to show.
LEMMA NothingWithoutTable ==
  ASSUME FileOK, ~Faults
  PROVE  /\ Select("column", "error") => StoredColumns = {}
         /\ Select("item", "error") => StoredItems = {}
BY DEF FileOK, Select, StoredColumns, StoredItems

\* The first select sees every column, and sends the loop to each of them.
LEMMA FirstSelect ==
  ASSUME FileOK, ProcessOK, NEW w \in Workers, Work(w), getColumns(w)
  PROVE  LoopOK(w)'
<1> SUFFICES ASSUME call[w].op \in {"getBoard", "getColumns"}, ~Faults PROVE LoopOK(w)'
  <2>1. call' = call
    BY DEF getColumns
  <2> QED
    BY <2>1 DEF LoopOK
<1>1. /\ w \in DOMAIN pc /\ w \in DOMAIN columns /\ w \in DOMAIN todo /\ pc[w] = "getColumns"
  BY DEF ProcessOK, getColumns
<1>2. StoredColumns' = StoredColumns
  BY DEF getColumns, Select, dbVars, StoredColumns, ColumnJson
<1>3. always'[w].columns \subseteq StoredColumns
  BY <1>1, <1>2, LastingShrinks
<1>4. always'[w].columns = {} => Lasting(w)' = {}
  BY DEF Lasting
<1>5. CASE Select("column", "error")
  <2>1. always'[w].columns = {} /\ Lasting(w)' = {}
    BY <1>3, <1>4, <1>5, NothingWithoutTable
  <2> QED
    BY <2>1 DEF LoopOK
<1>6. CASE ~Select("column", "error")
  <2>1. /\ columns'[w] = StoredColumns /\ todo'[w] = DOMAIN column
        /\ pc'[w] = IF DOMAIN column = {} THEN "reply" ELSE "getItems"
    BY <1>1, <1>6 DEF getColumns, Goto
  <2>2. \A c \in StoredColumns : c.id \in DOMAIN column
    BY DEF StoredColumns, ColumnJson, jsonColumn
  <2>3. \A x \in Lasting(w)' : x.column \in DOMAIN column
    BY <1>3, <2>2 DEF Lasting
  <2> QED
    BY <1>3, <2>1, <2>3 DEF LoopOK
<1> QED
  BY <1>5, <1>6

\* Each further select sees every item of its column.
LEMMA FurtherSelect ==
  ASSUME FileOK, ProcessOK, NEW w \in Workers, Work(w), getItems(w), LoopOK(w)
  PROVE  LoopOK(w)'
<1> SUFFICES ASSUME call[w].op \in {"getBoard", "getColumns"}, ~Faults PROVE LoopOK(w)'
  <2>1. call' = call
    BY DEF getItems
  <2> QED
    BY <2>1 DEF LoopOK
<1>1. /\ w \in DOMAIN pc /\ w \in DOMAIN items /\ w \in DOMAIN todo /\ pc[w] = "getItems"
  BY DEF ProcessOK, getItems
<1>2. StoredItems' = StoredItems
  BY DEF getItems, Select, dbVars, StoredItems, ItemJson
<1>3. /\ always'[w].columns \subseteq always[w].columns
      /\ Lasting(w)' \subseteq Lasting(w) /\ Lasting(w)' \subseteq StoredItems
  BY <1>1, <1>2, LastingShrinks
<1>4. columns' = columns
  BY DEF getItems
<1>5. PICK c \in todo[w] :
        /\ \E found \in SUBSET ItemsUnder(c) :
             /\ \/ Select("item", "ok") /\ found = ItemsUnder(c)
                \/ Select("item", "error")
             /\ items' = [items EXCEPT ![w] = @ \cup found]
        /\ todo' = [todo EXCEPT ![w] = Rest(w, c)]
        /\ pc' = [pc EXCEPT ![w] = IF Rest(w, c) = {} THEN "reply" ELSE "getItems"]
  BY DEF getItems, Goto
<1>6. items[w] \subseteq items'[w]
  BY <1>1, <1>5
<1>7. \A x \in Lasting(w)' : x.column = c => x \in items'[w]
  <2>1. CASE Select("item", "error")
    BY <1>3, <2>1, NothingWithoutTable
  <2>2. CASE ~Select("item", "error")
    <3>1. ItemsUnder(c) \subseteq items'[w]
      BY <1>1, <1>5, <2>2
    <3>2. \A x \in StoredItems : x.column = c => x \in ItemsUnder(c)
      BY ItemsUnderAreStored
    <3> QED
      BY <1>3, <3>1, <3>2
  <2> QED
    BY <2>1, <2>2
<1>8. \A x \in Lasting(w)' : x \in items'[w] \/ x.column \in todo[w] \ {c}
  BY <1>1, <1>3, <1>6, <1>7 DEF LoopOK
<1>9. todo'[w] = Rest(w, c) /\ pc'[w] = IF Rest(w, c) = {} THEN "reply" ELSE "getItems"
  BY <1>1, <1>5
<1> QED
  BY <1>1, <1>3, <1>4, <1>8, <1>9 DEF LoopOK, Rest

\* A step of a worker takes its own loop one step further.
LEMMA WorkAdvancesLoop ==
  ASSUME FileOK, ProcessOK, NEW w \in Workers, Work(w), LoopOK(w)
  PROVE  LoopOK(w)'
<1>1. /\ w \in DOMAIN pc /\ IsAt(pc[w], call[w].op) /\ RepositoryStep(w)
  BY DEF ProcessOK, Work
<1>2. call' = call
  BY <1>1, StepIsLocal
<1>3. CASE call[w].op \notin {"getBoard", "getColumns"}
  BY <1>2, <1>3 DEF LoopOK
<1>4. CASE call[w].op \in {"getBoard", "getColumns"}
  <2>1. pc[w] \in {"getColumns", "getItems", "reply", "idle"}
    BY <1>1, <1>4 DEF IsAt, PostOps
  <2>2. getColumns(w) \/ getItems(w)
    BY <1>1, <2>1
       DEF RepositoryStep, getColumn, selectItem, postColumn, putColumn, deleteColumn,
           putItem, deleteItem, ctime, strlen, truncate, measure, copy, insertItem,
           last_insert_rowid, timestamp, changesOfColumn, changesOfItem
  <2> QED
    BY <2>2, FirstSelect, FurtherSelect
<1> QED
  BY <1>3, <1>4

-----------------------------------------------------------------------------
\* No step of the service breaks the invariant.
LEMMA NextKeepsLoops == TypeOK /\ LoopInv /\ [Next]_vars => LoopInv'
<1> SUFFICES ASSUME TypeOK, LoopInv, [Next]_vars PROVE LoopInv'
  OBVIOUS
<1>1. /\ ProcessOK /\ FileOK
      /\ DOMAIN pc = Workers /\ DOMAIN call = Workers /\ DOMAIN todo = Workers
      /\ DOMAIN columns = Workers /\ DOMAIN items = Workers /\ DOMAIN always = Workers
  BY TypeOKParts, FileOKIsDatabaseInv DEF ProcessOK, Observed
<1> USE DEF LoopInv, LoopOK, Lasting
<1>2. CASE Start
  BY <1>2 DEF Start, repoVars, obsVars
<1>3. CASE Crash
  BY <1>3 DEF Crash, PerWorker
<1>4. ASSUME NEW w \in Workers, Work(w) PROVE LoopInv'
  <2>1. \A v \in Workers : LoopOK(v)'
    BY <1>1, <1>4, WorkKeepsOtherLoops, WorkAdvancesLoop
  <2> QED
    BY <2>1
<1>5. ASSUME NEW w \in Workers, Reply(w) PROVE LoopInv'
  <2>1. pc'[w] = "idle"
    BY <1>1, <1>5 DEF Reply, Cleared, Goto
  <2>2. \A v \in Workers \ {w} :
          /\ pc'[v] = pc[v] /\ call'[v] = call[v] /\ always'[v] = always[v]
          /\ columns'[v] = columns[v] /\ items'[v] = items[v] /\ todo'[v] = todo[v]
    BY <1>1, <1>5 DEF Reply, Cleared, Goto
  <2> QED
    BY <2>1, <2>2
<1>6. ASSUME NEW w \in Workers, NEW r \in Requests, Receive(w, r) PROVE LoopInv'
  <2>1. PICK c \in CallsOf(r) :
          pc' = [pc EXCEPT ![w] = EntryOf(c.op)] /\ call' = [call EXCEPT ![w] = c]
    BY <1>6 DEF Receive, Goto
  <2>2. c.op \in {"getBoard", "getColumns"} => EntryOf(c.op) = "getColumns"
    BY DEF EntryOf
  <2>3. LoopOK(w)'
    BY <1>1, <2>1, <2>2
  <2>4. \A v \in Workers \ {w} :
          /\ pc'[v] = pc[v] /\ call'[v] = call[v] /\ always'[v] = always[v]
          /\ columns'[v] = columns[v] /\ items'[v] = items[v] /\ todo'[v] = todo[v]
    BY <1>1, <1>6, <2>1 DEF Receive
  <2> QED
    BY <2>3, <2>4
<1>7. CASE UNCHANGED vars
  BY <1>7 DEF vars, repoVars, obsVars
<1> QED
  BY <1>2, <1>3, <1>4, <1>5, <1>6, <1>7 DEF Next

\* With no faults, GET of the board or the columns leaves out no column, and
\* no item of one, that was stored unchanged during the whole request
\* (BoardRepository.cpp:79-100), whatever the other threads write meanwhile.
THEOREM BoardsMissNothing == Spec => []ReadsMissNothing
<1>1. Init => LoopInv
  BY DEF Init, PerWorker, LoopInv, LoopOK
<1> QED
  BY <1>1, LoopInvIsEnough, InitTypes, NextTypes, NextKeepsLoops, PTL DEF Spec

-----------------------------------------------------------------------------
(***************************************************************************)
(* What EveryRequestEnds needs besides fairness: a request never goes back *)
(* and its loop over columns is finite and always has a next column.       *)
(***************************************************************************)

\* A loop has a column to go on with, the first by position of those that are
\* left, and not for ever.
LoopHasNext ==
  \A w \in Workers :
    /\ IsFiniteSet(todo[w])
    /\ pc[w] = "getItems" => \E c \in todo[w] : IsNext(w, c)

\* The inductive invariant of LoopHasNext: the columns come from one select.
OnceOK(w) ==
  /\ IsFiniteSet(todo[w])
  /\ pc[w] = "getItems" => todo[w] # {}
  /\ \A x, y \in columns[w] : x.id = y.id => x = y
OnceInv == \A w \in Workers : OnceOK(w)

\* Columns C, each there once, and the id c that is first by position of those
\* of S.
Unambiguous(C) ==
  (\A x \in C : x.position \in Int) /\ (\A x, y \in C : x.id = y.id => x = y)
IsFirst(c, S, C) ==
  \A x, y \in C : x.id = c /\ y.id \in S => x.position <= y.position

\* Of finitely many ids, one is first.
LEMMA FirstExists ==
  ASSUME NEW S, IsFiniteSet(S), S # {}, NEW C, Unambiguous(C)
  PROVE  \E c \in S : IsFirst(c, S, C)
<1> USE DEF Unambiguous
<1> DEFINE Earlier(c) == {d \in S : \E x, y \in C : x.id = d /\ y.id = c /\ x.position < y.position}
           T == {Earlier(c) : c \in S}
<1>1. T \subseteq FiniteSubsetsOf(S) /\ T # {}
  <2>1. \A c \in S : Earlier(c) \in SUBSET S
    OBVIOUS
  <2>2. \A A \in SUBSET S : IsFiniteSet(A)
    BY FS_Subset
  <2> HIDE DEF Earlier
  <2> QED
    BY <2>1, <2>2 DEF FiniteSubsetsOf
<1>2. PICK A \in T : \A B \in T : <<B, A>> \notin StrictSubsetOrdering(S)
  BY <1>1, FS_StrictSubsetOrderingWellFounded, WFMin
<1>3. PICK c \in S : A = Earlier(c)
  BY <1>2
<1>4. ASSUME NEW x \in C, NEW y \in C, x.id = c, y.id \in S, ~(x.position <= y.position)
      PROVE  FALSE
  <2>1. y.position < x.position
    BY <1>4
  <2>2. y.id \in Earlier(c) /\ y.id \notin Earlier(y.id)
    BY <1>4, <2>1
  <2>3. Earlier(y.id) \subseteq Earlier(c)
    BY <1>4, <2>1
  <2>4. Earlier(y.id) \in T /\ <<Earlier(y.id), A>> \in StrictSubsetOrdering(S)
    BY <1>3, <1>4, <2>2, <2>3 DEF StrictSubsetOrdering
  <2> QED
    BY <1>2, <2>4
<1> QED
  BY <1>4 DEF IsFirst

\* So the invariant says what the property asks.
LEMMA OnceIsEnough == TypeOK /\ OnceInv => LoopHasNext
<1> SUFFICES ASSUME TypeOK, NEW w \in Workers, OnceOK(w), pc[w] = "getItems"
             PROVE  \E c \in todo[w] : IsNext(w, c)
  BY DEF LoopHasNext, OnceOK, OnceInv
<1>1. \A x \in columns[w] : x.position \in Int
  BY DEF TypeOK, ColumnJsons
<1>2. IsFiniteSet(todo[w]) /\ todo[w] # {} /\ Unambiguous(columns[w])
  BY <1>1 DEF OnceOK, Unambiguous
<1>3. \E c \in todo[w] : IsFirst(c, todo[w], columns[w])
  BY <1>2, FirstExists
<1> QED
  BY <1>3 DEF IsNext, IsFirst

\* A select finds finitely many columns, each once.
LEMMA ColumnsAreFinite ==
  ASSUME FileOK
  PROVE  IsFiniteSet(DOMAIN column) /\ \A x, y \in StoredColumns : x.id = y.id => x = y
<1>1. DOMAIN column \subseteq 1 .. columnSeq
  BY DEF FileOK, IsTable
<1>2. IsFiniteSet(1 .. columnSeq)
  BY FS_Interval DEF FileOK
<1>3. IsFiniteSet(DOMAIN column)
  BY <1>1, <1>2, FS_Subset
<1>4. \A i : ColumnJson(i).id = i
  BY DEF ColumnJson, jsonColumn
<1> QED
  BY <1>3, <1>4 DEF StoredColumns

\* A step keeps its loop going.
LEMMA StepKeepsLoop ==
  ASSUME FileOK, ProcessOK, NEW w \in Workers, RepositoryStep(w), OnceOK(w)
  PROVE  OnceOK(w)'
<1>1. w \in DOMAIN pc /\ w \in DOMAIN todo /\ w \in DOMAIN columns
  BY DEF ProcessOK
<1>2. \A x : IsFiniteSet({x})
  BY FS_Singleton
<1> USE <1>1, <1>2 DEF Goto, resultVars
<1>3. CASE getColumns(w)
  <2>1. CASE /\ columns' = [columns EXCEPT ![w] = StoredColumns]
             /\ todo' = [todo EXCEPT ![w] = DOMAIN column]
             /\ pc' = [pc EXCEPT ![w] = IF DOMAIN column = {} THEN "reply" ELSE "getItems"]
    <3>1. /\ columns'[w] = StoredColumns /\ todo'[w] = DOMAIN column
          /\ pc'[w] = "getItems" => DOMAIN column # {}
      BY <2>1
    <3> QED
      BY <3>1, ColumnsAreFinite DEF OnceOK
  <2>2. CASE pc' = [pc EXCEPT ![w] = "reply"] /\ UNCHANGED <<columns, todo>>
    BY <2>2 DEF OnceOK
  <2> QED
    BY <1>3, <2>1, <2>2 DEF getColumns
<1>4. CASE getColumn(w)
  <2>1. ASSUME NEW id, columns' = [columns EXCEPT ![w] = {ColumnJson(id)}],
               todo' = [todo EXCEPT ![w] = {id}]
        PROVE  OnceOK(w)'
    <3>1. columns'[w] = {ColumnJson(id)} /\ todo'[w] = {id}
      BY <2>1
    <3> QED
      BY <3>1 DEF OnceOK
  <2>2. CASE pc' = [pc EXCEPT ![w] = "reply"] /\ UNCHANGED <<columns, todo>>
    BY <2>2 DEF OnceOK
  <2> QED
    BY <1>4, <2>1, <2>2 DEF getColumn
<1>5. CASE getItems(w)
  <2>1. PICK c \in todo[w] :
          /\ todo'[w] = todo[w] \ {c} /\ columns'[w] = columns[w]
          /\ pc'[w] = "getItems" => todo[w] \ {c} # {}
    BY <1>5 DEF getItems, Rest
  <2> QED
    BY <2>1, FS_Subset DEF OnceOK
<1>6. CASE last_insert_rowid(w)
  BY <1>6 DEF last_insert_rowid, OnceOK
<1>7. CASE changesOfColumn(w)
  BY <1>7 DEF changesOfColumn, OnceOK
<1>8. CASE selectItem(w) \/ postColumn(w) \/ putColumn(w) \/ deleteColumn(w) \/ putItem(w)
           \/ deleteItem(w) \/ ctime(w) \/ strlen(w) \/ truncate(w) \/ measure(w) \/ copy(w)
           \/ insertItem(w) \/ timestamp(w) \/ changesOfItem(w)
  <2>1. todo' = todo /\ columns' = columns /\ pc'[w] # "getItems"
    BY <1>8 DEF selectItem, postColumn, putColumn, deleteColumn, putItem, deleteItem, ctime,
       strlen, truncate, measure, copy, insertItem, timestamp, changesOfItem, AfterInsert
  <2> QED
    BY <2>1 DEF OnceOK
<1> QED
  BY <1>3, <1>4, <1>5, <1>6, <1>7, <1>8 DEF RepositoryStep

\* No step of the service breaks the invariant.
LEMMA NextKeepsLoopsGoing ==
  TypeOK /\ OnceInv /\ [Next]_vars => OnceInv'
<1> SUFFICES ASSUME TypeOK, OnceInv, [Next]_vars, NEW v \in Workers
             PROVE  OnceOK(v)'
  BY DEF OnceInv
<1> USE DEF OnceInv
<1>1. /\ FileOK /\ ProcessOK /\ DOMAIN pc = Workers /\ DOMAIN todo = Workers
      /\ DOMAIN columns = Workers
  BY TypeOKParts, FileOKIsDatabaseInv DEF ProcessOK
<1>2. IsFiniteSet({}) /\ \A x : IsFiniteSet({x})
  BY FS_EmptySet, FS_Singleton
<1>3. CASE Start \/ UNCHANGED vars
  BY <1>3 DEF Start, vars, repoVars, OnceOK
<1>4. CASE Crash
  BY <1>2, <1>4 DEF Crash, PerWorker, OnceOK
<1>5. ASSUME NEW w \in Workers, Work(w) PROVE OnceOK(v)'
  <2>1. CASE v = w
    BY <1>1, <1>5, <2>1, StepKeepsLoop DEF Work
  <2>2. CASE v # w
    BY <1>1, <1>5, <2>2, OthersStay DEF Work, OnceOK
  <2> QED
    BY <2>1, <2>2
<1>6. ASSUME NEW w \in Workers, Reply(w) PROVE OnceOK(v)'
  BY <1>1, <1>2, <1>6 DEF Reply, Cleared, Goto, OnceOK
<1>7. ASSUME NEW w \in Workers, NEW r \in Requests, Receive(w, r) PROVE OnceOK(v)'
  <2>1. PICK c \in CallsOf(r) :
          /\ pc' = [pc EXCEPT ![w] = EntryOf(c.op)]
          /\ todo' = [todo EXCEPT ![w] = IF c.op = "getItems" THEN {c.column} ELSE {}]
    BY <1>7 DEF Receive, Goto
  <2>2. EntryOf(c.op) = "getItems" => c.op = "getItems"
    BY DEF EntryOf
  <2>3. columns' = columns
    BY <1>7 DEF Receive
  <2> QED
    BY <1>1, <1>2, <2>1, <2>2, <2>3 DEF OnceOK
<1> QED
  BY <1>3, <1>4, <1>5, <1>6, <1>7 DEF Next

\* The loop of BoardRepository::getColumns has always a next column until it is
\* through, and comes through, for any number of columns and whatever other
\* threads store and delete meanwhile (BoardRepository.cpp:86-94).
THEOREM LoopsGoOn == Spec => []LoopHasNext
<1>1. Init => OnceInv
  BY FS_EmptySet DEF Init, PerWorker, OnceOK, OnceInv
<1> QED
  BY <1>1, OnceIsEnough, InitTypes, NextTypes, NextKeepsLoopsGoing, PTL DEF Spec

\* The course of the handlers, step by step.
LEMMA CourseOfSteps ==
  /\ Before("ctime", "strlen") /\ Before("strlen", "truncate") /\ Before("truncate", "measure")
  /\ Before("measure", "copy") /\ Before("copy", "insertItem")
  /\ Before("insertItem", "last_insert_rowid") /\ Before("postColumn", "last_insert_rowid")
  /\ Before("last_insert_rowid", "timestamp") /\ Before("putItem", "selectItem")
  /\ Before("selectItem", "changes") /\ Before("putColumn", "changes")
  /\ Before("changes", "getItems") /\ Before("getColumns", "getItems")
  /\ Before("getColumn", "getItems")
  /\ \A s \in Steps \ {"reply", "idle"} : Before(s, "reply")
  /\ \A s \in Steps \ {"idle"} : Before(s, "idle")
<1>1. \A i, j \in 1 .. 20 : i < j => Before(Course[i], Course[j])
  BY DEF Before
<1>2. /\ Course[1] = "ctime" /\ Course[2] = "strlen" /\ Course[3] = "truncate"
      /\ Course[4] = "measure" /\ Course[5] = "copy" /\ Course[6] = "postColumn"
      /\ Course[7] = "insertItem" /\ Course[8] = "last_insert_rowid"
      /\ Course[9] = "timestamp" /\ Course[10] = "putItem" /\ Course[11] = "selectItem"
      /\ Course[12] = "putColumn" /\ Course[13] = "changes" /\ Course[14] = "deleteColumn"
      /\ Course[15] = "deleteItem" /\ Course[16] = "getColumns"
      /\ Course[17] = "getColumn" /\ Course[18] = "getItems" /\ Course[19] = "reply"
      /\ Course[20] = "idle"
  BY DEF Course
<1>3. /\ Before("ctime", "strlen") /\ Before("strlen", "truncate") /\ Before("truncate", "measure")
      /\ Before("measure", "copy") /\ Before("copy", "insertItem")
      /\ Before("insertItem", "last_insert_rowid") /\ Before("postColumn", "last_insert_rowid")
      /\ Before("last_insert_rowid", "timestamp") /\ Before("putItem", "selectItem")
      /\ Before("selectItem", "changes") /\ Before("putColumn", "changes")
      /\ Before("changes", "getItems") /\ Before("getColumns", "getItems")
      /\ Before("getColumn", "getItems")
  BY <1>1, <1>2
<1>4. \A s \in Steps \ {"reply", "idle"} : \E i \in 1 .. 18 : Course[i] = s
  BY <1>2 DEF Steps
<1>5. \A s \in Steps \ {"reply", "idle"} : Before(s, "reply") /\ Before(s, "idle")
  BY <1>1, <1>2, <1>4
<1>6. Before("reply", "idle")
  BY <1>1, <1>2
<1> QED
  BY <1>3, <1>5, <1>6

\* A step of a thread brings its request nearer to its end.
LEMMA StepAdvances ==
  ASSUME ProcessOK, NEW w \in Workers, RepositoryStep(w)
  PROVE  \/ Before(pc[w], pc'[w])
         \/ pc'[w] = pc[w] /\ todo'[w] \subseteq todo[w] /\ todo'[w] # todo[w]
<1>1. w \in DOMAIN pc /\ w \in DOMAIN todo /\ pc[w] \in Steps
  BY DEF ProcessOK
<1> USE <1>1, CourseOfSteps DEF Goto
<1>2. CASE getColumns(w) \/ getColumn(w)
  BY <1>2 DEF getColumns, getColumn
<1>3. CASE getItems(w)
  <2>1. PICK c \in todo[w] : todo'[w] = todo[w] \ {c} /\ pc'[w] \in {"reply", "getItems"}
    BY <1>3 DEF getItems, Rest
  <2>2. pc[w] = "getItems"
    BY <1>3 DEF getItems
  <2> QED
    BY <2>1, <2>2
<1>4. CASE selectItem(w)
  BY <1>4 DEF selectItem
<1>5. CASE postColumn(w) \/ insertItem(w)
  BY <1>5 DEF postColumn, insertItem, AfterInsert
<1>6. CASE putColumn(w) \/ deleteColumn(w) \/ putItem(w) \/ deleteItem(w)
  BY <1>6 DEF putColumn, deleteColumn, putItem, deleteItem
<1>7. CASE ctime(w) \/ strlen(w) \/ truncate(w) \/ measure(w) \/ copy(w)
  BY <1>7 DEF ctime, strlen, truncate, measure, copy
<1>8. CASE last_insert_rowid(w) \/ timestamp(w)
  BY <1>8 DEF last_insert_rowid, timestamp
<1>9. CASE changesOfColumn(w) \/ changesOfItem(w)
  BY <1>9 DEF changesOfColumn, changesOfItem
<1> QED
  BY <1>2, <1>3, <1>4, <1>5, <1>6, <1>7, <1>8, <1>9 DEF RepositoryStep

\* Whoever moves, a request stays as it is or comes nearer to its end, for any
\* number of threads, requests and columns.  With LoopsGoOn this is why every
\* request ends that the system lets run.
THEOREM RequestsComeCloser == Spec => RequestsAdvance
<1>1. ASSUME TypeOK, [Next]_vars, NEW v \in Workers, pc[v] # "idle" PROVE ComesNearer(v)
  <2> USE DEF ComesNearer
  <2>1. /\ ProcessOK /\ DOMAIN pc = Workers /\ DOMAIN call = Workers /\ DOMAIN todo = Workers
        /\ DOMAIN columns = Workers /\ DOMAIN items = Workers /\ DOMAIN length = Workers
        /\ pc[v] \in Steps
    BY <1>1, TypeOKParts DEF ProcessOK
  <2>2. CASE Start \/ UNCHANGED vars
    <3>1. UNCHANGED repoVars
      BY <2>2 DEF Start, vars
    <3> QED
      BY <3>1 DEF repoVars
  <2>3. CASE Crash
    BY <1>1, <2>1, <2>3, CourseOfSteps DEF Crash, PerWorker
  <2>4. ASSUME NEW w \in Workers, Work(w) PROVE ComesNearer(v)
    <3>1. CASE v = w
      BY <2>1, <2>4, <3>1, StepAdvances DEF Work
    <3>2. CASE v # w
      <4>1. length' = [length EXCEPT ![w] = length'[w]]
        BY <2>1, <2>4, StepIsLocal DEF Work
      <4>2. length'[v] = length[v]
        BY <2>1, <3>2, <4>1
      <4> QED
        BY <2>1, <2>4, <3>2, <4>2, OthersStay DEF Work
    <3> QED
      BY <3>1, <3>2
  <2>5. ASSUME NEW w \in Workers, Reply(w) PROVE ComesNearer(v)
    <3>1. CASE v = w
      BY <2>1, <2>5, <3>1, CourseOfSteps DEF Reply, Goto
    <3>2. CASE v # w
      BY <2>1, <2>5, <3>2 DEF Reply, Goto, Cleared
    <3> QED
      BY <3>1, <3>2
  <2>6. ASSUME NEW w \in Workers, NEW r \in Requests, Receive(w, r) PROVE ComesNearer(v)
    <3>1. CASE v = w
      BY <1>1, <2>6, <3>1 DEF Receive
    <3>2. CASE v # w
      BY <2>1, <2>6, <3>2 DEF Receive, Goto
    <3> QED
      BY <3>1, <3>2
  <2> QED
    BY <1>1, <2>2, <2>3, <2>4, <2>5, <2>6 DEF Next
<1>2. TypeOK /\ [Next]_vars => [NoneGoesBack]_vars
  BY <1>1 DEF NoneGoesBack
<1> QED
  BY <1>2, InitTypes, NextTypes, PTL DEF Spec, RequestsAdvance
=============================================================================
