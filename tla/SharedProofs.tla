---------------------------- MODULE SharedProofs ----------------------------
(***************************************************************************)
(* The service implements SharedApi, with any number of threads, faults    *)
(* and crashes.  What a call has collected lies, at each of its steps,     *)
(* between what lasted and what was ever there; the id that the connection *)
(* remembers after an insert is of a row that was seen.                    *)
(***************************************************************************)
EXTENDS ServiceApi, BoardService_proofs

\* The observer of a request has seen what is stored.
SeenOK(w) ==
  pc[w] # "idle" => Shared!Within(Stored, ever[w]) /\ Shared!Within(always[w], Stored)

\* The steps at which a call has collected nothing yet.
NothingYet ==
  {"idle", "getColumns", "getColumn", "postColumn", "putColumn", "deleteColumn", "putItem",
   "deleteItem", "ctime", "strlen", "truncate", "measure", "copy", "insertItem",
   "selectItem", "last_insert_rowid"}

Collected(w) == [columns |-> columns[w], items |-> items[w]]

\* A read within its loop has a board a of what was there, of which it lacks
\* the items of the columns that it has still to read, and nothing else.
IsLoop(w, c, left, a) ==
  /\ \A i \in left : \E k \in a.columns : k.id = i
  /\ \A x \in a.items : x.column \notin left
  /\ a = Shared!Wanted(c, a) /\ Shared!IsBoard(a)
  /\ Shared!Within(a, ever[w])
  /\ ~Faults =>
       LET lasting == Shared!Wanted(c, always[w]) IN
       /\ lasting.columns \subseteq a.columns
       /\ \A x \in lasting.items : x \in a.items \/ x.column \in left

LoopOK(w) == IsLoop(w, call[w], todo[w], Collected(w))

\* What a call has collected at each step, whatever the others do.
ServingOK(w) ==
  LET c == call[w] IN
  /\ pc[w] \in NothingYet \/ (pc[w] = "changes" /\ c.op = "putColumn") => IsEmpty(w)
  /\ pc[w] = "last_insert_rowid" => lastRowid \in Shared!NewIds(w)
  /\ pc[w] = "timestamp" =>
       /\ columns[w] = {}
       /\ \E id \in Shared!NewIds(w) :
            items[w] = {jsonItem(c.column, id, c.text, c.position, 0)}
  /\ pc[w] = "changes" /\ c.op = "putItem" =>
       /\ columns[w] = {}
       /\ \E x \in ever[w].items : x.column = c.column /\ x.id = c.item /\ items[w] = {x}
  /\ pc[w] = "getItems" /\ c.op \in {"getItems", "putColumn"} =>
       /\ todo[w] = {c.column} /\ items[w] = {}
       /\ columns[w] = IF c.op = "getItems" THEN {}
                       ELSE {jsonColumn(c.column, c.text, c.position)}
  /\ pc[w] = "getItems" /\ c.op \notin {"getItems", "putColumn"} => LoopOK(w)

\* The inductive invariant of ServesConcurrently.
SharedInv ==
  /\ up /\ ~Faults => tables = TableNames
  /\ ~up => \A w \in Workers : pc[w] = "idle"
  /\ \A w \in Workers : SeenOK(w) /\ ServingOK(w)

-----------------------------------------------------------------------------
\* SharedApi turns requests into calls as BoardManager does.
LEMMA SameCalls ==
  ASSUME NEW r
  PROVE  Shared!CallsOf(r) = CallsOf(r)
BY DEF Shared!CallsOf, CallsOf, Shared!CallsFor, CallsFor, Shared!ParsedBodies, ParsedBodies,
       Shared!HandlersOf, HandlersOf, Shared!registerRoutes, registerRoutes, Shared!NoCall, NoCall,
       Shared!Narrow, Narrow, Shared!ColumnWrites, ColumnWrites, Shared!ItemWrites, ItemWrites,
       Shared!OutcomesOf, OutcomesOf, Shared!Undefined, Undefined,
       Shared!convertColumnToModel, convertColumnToModel, Shared!convertItemToModel,
       convertItemToModel, Shared!isValidColumn, isValidColumn, Shared!isValidItem, isValidItem

\* Its boards are those of the service,
LEMMA SameBoards ==
  /\ Shared!Stored = Stored /\ Shared!Stored' = Stored'
  /\ \A S, T : Shared!Union(S, T) = Union(S, T) /\ Shared!Common(S, T) = Common(S, T)
  /\ \A S : Shared!Only(S) = [columns |-> {}, items |-> S]
  /\ Shared!Nothing = Nothing
<1>1. \A i : Shared!ColumnJson(i) = ColumnJson(i) /\ Shared!ColumnJson(i)' = ColumnJson(i)'
  BY DEF Shared!ColumnJson, ColumnJson, Shared!jsonColumn, jsonColumn
<1>2. \A c, i : Shared!ItemJson(c, i) = ItemJson(c, i) /\ Shared!ItemJson(c, i)' = ItemJson(c, i)'
  BY DEF Shared!ItemJson, ItemJson, Shared!jsonItem, jsonItem
<1>3. Shared!StoredColumns = StoredColumns /\ Shared!StoredItems = StoredItems
  BY <1>1, <1>2 DEF Shared!StoredColumns, StoredColumns, Shared!StoredItems, StoredItems
<1>4. Shared!StoredColumns' = StoredColumns' /\ Shared!StoredItems' = StoredItems'
  BY <1>1, <1>2 DEF Shared!StoredColumns, StoredColumns, Shared!StoredItems, StoredItems
<1> QED
  BY <1>3, <1>4 DEF Shared!Stored, Stored, Shared!Union, Union, Shared!Common, Common,
     Shared!Only, Shared!Nothing, Nothing

\* and its statements are.
LEMMA SameStatements ==
  /\ \A j, p : Shared!ColumnClash(j, p) <=> ColumnClash(j, p)
  /\ \A j, d, p : Shared!ItemClash(j, d, p) <=> ItemClash(j, d, p)
  /\ \A j, d : Shared!IsItemOf(j, d) <=> IsItemOf(j, d)
  /\ \A t, p : Shared!InsertColumn(t, p) <=> InsertColumn(t, p)
  /\ \A j, t, p : Shared!UpdateColumn(j, t, p) <=> UpdateColumn(j, t, p)
  /\ \A j : Shared!DeleteColumn(j) <=> DeleteColumn(j)
  /\ \A t, x, p, d : Shared!InsertItem(t, x, p, d) <=> InsertItem(t, x, p, d)
  /\ \A j, d, t, p : Shared!UpdateItem(j, d, t, p) <=> UpdateItem(j, d, t, p)
  /\ \A j, d : Shared!DeleteItem(j, d) <=> DeleteItem(j, d)
<1>1. /\ \A j, p : Shared!ColumnClash(j, p) <=> ColumnClash(j, p)
      /\ \A j, d, p : Shared!ItemClash(j, d, p) <=> ItemClash(j, d, p)
      /\ \A j, d : Shared!IsItemOf(j, d) <=> IsItemOf(j, d)
  BY DEF Shared!ColumnClash, ColumnClash, Shared!ItemClash, ItemClash, Shared!IsItemOf, IsItemOf,
         Shared!ItemsOf, ItemsOf
<1>2. /\ \A g, j, row : Shared!Put(g, j, row) = Put(g, j, row)
      /\ \A g, S : Shared!Restrict(g, S) = Restrict(g, S)
      /\ Shared!NextItemId = NextItemId
  BY DEF Shared!Put, Put, Shared!Restrict, Restrict, Shared!NextItemId, NextItemId
<1>3. \A t, p : Shared!InsertColumn(t, p) <=> InsertColumn(t, p)
  BY <1>1, <1>2 DEF Shared!InsertColumn, InsertColumn
<1>4. \A j, t, p : Shared!UpdateColumn(j, t, p) <=> UpdateColumn(j, t, p)
  BY <1>1, <1>2 DEF Shared!UpdateColumn, UpdateColumn
<1>5. \A j : Shared!DeleteColumn(j) <=> DeleteColumn(j)
  BY <1>2 DEF Shared!DeleteColumn, DeleteColumn
<1>6. \A t, x, p, d : Shared!InsertItem(t, x, p, d) <=> InsertItem(t, x, p, d)
  BY <1>1, <1>2 DEF Shared!InsertItem, InsertItem
<1>7. \A j, d, t, p : Shared!UpdateItem(j, d, t, p) <=> UpdateItem(j, d, t, p)
  BY <1>1, <1>2 DEF Shared!UpdateItem, UpdateItem
<1>8. \A j, d : Shared!DeleteItem(j, d) <=> DeleteItem(j, d)
  BY <1>1, <1>2 DEF Shared!DeleteItem, DeleteItem
<1> QED
  BY <1>1, <1>3, <1>4, <1>5, <1>6, <1>7, <1>8

-----------------------------------------------------------------------------
\* A step of a worker shows every request what is stored then.
LEMMA WorkWatches ==
  ASSUME NEW w \in Workers, Work(w)
  PROVE  Shared!Watch
<1>1. \A v \in Workers : SharedStage(v) = "idle" <=> pc[v] = "idle"
  BY DEF SharedStage
<1> QED
  BY <1>1, SameBoards DEF Shared!Watch, Work, Observe

\* What a request sees more as the file changes, it keeps.
LEMMA WorkSees ==
  ASSUME Observed, NEW w \in Workers, Work(w), NEW v \in Workers, pc[v] # "idle"
  PROVE  /\ ever[v].columns \subseteq ever'[v].columns /\ StoredColumns' \subseteq ever'[v].columns
         /\ ever[v].items \subseteq ever'[v].items /\ StoredItems' \subseteq ever'[v].items
         /\ always'[v].columns \subseteq always[v].columns
         /\ always'[v].columns \subseteq StoredColumns'
         /\ always'[v].items \subseteq always[v].items
         /\ always'[v].items \subseteq StoredItems'
BY DEF Work, Observe, Union, Common, Stored

\* It sees no more while the file stays as it is.
LEMMA NothingToSee ==
  ASSUME Observed, \A v \in Workers : SeenOK(v), NEW w \in Workers, Work(w), UNCHANGED dbVars
  PROVE  ever' = ever /\ always' = always
<1>1. Stored' = Stored
  BY DEF dbVars, Stored, StoredColumns, StoredItems, ColumnJson, ItemJson
<1>2. ever = [v \in Workers |-> ever[v]] /\ always = [v \in Workers |-> always[v]]
  BY DEF Observed
<1>3. ASSUME NEW v \in Workers, pc[v] # "idle"
      PROVE  Union(ever[v], Stored) = ever[v] /\ Common(always[v], Stored) = always[v]
  <2>1. ever[v] \in Boards /\ always[v] \in Boards
    BY DEF Observed
  <2>2. /\ ever[v] = [columns |-> ever[v].columns, items |-> ever[v].items]
        /\ always[v] = [columns |-> always[v].columns, items |-> always[v].items]
    BY <2>1 DEF Boards
  <2>3. /\ Stored.columns \subseteq ever[v].columns /\ Stored.items \subseteq ever[v].items
        /\ always[v].columns \subseteq Stored.columns /\ always[v].items \subseteq Stored.items
    BY <1>3 DEF SeenOK, Shared!Within
  <2>4. /\ ever[v].columns \cup Stored.columns = ever[v].columns
        /\ ever[v].items \cup Stored.items = ever[v].items
        /\ always[v].columns \cap Stored.columns = always[v].columns
        /\ always[v].items \cap Stored.items = always[v].items
    BY <2>3
  <2> QED
    BY <2>2, <2>4 DEF Union, Common
<1> QED
  BY <1>1, <1>2, <1>3 DEF Work, Observe

\* A step of a worker moves that worker alone.
LEMMA WorkMoves ==
  ASSUME ProcessOK, NEW w \in Workers, Work(w)
  PROVE  /\ [v \in Workers |-> SharedStage(v)]' =
              [[v \in Workers |-> SharedStage(v)] EXCEPT ![w] = SharedStage(w)']
         /\ [v \in Workers |-> SharedAnswer(v)]' =
              [[v \in Workers |-> SharedAnswer(v)] EXCEPT ![w] = SharedAnswer(w)']
<1>1. \A v \in Workers \ {w} : /\ call'[v] = call[v] /\ pc'[v] = pc[v]
                               /\ columns'[v] = columns[v] /\ items'[v] = items[v]
  BY OthersStay DEF Work
<1>2. \A v \in Workers \ {w} :
        SharedStage(v)' = SharedStage(v) /\ SharedAnswer(v)' = SharedAnswer(v)
  BY <1>1 DEF SharedStage, SharedAnswer, Done
<1> QED
  BY <1>2

\* The steps of SharedApi, one by one: a step that nobody can tell,
LEMMA Hides ==
  ASSUME ProcessOK, Observed, \A v \in Workers : SeenOK(v), NEW w \in Workers, Work(w),
         UNCHANGED dbVars, SharedStage(w)' = SharedStage(w), SharedAnswer(w)' = SharedAnswer(w)
  PROVE  UNCHANGED Shared!sharedVars
<1>1. /\ [v \in Workers |-> SharedStage(v)]' = [v \in Workers |-> SharedStage(v)]
      /\ [v \in Workers |-> SharedAnswer(v)]' = [v \in Workers |-> SharedAnswer(v)]
  BY WorkMoves
<1>2. call' = call
  BY StepIsLocal DEF Work
<1> QED
  BY <1>1, <1>2, NothingToSee DEF Shared!sharedVars, Shared!apiVars, Shared!dbVars, dbVars

\* one that answers a request which writes nothing,
LEMMA Serves ==
  ASSUME ProcessOK, NEW w \in Workers, Work(w),
         SharedStage(w) = "asked", SharedStage(w)' = "done",
         NEW a, a = SharedAnswer(w)', NEW c, c = call[w],
         \/ c.op \in Shared!ReadOps /\ Shared!Regular(w, c, a) /\ UNCHANGED dbVars
         \/ Shared!Deletes(c, a)
         \/ c.op \notin Shared!ReadOps /\ Shared!MayFail(c) /\ a = Nothing /\ UNCHANGED dbVars
  PROVE  Shared!Serve(w)
<1>1. /\ [v \in Workers |-> SharedStage(v)]' =
           [[v \in Workers |-> SharedStage(v)] EXCEPT ![w] = "done"]
      /\ [v \in Workers |-> SharedAnswer(v)]' =
           [[v \in Workers |-> SharedAnswer(v)] EXCEPT ![w] = a]
      /\ [v \in Workers |-> SharedAnswer(v)]'[w] = a
  BY WorkMoves
<1>2. call' = call
  BY StepIsLocal DEF Work
<1>3. Shared!Nothing = Nothing /\ (UNCHANGED Shared!dbVars <=> UNCHANGED dbVars)
  BY SameBoards DEF Shared!dbVars, dbVars
<1> QED
  BY <1>1, <1>2, <1>3, WorkWatches DEF Shared!Serve, Shared!Advance

\* one that runs the statement of a write,
LEMMA Writes ==
  ASSUME ProcessOK, NEW w \in Workers, Work(w),
         SharedStage(w) = "asked", SharedStage(w)' = "written",
         NEW c, c = call[w],
         \/ Shared!Statement(c)
         \/ c.op \notin PostOps /\ Shared!MayFail(c) /\ UNCHANGED dbVars
  PROVE  Shared!Write(w)
<1>1. SharedAnswer(w)' = SharedAnswer(w)
  BY DEF SharedStage, SharedAnswer
<1>2. /\ [v \in Workers |-> SharedStage(v)]' =
           [[v \in Workers |-> SharedStage(v)] EXCEPT ![w] = "written"]
      /\ [v \in Workers |-> SharedAnswer(v)]' = [v \in Workers |-> SharedAnswer(v)]
  BY <1>1, WorkMoves
<1>3. call' = call
  BY StepIsLocal DEF Work
<1>4. Shared!PostOps = PostOps /\ (UNCHANGED Shared!dbVars <=> UNCHANGED dbVars)
  BY DEF Shared!PostOps, PostOps, Shared!dbVars, dbVars
<1> QED
  BY <1>2, <1>3, <1>4, WorkWatches DEF Shared!Write, Shared!Advance

\* and one that settles its answer.
LEMMA Acknowledges ==
  ASSUME ProcessOK, NEW w \in Workers, Work(w), UNCHANGED dbVars,
         SharedStage(w) = "written", SharedStage(w)' = "done",
         NEW a, a = SharedAnswer(w)', NEW c, c = call[w],
         Shared!Acknowledges(w, c, a)
  PROVE  Shared!Acknowledge(w)
<1>1. /\ [v \in Workers |-> SharedStage(v)]' =
           [[v \in Workers |-> SharedStage(v)] EXCEPT ![w] = "done"]
      /\ [v \in Workers |-> SharedAnswer(v)]' =
           [[v \in Workers |-> SharedAnswer(v)] EXCEPT ![w] = a]
      /\ [v \in Workers |-> SharedAnswer(v)]'[w] = a
  BY WorkMoves
<1>2. call' = call
  BY StepIsLocal DEF Work
<1> QED
  BY <1>1, <1>2, WorkWatches
     DEF Shared!Acknowledge, Shared!Advance, Shared!dbVars, dbVars

-----------------------------------------------------------------------------
\* What a read wants grows with the board.
LEMMA WantedGrows ==
  ASSUME NEW c, NEW S, NEW T, Shared!Within(S, T)
  PROVE  Shared!Within(Shared!Wanted(c, S), Shared!Wanted(c, T))
BY SameBoards DEF Shared!Within, Shared!Wanted

\* An id that was new to a request stays so.
LEMMA NewIdsGrow ==
  ASSUME FileOK, Observed, [DatabaseNext]_dbVars,
         NEW w \in Workers, Work(w), NEW v \in Workers, pc[v] # "idle"
  PROVE  Shared!NewIds(v) \subseteq Shared!NewIds(v)'
<1>1. /\ ever[v].columns \subseteq ever'[v].columns /\ ever[v].items \subseteq ever'[v].items
  BY WorkSees
<1>2. /\ columnSeq \in Int /\ columnSeq' \in Int /\ columnSeq <= columnSeq'
      /\ itemSeq \in Int /\ itemSeq' \in Int /\ itemSeq <= itemSeq'
  BY StepKeepsIds, NextOK DEF FileOK, NoIdAgain
<1>3. /\ \A id \in 1 .. (columnSeq + 1) : id \in 1 .. (columnSeq' + 1)
      /\ \A id \in 1 .. (itemSeq + 1) : id \in 1 .. (itemSeq' + 1)
  <2>1. ASSUME NEW m \in Int, NEW n \in Int, m <= n, NEW id \in 1 .. (m + 1)
        PROVE  id \in 1 .. (n + 1)
    BY <2>1
  <2> QED
    BY <1>2, <2>1
<1>4. ASSUME NEW x \in ever[v].columns \cup ever[v].items PROVE x.id \in Shared!NewIds(v)'
  BY <1>1, <1>4 DEF Shared!NewIds
<1>5. ASSUME Faults, NEW id \in 1 .. columnSeq + 1 \cup 1 .. itemSeq + 1
      PROVE  id \in Shared!NewIds(v)'
  BY <1>3, <1>5 DEF Shared!NewIds
<1> QED
  BY <1>4, <1>5 DEF Shared!NewIds

\* The id of a row that was inserted is new to every request.
LEMMA InsertGivesId ==
  ASSUME Observed, NEW w \in Workers, Work(w), NEW v \in Workers, pc[v] # "idle",
         \/ \E name, p : InsertColumn(name, p) /\ lastRowid' = columnSeq + 1
         \/ \E title, date, p, c : InsertItem(title, date, p, c) /\ lastRowid' = itemSeq + 1
  PROVE  lastRowid' \in Shared!NewIds(v)'
<1>1. StoredColumns' \subseteq ever'[v].columns /\ StoredItems' \subseteq ever'[v].items
  BY WorkSees
<1>2. \E x \in StoredColumns' \cup StoredItems' : x.id = lastRowid'
  <2>1. ASSUME NEW name, NEW p, InsertColumn(name, p), lastRowid' = columnSeq + 1
        PROVE  \E x \in StoredColumns' : x.id = lastRowid'
    <3>1. columnSeq + 1 \in DOMAIN column'
      BY <2>1 DEF InsertColumn, Put
    <3> DEFINE y == jsonColumn(columnSeq + 1, column'[columnSeq + 1].name,
                               column'[columnSeq + 1].position)
    <3>2. y \in StoredColumns' /\ y.id = columnSeq + 1
      BY <3>1 DEF StoredColumns, ColumnJson, jsonColumn
    <3> QED
      BY <2>1, <3>2
  <2>2. ASSUME NEW title, NEW date, NEW p, NEW c,
               InsertItem(title, date, p, c), lastRowid' = itemSeq + 1
        PROVE  \E x \in StoredItems' : x.id = lastRowid'
    <3>1. itemSeq + 1 \in DOMAIN item'
      BY <2>2 DEF InsertItem, NextItemId, Put
    <3> DEFINE r == item'[itemSeq + 1]
               y == jsonItem(r.column_id, itemSeq + 1, r.title, r.position, r.date)
    <3>2. y \in StoredItems' /\ y.id = itemSeq + 1
      BY <3>1 DEF StoredItems, ItemJson, jsonItem
    <3> QED
      BY <2>2, <3>2
  <2> QED
    BY <2>1, <2>2
<1> QED
  BY <1>1, <1>2 DEF Shared!NewIds

\* Whatever a worker does, the connection remembers an id that is new to
\* every request to which it was.
LEMMA RowidStaysNew ==
  ASSUME FileOK, Observed, [DatabaseNext]_dbVars,
         NEW w \in Workers, Work(w), NEW v \in Workers, pc[v] # "idle",
         lastRowid \in Shared!NewIds(v)
  PROVE  lastRowid' \in Shared!NewIds(v)'
<1> USE DEF NotPrepared, Aborted, MatchedNothing, connVars
<1>1. RepositoryStep(w)
  BY DEF Work
<1>2. CASE lastRowid' = lastRowid
  BY <1>2, NewIdsGrow
<1>3. CASE Faults /\ UNCHANGED dbVars /\ lastRowid' \in {columnSeq + 1, itemSeq + 1}
  <2>1. columnSeq' = columnSeq /\ itemSeq' = itemSeq /\ columnSeq \in Nat /\ itemSeq \in Nat
    BY <1>3 DEF FileOK, dbVars
  <2>2. lastRowid' \in 1 .. columnSeq' + 1 \cup 1 .. itemSeq' + 1
    BY <1>3, <2>1
  <2> QED
    BY <1>3, <2>2 DEF Shared!NewIds
<1>4. CASE postColumn(w)
  <2>1. \/ \E name, p : InsertColumn(name, p) /\ lastRowid' = columnSeq + 1
        \/ lastRowid' = lastRowid
        \/ Faults /\ UNCHANGED dbVars /\ lastRowid' \in {columnSeq + 1, itemSeq + 1}
    BY <1>4 DEF postColumn, ExecInsertColumn, NotCommitted
  <2> QED
    BY <1>2, <1>3, <2>1, InsertGivesId
<1>5. CASE insertItem(w)
  <2>1. \/ \E title, date, p, c : InsertItem(title, date, p, c) /\ lastRowid' = itemSeq + 1
        \/ lastRowid' = lastRowid
        \/ Faults /\ UNCHANGED dbVars /\ lastRowid' \in {columnSeq + 1, itemSeq + 1}
    BY <1>5 DEF insertItem, ExecInsertItem, NotCommitted
  <2> QED
    BY <1>2, <1>3, <2>1, InsertGivesId
<1>6. CASE ~postColumn(w) /\ ~insertItem(w)
  <2>1. CASE getColumns(w) \/ getColumn(w) \/ getItems(w) \/ selectItem(w)
    BY <1>2, <2>1 DEF getColumns, getColumn, getItems, selectItem, Select
  <2>2. CASE putColumn(w) \/ deleteColumn(w) \/ putItem(w) \/ deleteItem(w)
    BY <1>2, <2>2 DEF putColumn, ExecUpdateColumn, deleteColumn, ExecDeleteColumn, ExecDelete,
       putItem, ExecUpdateItem, deleteItem, ExecDeleteItem
  <2>3. CASE ctime(w) \/ strlen(w) \/ truncate(w) \/ measure(w) \/ copy(w)
    BY <1>2, <2>3 DEF ctime, strlen, truncate, measure, copy
  <2>4. CASE last_insert_rowid(w) \/ timestamp(w) \/ changesOfColumn(w) \/ changesOfItem(w)
    BY <1>2, <2>4 DEF last_insert_rowid, timestamp, changesOfColumn, changesOfItem
  <2> QED
    BY <1>1, <1>6, <2>1, <2>2, <2>3, <2>4 DEF RepositoryStep
<1> QED
  BY <1>4, <1>5, <1>6

\* A loop stays one when more was ever there and less lasts.
LEMMA LoopKeeps ==
  ASSUME NEW w \in Workers, NEW c, NEW left, NEW a, IsLoop(w, c, left, a),
         c = call'[w], left = todo'[w], a = Collected(w)',
         ever[w].columns \subseteq ever'[w].columns, ever[w].items \subseteq ever'[w].items,
         always'[w].columns \subseteq always[w].columns,
         always'[w].items \subseteq always[w].items
  PROVE  LoopOK(w)'
<1>1. PICK S : S = always'[w]
  OBVIOUS
<1>2. Shared!Within(Shared!Wanted(c, S), Shared!Wanted(c, always[w]))
  <2>1. Shared!Within(S, always[w])
    BY <1>1 DEF Shared!Within
  <2> QED
    BY <2>1, WantedGrows
<1>3. ~Faults =>
        /\ Shared!Wanted(c, S).columns \subseteq a.columns
        /\ \A x \in Shared!Wanted(c, S).items : x \in a.items \/ x.column \in left
  BY <1>2 DEF IsLoop, Shared!Within
<1>4. PICK T : T = ever'[w]
  OBVIOUS
<1>5. Shared!Within(a, T)
  BY <1>4 DEF IsLoop, Shared!Within
<1>6. /\ \A i \in left : \E k \in a.columns : k.id = i
      /\ \A x \in a.items : x.column \notin left
      /\ a = Shared!Wanted(c, a) /\ Shared!IsBoard(a)
  BY DEF IsLoop
<1>7. IsLoop(w, c, left, a)'
  BY <1>1, <1>3, <1>4, <1>5, <1>6 DEF IsLoop
<1> QED
  BY <1>7 DEF LoopOK

\* So the loop of another worker stays one,
LEMMA OtherLoopStays ==
  ASSUME ProcessOK, Observed, NEW w \in Workers, Work(w), NEW v \in Workers \ {w},
         pc[v] = "getItems", LoopOK(v)
  PROVE  LoopOK(v)'
<1>1. /\ call'[v] = call[v] /\ todo'[v] = todo[v]
      /\ columns'[v] = columns[v] /\ items'[v] = items[v]
  BY OthersStay DEF Work
<1>2. Collected(v)' = Collected(v)
  BY <1>1 DEF Collected
<1>3. /\ ever[v].columns \subseteq ever'[v].columns /\ ever[v].items \subseteq ever'[v].items
      /\ always'[v].columns \subseteq always[v].columns
      /\ always'[v].items \subseteq always[v].items
  BY WorkSees
<1> QED
  BY <1>1, <1>2, <1>3, LoopKeeps DEF LoopOK

\* A step of worker w leaves the call of another where it was.
LEMMA OthersAreServed ==
  ASSUME FileOK, ProcessOK, Observed, [DatabaseNext]_dbVars,
         NEW w \in Workers, Work(w), NEW v \in Workers \ {w}, ServingOK(v)
  PROVE  ServingOK(v)'
<1>1. /\ call'[v] = call[v] /\ pc'[v] = pc[v] /\ todo'[v] = todo[v]
      /\ columns'[v] = columns[v] /\ items'[v] = items[v]
  BY OthersStay DEF Work
<1>2. CASE pc[v] = "idle"
  BY <1>1, <1>2 DEF ServingOK, IsEmpty
<1>3. CASE pc[v] # "idle"
  <2>1. Shared!NewIds(v) \subseteq Shared!NewIds(v)'
    BY <1>3, NewIdsGrow
  <2>2. pc[v] = "last_insert_rowid" => lastRowid' \in Shared!NewIds(v)'
    BY <1>3, RowidStaysNew DEF ServingOK
  <2>3. ever[v].items \subseteq ever'[v].items
    BY <1>3, WorkSees
  <2>4. pc[v] = "getItems" /\ call[v].op \notin {"getItems", "putColumn"} => LoopOK(v)'
    BY OtherLoopStays DEF ServingOK
  <2>5. pc[v] = "timestamp" =>
          \E id \in Shared!NewIds(v)' :
            items[v] = {jsonItem(call[v].column, id, call[v].text, call[v].position, 0)}
    BY <2>1 DEF ServingOK
  <2>6. pc[v] = "changes" /\ call[v].op = "putItem" =>
          \E x \in ever'[v].items :
            x.column = call[v].column /\ x.id = call[v].item /\ items[v] = {x}
    BY <2>3 DEF ServingOK
  <2> QED
    BY <1>1, <2>2, <2>4, <2>5, <2>6 DEF ServingOK, IsEmpty
<1> QED
  BY <1>2, <1>3

-----------------------------------------------------------------------------
\* What every step of a worker begins with.
LEMMA Beginning ==
  ASSUME TypeOK, SharedInv, NEW w \in Workers, Work(w)
  PROVE  /\ FileOK /\ ProcessOK /\ Observed /\ RepositoryStep(w) /\ [DatabaseNext]_dbVars
         /\ w \in DOMAIN pc /\ w \in DOMAIN columns /\ w \in DOMAIN items /\ w \in DOMAIN todo
         /\ IsAt(pc[w], call[w].op)
         /\ ServingOK(w) /\ \A v \in Workers : SeenOK(v)
         /\ call' = call
         /\ ~Faults => /\ ~Select("column", "error") /\ ~Select("item", "error")
                       /\ tables = TableNames
<1>1. FileOK /\ ProcessOK /\ Observed /\ RepositoryStep(w) /\ [DatabaseNext]_dbVars
  BY TypeOKParts, FileOKIsDatabaseInv, RepositoryStepIsStep DEF Work
<1>2. call' = call
  BY <1>1, StepIsLocal
<1>3. ~Faults => tables = TableNames
  BY DEF SharedInv, Work
<1> QED
  BY <1>1, <1>2, <1>3 DEF ProcessOK, SharedInv, Select, TableNames

\* The step of worker w as SharedApi sees it.
Step(w) ==
  Shared!Serve(w) \/ Shared!Write(w) \/ Shared!Acknowledge(w) \/ UNCHANGED Shared!sharedVars

\* The stored columns and items are those of a board.
LEMMA StoredIsOneBoard ==
  ASSUME FileOK
  PROVE  /\ \A x, y \in StoredColumns : x.id = y.id \/ x.position = y.position => x = y
         /\ \A x, y \in StoredItems :
              x.id = y.id \/ (x.column = y.column /\ x.position = y.position) => x = y
<1>1. ColumnsDiffer(column) /\ ItemsDiffer(item)
  BY DEF FileOK
<1>2. ASSUME NEW x \in StoredColumns, NEW y \in StoredColumns,
             x.id = y.id \/ x.position = y.position
      PROVE  x = y
  <2>1. PICK i \in DOMAIN column : x = jsonColumn(i, column[i].name, column[i].position)
    BY DEF StoredColumns, ColumnJson
  <2>2. PICK j \in DOMAIN column : y = jsonColumn(j, column[j].name, column[j].position)
    BY DEF StoredColumns, ColumnJson
  <2>3. i = j
    BY <1>1, <1>2, <2>1, <2>2 DEF jsonColumn, ColumnsDiffer
  <2> QED
    BY <2>1, <2>2, <2>3
<1>3. ASSUME NEW x \in StoredItems, NEW y \in StoredItems,
             x.id = y.id \/ (x.column = y.column /\ x.position = y.position)
      PROVE  x = y
  <2>1. PICK i \in DOMAIN item :
          x = jsonItem(item[i].column_id, i, item[i].title, item[i].position, item[i].date)
    BY DEF StoredItems, ItemJson
  <2>2. PICK j \in DOMAIN item :
          y = jsonItem(item[j].column_id, j, item[j].title, item[j].position, item[j].date)
    BY DEF StoredItems, ItemJson
  <2>3. i = j
    BY <1>1, <1>3, <2>1, <2>2 DEF jsonItem, ItemsDiffer
  <2> QED
    BY <2>1, <2>2, <2>3
<1> QED
  BY <1>2, <1>3

\* A loop that has come to its end has what the read was asked for.
LEMMA LoopEnds ==
  ASSUME NEW w \in Workers, NEW c, NEW a, IsLoop(w, c, {}, a)
  PROVE  Shared!Regular(w, c, a)
BY DEF IsLoop, Shared!Regular, Shared!Within

\* The select of the items of one column is a read by itself.
LEMMA FoundIsRegular ==
  ASSUME FileOK, NEW w \in Workers, pc[w] # "idle", SeenOK(w),
         NEW c, c.op \in {"getItems", "getItem"}, NEW found,
         found \subseteq {x \in ItemsUnder(c.column) : c.op = "getItem" => x.id = c.item},
         ~Faults => found = {x \in ItemsUnder(c.column) : c.op = "getItem" => x.id = c.item}
  PROVE  Shared!Regular(w, c, [columns |-> {}, items |-> found])
<1>1. ItemsUnder(c.column) = {x \in StoredItems : x.column = c.column}
  BY ItemsUnderAreStored
<1>2. \A S : Shared!Wanted(c, S) =
        [columns |-> {},
         items |-> {x \in S.items : x.column = c.column /\ (c.op = "getItem" => x.id = c.item)}]
  BY SameBoards DEF Shared!Wanted
<1>3. PICK a : a = [columns |-> {}, items |-> found]
  OBVIOUS
<1>4. found = {x \in found : x.column = c.column /\ (c.op = "getItem" => x.id = c.item)}
  BY <1>1
<1>5. a = Shared!Wanted(c, a)
  <2>1. a.items = found
    BY <1>3
  <2>2. {x \in a.items : x.column = c.column /\ (c.op = "getItem" => x.id = c.item)} = found
    BY <1>4, <2>1
  <2> QED
    BY <1>2, <1>3, <2>2, Zenon
<1>6. Shared!IsBoard(a)
  BY <1>1, <1>3, StoredIsOneBoard DEF Shared!IsBoard
<1>7. /\ StoredItems \subseteq ever[w].items /\ always[w].items \subseteq StoredItems
  BY DEF SeenOK, Shared!Within, Stored
<1>8. Shared!Within(a, ever[w])
  BY <1>1, <1>3, <1>7 DEF Shared!Within
<1>9. ~Faults => Shared!Within(Shared!Wanted(c, always[w]), a)
  BY <1>1, <1>2, <1>3, <1>7 DEF Shared!Within
<1> QED
  BY <1>3, <1>5, <1>6, <1>8, <1>9 DEF Shared!Regular

\* What the reads of columns want.
LEMMA WantedColumns ==
  ASSUME NEW c, c.op \in {"getBoard", "getColumns", "getColumn"}, NEW S
  PROVE  /\ Shared!Wanted(c, S).columns = {x \in S.columns : c.op = "getColumn" => x.id = c.column}
         /\ Shared!Wanted(c, S).items =
              {x \in S.items : \E k \in Shared!Wanted(c, S).columns : k.id = x.column}
         /\ \A cols, its :
              Shared!Wanted(c, S).columns = cols /\ Shared!Wanted(c, S).items = its
                => Shared!Wanted(c, S) = [columns |-> cols, items |-> its]
BY DEF Shared!Wanted

\* A loop begins with the columns that are there, and no item.
LEMMA LoopBegins ==
  ASSUME FileOK, NEW w \in Workers, pc[w] # "idle", SeenOK(w),
         NEW c, c.op \in {"getBoard", "getColumns", "getColumn"},
         NEW left, left = {i \in DOMAIN column : c.op = "getColumn" => i = c.column}
  PROVE  IsLoop(w, c, left, [columns |-> {ColumnJson(i) : i \in left}, items |-> {}])
<1>1. PICK cols : cols = {ColumnJson(i) : i \in left}
  OBVIOUS
<1>2. PICK a : a = [columns |-> cols, items |-> {}]
  OBVIOUS
<1>3. a.columns = cols /\ a.items = {}
  BY <1>2
<1>4. cols = {x \in StoredColumns : c.op = "getColumn" => x.id = c.column}
  <2>1. \A i : ColumnJson(i).id = i
    BY DEF ColumnJson, jsonColumn
  <2> QED
    BY <1>1, <2>1 DEF StoredColumns
<1>5. a = Shared!Wanted(c, a)
  <2>1. Shared!Wanted(c, a).columns = cols /\ Shared!Wanted(c, a).items = {}
    BY <1>3, <1>4, WantedColumns
  <2>2. Shared!Wanted(c, a) = [columns |-> cols, items |-> {}]
    BY <2>1, WantedColumns
  <2> QED
    BY <1>2, <2>2
<1>6. Shared!IsBoard(a)
  BY <1>3, <1>4, StoredIsOneBoard DEF Shared!IsBoard
<1>7. StoredColumns \subseteq ever[w].columns /\ always[w].columns \subseteq StoredColumns
  BY DEF SeenOK, Shared!Within, Stored
<1>8. Shared!Within(a, ever[w])
  BY <1>3, <1>4, <1>7 DEF Shared!Within
<1>9. Shared!Wanted(c, always[w]).columns \subseteq cols
  BY <1>4, <1>7, WantedColumns
<1>10. \A k \in cols : k.id \in left
  BY <1>1 DEF ColumnJson, jsonColumn
<1>11. \A i \in left : \E k \in cols : k.id = i
  <2>1. \A i \in left : ColumnJson(i) \in cols
    BY <1>1
  <2>2. \A i : ColumnJson(i).id = i
    BY DEF ColumnJson, jsonColumn
  <2> QED
    BY <2>1, <2>2
<1>12. \A x \in Shared!Wanted(c, always[w]).items : x.column \in left
  BY <1>9, <1>10, WantedColumns
<1> QED
  BY <1>1, <1>2, <1>3, <1>5, <1>6, <1>8, <1>9, <1>11, <1>12 DEF IsLoop

\* What a select of the items of column i hands over, and why none of it is
\* in the board a already.
Finds(i, found) == found \subseteq ItemsUnder(i) /\ (~Faults => found = ItemsUnder(i))

StaysApart(a) == \A x \in a.items : x.id \in DOMAIN item => item[x.id].column_id = x.column

\* One turn of it reads the items of one column.
LEMMA LoopGoesOn ==
  ASSUME FileOK, NEW w \in Workers, pc[w] # "idle", SeenOK(w),
         NEW c, c.op \in {"getBoard", "getColumns", "getColumn"},
         NEW left, NEW a, IsLoop(w, c, left, a),
         NEW i \in left, NEW found, Finds(i, found), StaysApart(a)
  PROVE  IsLoop(w, c, left \ {i}, [columns |-> a.columns, items |-> a.items \cup found])
<1>1. PICK cols, its : cols = a.columns /\ its = a.items
  OBVIOUS
<1>2. PICK b : b = [columns |-> cols, items |-> its \cup found]
  OBVIOUS
<1>3. /\ a.columns = cols /\ a.items = its
      /\ b.columns = cols /\ b.items = its \cup found
      /\ found \subseteq ItemsUnder(i) /\ (~Faults => found = ItemsUnder(i))
      /\ \A x \in its : x.id \in DOMAIN item => item[x.id].column_id = x.column
  BY <1>1, <1>2 DEF Finds, StaysApart
<1>4. /\ \A j \in left : \E k \in cols : k.id = j
      /\ \A x \in its : x.column \notin left
      /\ a = Shared!Wanted(c, a) /\ Shared!IsBoard(a) /\ Shared!Within(a, ever[w])
      /\ ~Faults => /\ Shared!Wanted(c, always[w]).columns \subseteq cols
                    /\ \A x \in Shared!Wanted(c, always[w]).items : x \in its \/ x.column \in left
  BY <1>3 DEF IsLoop
<1>5. ItemsUnder(i) = {x \in StoredItems : x.column = i}
  BY ItemsUnderAreStored
<1>6. \A x \in StoredItems : x.id \in DOMAIN item /\ item[x.id].column_id = x.column
  BY DEF StoredItems, ItemJson, jsonItem
<1>7. /\ StoredItems \subseteq ever[w].items /\ always[w].items \subseteq StoredItems
  BY DEF SeenOK, Shared!Within, Stored
<1>8. b = Shared!Wanted(c, b)
  <2>1. Shared!Wanted(c, b).columns = cols
    <3>1. Shared!Wanted(c, a).columns = cols /\ a.columns = cols /\ b.columns = cols
      BY <1>3, <1>4
    <3>2. /\ cols = {x \in cols : c.op = "getColumn" => x.id = c.column}
          /\ Shared!Wanted(c, b).columns = {x \in cols : c.op = "getColumn" => x.id = c.column}
      BY <3>1, WantedColumns
    <3> QED
      BY <3>2
  <2>2. \A x \in its : \E k \in cols : k.id = x.column
    BY <1>3, <1>4, WantedColumns
  <2>3. \A x \in found : \E k \in cols : k.id = x.column
    BY <1>3, <1>4, <1>5
  <2>4. Shared!Wanted(c, b).items = its \cup found
    BY <1>3, <2>1, <2>2, <2>3, WantedColumns
  <2>5. Shared!Wanted(c, b) = [columns |-> cols, items |-> its \cup found]
    BY <2>1, <2>4, WantedColumns
  <2> QED
    BY <1>2, <2>5
<1>9. Shared!IsBoard(b)
  <2>0. /\ \A x, y \in cols : x.id = y.id \/ x.position = y.position => x = y
        /\ \A x, y \in its :
             x.id = y.id \/ (x.column = y.column /\ x.position = y.position) => x = y
    <3>1. Shared!IsBoard(a)
      BY <1>4
    <3> QED
      BY <1>3, <3>1 DEF Shared!IsBoard
  <2>1. ASSUME NEW x \in its \cup found, NEW y \in its \cup found,
               x.id = y.id \/ (x.column = y.column /\ x.position = y.position)
        PROVE  x = y
    <3>1. CASE x \in its /\ y \in its
      BY <2>0, <2>1, <3>1
    <3>2. CASE x \in found /\ y \in found
      BY <1>3, <1>5, <2>1, <3>2, StoredIsOneBoard
    <3>3. \A u \in its, v \in found : u.column # v.column /\ u.id # v.id
      BY <1>3, <1>4, <1>5, <1>6
    <3> QED
      BY <2>1, <3>1, <3>2, <3>3
  <2> QED
    BY <1>3, <2>0, <2>1 DEF Shared!IsBoard
<1>10. Shared!Within(b, ever[w])
  BY <1>3, <1>4, <1>5, <1>7 DEF Shared!Within
<1>11. ~Faults => \A x \in Shared!Wanted(c, always[w]).items :
                    x \in its \cup found \/ x.column \in left \ {i}
  <2>1. \A x \in Shared!Wanted(c, always[w]).items : x \in StoredItems
    BY <1>7, WantedColumns
  <2> QED
    BY <1>3, <1>4, <1>5, <2>1
<1>12. \A x \in its \cup found : x.column \notin left \ {i}
  BY <1>3, <1>4, <1>5
<1> QED
  BY <1>1, <1>2, <1>3, <1>4, <1>8, <1>9, <1>10, <1>11, <1>12 DEF IsLoop

\* A read that failed or found no column may show nothing.
LEMMA NothingIsRegular ==
  ASSUME FileOK, NEW w \in Workers, pc[w] # "idle", SeenOK(w),
         NEW c, c.op \in Shared!ReadOps,
         ~Faults => c.op = "getColumn" /\ c.column \notin DOMAIN column
  PROVE  Shared!Regular(w, c, Nothing)
<1>1. Nothing = Shared!Wanted(c, Nothing)
  BY SameBoards DEF Nothing, Shared!Wanted
<1>2. Shared!IsBoard(Nothing) /\ Shared!Within(Nothing, ever[w])
  BY DEF Nothing, Shared!IsBoard, Shared!Within
<1>3. ASSUME ~Faults PROVE Shared!Within(Shared!Wanted(c, always[w]), Nothing)
  <2>1. c.op = "getColumn" /\ \A x \in StoredColumns : x.id # c.column
    BY <1>3 DEF StoredColumns, ColumnJson, jsonColumn
  <2>2. always[w].columns \subseteq StoredColumns
    BY DEF SeenOK, Shared!Within, Stored
  <2>3. Shared!Wanted(c, always[w]).columns = {}
    BY <2>1, <2>2, WantedColumns
  <2>4. Shared!Wanted(c, always[w]).items = {}
    BY <2>1, <2>3, WantedColumns
  <2> QED
    BY <2>3, <2>4 DEF Shared!Within
<1> QED
  BY <1>1, <1>2, <1>3 DEF Shared!Regular

-----------------------------------------------------------------------------
\* A read that is answered now.
LEMMA ReadAnswers ==
  ASSUME TypeOK, SharedInv, NEW w \in Workers, Work(w), UNCHANGED dbVars,
         pc[w] \in {"getColumns", "getColumn", "getItems", "selectItem"}, pc'[w] = "reply",
         NEW c, c = call[w], c.op \in Shared!ReadOps,
         NEW a, a = Collected(w)', Shared!Regular(w, c, a)
  PROVE  ServingOK(w)' /\ Step(w)
<1>1. SharedStage(w) = "asked" /\ SharedStage(w)' = "done" /\ SharedAnswer(w)' = a
  BY DEF SharedStage, SharedAnswer, Done, Shared!ReadOps, Collected
<1>2. ServingOK(w)'
  BY DEF ServingOK, NothingYet
<1> QED
  BY <1>1, <1>2, Beginning, Serves DEF Step

\* A read of columns that goes on.
LEMMA ReadGoesOn ==
  ASSUME TypeOK, SharedInv, NEW w \in Workers, Work(w), UNCHANGED dbVars,
         pc[w] \in {"getColumns", "getColumn", "getItems"}, pc'[w] = "getItems",
         NEW c, c = call[w], c.op \in {"getBoard", "getColumns", "getColumn"},
         NEW left, left = todo'[w], NEW a, a = Collected(w)', IsLoop(w, c, left, a)
  PROVE  ServingOK(w)' /\ Step(w)
<1>1. SharedStage(w)' = SharedStage(w) /\ SharedAnswer(w)' = SharedAnswer(w)
  <2>1. call' = call
    BY Beginning
  <2> QED
    BY <2>1 DEF SharedStage, SharedAnswer, Done
<1>2. ever' = ever /\ always' = always /\ call' = call
  BY Beginning, NothingToSee
<1>3. LoopOK(w)'
  BY <1>2, LoopKeeps
<1>4. ServingOK(w)'
  BY <1>2, <1>3 DEF ServingOK, NothingYet
<1> QED
  BY <1>1, <1>4, Beginning, Hides DEF Step

\* getColumns answers at once if there is no column, or goes on to the items.
LEMMA GetColumnsIsServed ==
  ASSUME TypeOK, SharedInv, NEW w \in Workers, Work(w), getColumns(w)
  PROVE  ServingOK(w)' /\ Step(w)
<1>1. PICK c : c = call[w]
  OBVIOUS
<1>2. /\ pc[w] = "getColumns" /\ c.op \in {"getBoard", "getColumns"}
      /\ columns[w] = {} /\ items[w] = {} /\ SeenOK(w) /\ FileOK
  BY <1>1, Beginning DEF getColumns, IsAt, ServingOK, NothingYet, IsEmpty
<1>3. UNCHANGED dbVars /\ items' = items
  BY DEF getColumns, Select
<1>4. CASE Select("column", "ok") /\ columns' = [columns EXCEPT ![w] = StoredColumns]
           /\ todo' = [todo EXCEPT ![w] = DOMAIN column]
           /\ Goto(w, IF DOMAIN column = {} THEN "reply" ELSE "getItems")
  <2>1. PICK left : left = {i \in DOMAIN column : c.op = "getColumn" => i = c.column}
    OBVIOUS
  <2>2. PICK a : a = [columns |-> {ColumnJson(i) : i \in left}, items |-> {}]
    OBVIOUS
  <2>3. IsLoop(w, c, left, a)
    BY <1>2, <2>1, <2>2, LoopBegins
  <2>4. left = DOMAIN column /\ left = todo'[w] /\ a = Collected(w)'
    <3>1. left = DOMAIN column
      BY <1>2, <2>1
    <3>2. columns'[w] = {ColumnJson(i) : i \in left} /\ items'[w] = {} /\ todo'[w] = left
      BY <1>2, <1>3, <1>4, <3>1, Beginning DEF StoredColumns
    <3> QED
      BY <2>2, <3>1, <3>2 DEF Collected
  <2>5. pc'[w] = IF left = {} THEN "reply" ELSE "getItems"
    BY <1>4, <2>4, Beginning DEF Goto
  <2>6. CASE left = {}
    <3>1. Shared!Regular(w, c, a)
      BY <2>3, <2>6, LoopEnds
    <3> QED
      BY <1>1, <1>2, <1>3, <2>4, <2>5, <2>6, <3>1, ReadAnswers DEF Shared!ReadOps
  <2>7. CASE left # {}
    BY <1>1, <1>2, <1>3, <2>3, <2>4, <2>5, <2>7, ReadGoesOn
  <2> QED
    BY <2>6, <2>7
<1>5. CASE Select("column", "error") /\ Goto(w, "reply") /\ UNCHANGED <<columns, todo>>
  <2>1. pc'[w] = "reply" /\ Faults /\ Nothing = Collected(w)'
    BY <1>2, <1>3, <1>5, Beginning DEF Goto, Collected, Nothing
  <2>2. Shared!Regular(w, c, Nothing)
    BY <1>2, <2>1, NothingIsRegular DEF Shared!ReadOps
  <2> QED
    BY <1>1, <1>2, <1>3, <2>1, <2>2, ReadAnswers DEF Shared!ReadOps
<1> QED
  BY <1>4, <1>5 DEF getColumns

\* getColumn goes on to the items of its column, if there is one.
LEMMA GetColumnIsServed ==
  ASSUME TypeOK, SharedInv, NEW w \in Workers, Work(w), getColumn(w)
  PROVE  ServingOK(w)' /\ Step(w)
<1>1. PICK c : c = call[w]
  OBVIOUS
<1>2. /\ pc[w] = "getColumn" /\ c.op = "getColumn"
      /\ columns[w] = {} /\ items[w] = {} /\ SeenOK(w) /\ FileOK
  BY <1>1, Beginning DEF getColumn, IsAt, ServingOK, NothingYet, IsEmpty
<1>3. UNCHANGED dbVars /\ items' = items
  BY DEF getColumn, Select
<1>4. CASE c.column \in DOMAIN column /\ columns' = [columns EXCEPT ![w] = {ColumnJson(c.column)}]
           /\ todo' = [todo EXCEPT ![w] = {c.column}] /\ Goto(w, "getItems")
  <2>1. PICK left : left = {i \in DOMAIN column : c.op = "getColumn" => i = c.column}
    OBVIOUS
  <2>2. PICK a : a = [columns |-> {ColumnJson(i) : i \in left}, items |-> {}]
    OBVIOUS
  <2>3. IsLoop(w, c, left, a)
    BY <1>2, <2>1, <2>2, LoopBegins
  <2>4. left = {c.column}
    BY <1>2, <1>4, <2>1
  <2>5. left = todo'[w] /\ a = Collected(w)' /\ pc'[w] = "getItems"
    <3>1. columns'[w] = {ColumnJson(i) : i \in left} /\ items'[w] = {} /\ todo'[w] = left
      BY <1>2, <1>3, <1>4, <2>4, Beginning
    <3> QED
      BY <1>4, <2>2, <3>1, Beginning DEF Collected, Goto
  <2> QED
    BY <1>1, <1>2, <1>3, <2>3, <2>5, ReadGoesOn
<1>5. CASE /\ Faults \/ c.column \notin DOMAIN column
           /\ Goto(w, "reply") /\ UNCHANGED <<columns, todo>>
  <2>1. pc'[w] = "reply" /\ Nothing = Collected(w)'
    BY <1>2, <1>3, <1>5, Beginning DEF Goto, Collected, Nothing
  <2>2. Shared!Regular(w, c, Nothing)
    BY <1>2, <1>5, NothingIsRegular DEF Shared!ReadOps
  <2> QED
    BY <1>1, <1>2, <1>3, <2>1, <2>2, ReadAnswers DEF Shared!ReadOps
<1> QED
  BY <1>1, <1>4, <1>5, Beginning DEF getColumn

\* A write that answers now with what it has, once its statement was run.
LEMMA WriteAnswers ==
  ASSUME TypeOK, SharedInv, NEW w \in Workers, Work(w), UNCHANGED dbVars,
         SharedStage(w) = "written", pc'[w] = "reply",
         NEW c, c = call[w], NEW a, a = Collected(w)', Shared!Acknowledges(w, c, a)
  PROVE  ServingOK(w)' /\ Step(w)
<1>1. SharedStage(w)' = "done" /\ SharedAnswer(w)' = a
  BY DEF SharedStage, SharedAnswer, Done, Collected
<1>2. ServingOK(w)'
  BY DEF ServingOK, NothingYet
<1> QED
  BY <1>1, <1>2, Beginning, Acknowledges DEF Step

\* A turn of the loop, the read of one column's items, or the last step of a
\* PUT of a column.
LEMMA GetItemsIsServed ==
  ASSUME TypeOK, ReadingOK, SharedInv, NEW w \in Workers, Work(w), getItems(w)
  PROVE  ServingOK(w)' /\ Step(w)
<1>1. PICK c : c = call[w]
  OBVIOUS
<1>2. /\ pc[w] = "getItems" /\ SeenOK(w) /\ FileOK /\ ServingOK(w) /\ c \in Calls
      /\ c.op \in {"getBoard", "getColumns", "getColumn", "putColumn", "getItems"}
  <2>1. pc[w] = "getItems" /\ FileOK /\ ProcessOK /\ SeenOK(w) /\ ServingOK(w) /\ IsAt(pc[w], c.op)
    BY <1>1, Beginning DEF getItems
  <2> QED
    BY <1>1, <2>1 DEF IsAt, ProcessOK
<1>3. UNCHANGED dbVars /\ columns' = columns
  BY DEF getItems, Select
<1>4. PICK i \in todo[w] : \E found \in SUBSET ItemsUnder(i) :
        /\ (Select("item", "ok") /\ found = ItemsUnder(i)) \/ Select("item", "error")
        /\ items' = [items EXCEPT ![w] = @ \cup found]
        /\ todo' = [todo EXCEPT ![w] = Rest(w, i)]
        /\ Goto(w, IF Rest(w, i) = {} THEN "reply" ELSE "getItems")
  BY DEF getItems
<1>5. PICK found \in SUBSET ItemsUnder(i) :
      /\ items'[w] = items[w] \cup found /\ todo'[w] = todo[w] \ {i}
      /\ pc'[w] = IF todo[w] \ {i} = {} THEN "reply" ELSE "getItems"
      /\ ~Faults => found = ItemsUnder(i)
  BY <1>4, Beginning DEF Rest, Goto
<1>6. CASE c.op \in {"getBoard", "getColumns", "getColumn"}
  <2>1. PICK left : left = todo[w] \ {i}
    OBVIOUS
  <2>2. PICK a : a = [columns |-> columns[w], items |-> items[w] \cup found]
    OBVIOUS
  <2>3. PICK b : b.columns = columns[w] /\ b.items = items[w] /\ IsLoop(w, c, todo[w], b)
    BY <1>1, <1>2, <1>6 DEF ServingOK, LoopOK, Collected
  <2>4. StaysApart(b)
    BY <1>1, <1>6, <2>3 DEF ReadingOK, IsRead, StaysApart
  <2>5. IsLoop(w, c, left, a)
    <3>1. FileOK /\ SeenOK(w) /\ pc[w] # "idle"
      BY <1>2
    <3>2. Finds(i, found)
      BY <1>5 DEF Finds
    <3>3. IsLoop(w, c, todo[w] \ {i}, [columns |-> b.columns, items |-> b.items \cup found])
      BY <1>6, <2>3, <2>4, <3>1, <3>2, LoopGoesOn
    <3> QED
      BY <2>1, <2>2, <2>3, <3>3
  <2>6. left = todo'[w] /\ a = Collected(w)'
    BY <1>3, <1>5, <2>1, <2>2 DEF Collected
  <2>7. CASE left = {}
    <3>1. Shared!Regular(w, c, a)
      BY <2>5, <2>7, LoopEnds
    <3> QED
      BY <1>1, <1>2, <1>3, <1>5, <1>6, <2>1, <2>6, <2>7, <3>1, ReadAnswers DEF Shared!ReadOps
  <2>8. CASE left # {}
    BY <1>1, <1>2, <1>3, <1>5, <1>6, <2>1, <2>5, <2>6, <2>8, ReadGoesOn
  <2> QED
    BY <2>7, <2>8
<1>7. CASE c.op \in {"getItems", "putColumn"}
  <2>1. /\ i = c.column /\ pc'[w] = "reply" /\ items'[w] = found
        /\ columns'[w] = IF c.op = "getItems" THEN {}
                         ELSE {jsonColumn(c.column, c.text, c.position)}
    BY <1>1, <1>2, <1>3, <1>5, <1>7 DEF ServingOK
  <2>2. PICK a : a = [columns |-> {}, items |-> found]
    OBVIOUS
  <2>3. ASSUME NEW d, d.op = "getItems", d.column = c.column
        PROVE  Shared!Regular(w, d, a)
    BY <1>2, <1>5, <2>1, <2>2, <2>3, FoundIsRegular
  <2>4. CASE c.op = "getItems"
    <3>1. a = Collected(w)'
      BY <2>1, <2>2, <2>4 DEF Collected
    <3> QED
      BY <1>1, <1>2, <1>3, <2>1, <2>3, <2>4, <3>1, ReadAnswers DEF Shared!ReadOps
  <2>5. CASE c.op = "putColumn"
    <3>1. PICK d : d = [c EXCEPT !.op = "getItems"]
      OBVIOUS
    <3>2. d.op = "getItems" /\ d.column = c.column
      BY <1>2, <3>1 DEF Calls
    <3>3. PICK b : b = Collected(w)'
      OBVIOUS
    <3>4. b.columns = {jsonColumn(c.column, c.text, c.position)} /\ Shared!Only(b.items) = a
      BY <2>1, <2>2, <2>5, <3>3, SameBoards DEF Collected
    <3>5. Shared!jsonColumn(c.column, c.text, c.position) = jsonColumn(c.column, c.text, c.position)
      BY DEF Shared!jsonColumn, jsonColumn
    <3>6. Shared!Regular(w, d, Shared!Only(b.items))
      BY <2>3, <3>2, <3>4
    <3>7. Shared!Acknowledges(w, c, b)
      BY <2>5, <3>1, <3>4, <3>5, <3>6 DEF Shared!Acknowledges
    <3>8. SharedStage(w) = "written"
      BY <1>1, <1>2, <2>5 DEF SharedStage, Done
    <3> QED
      BY <1>1, <1>3, <2>1, <3>3, <3>7, <3>8, WriteAnswers
  <2> QED
    BY <1>7, <2>4, <2>5
<1> QED
  BY <1>2, <1>6, <1>7

\* A write that goes on once its statement was run.
LEMMA WriteGoesOn ==
  ASSUME TypeOK, SharedInv, NEW w \in Workers, Work(w), UNCHANGED dbVars,
         SharedStage(w) = "written", SharedStage(w)' = "written"
  PROVE  Step(w)
<1>1. SharedAnswer(w)' = SharedAnswer(w)
  BY DEF SharedStage, SharedAnswer
<1> QED
  BY <1>1, Beginning, Hides DEF Step

\* The select of getItem answers; that of putItem finds an item or ends it.
LEMMA SelectItemIsServed ==
  ASSUME TypeOK, SharedInv, NEW w \in Workers, Work(w), selectItem(w)
  PROVE  ServingOK(w)' /\ Step(w)
<1>1. PICK c : c = call[w]
  OBVIOUS
<1>2. /\ pc[w] = "selectItem" /\ SeenOK(w) /\ FileOK /\ c.op \in {"getItem", "putItem"}
      /\ columns[w] = {} /\ call' = call
  BY <1>1, Beginning DEF selectItem, IsAt, ServingOK, NothingYet, IsEmpty
<1>3. UNCHANGED dbVars /\ columns' = columns
  BY DEF selectItem, Select
<1>4. PICK found \in {Selected(c), {}} :
        /\ (Select("item", "ok") /\ found = Selected(c)) \/ Select("item", "error")
        /\ items' = [items EXCEPT ![w] = found]
        /\ Goto(w, IF c.op = "putItem" /\ found # {} THEN "changes" ELSE "reply")
  BY <1>1 DEF selectItem
<1>5. /\ items'[w] = found /\ found \subseteq Selected(c) /\ (~Faults => found = Selected(c))
      /\ pc'[w] = IF c.op = "putItem" /\ found # {} THEN "changes" ELSE "reply"
  BY <1>4, Beginning DEF Goto
<1>6. PICK a : a = [columns |-> {}, items |-> found]
  OBVIOUS
<1>7. a = Collected(w)'
  BY <1>2, <1>3, <1>5, <1>6 DEF Collected
<1>8. CASE c.op = "getItem"
  <2>1. Selected(c) = {x \in ItemsUnder(c.column) : c.op = "getItem" => x.id = c.item}
    BY <1>8 DEF Selected
  <2>2. Shared!Regular(w, c, a)
    BY <1>2, <1>5, <1>6, <1>8, <2>1, FoundIsRegular
  <2> QED
    BY <1>1, <1>2, <1>3, <1>5, <1>7, <1>8, <2>2, ReadAnswers DEF Shared!ReadOps
<1>9. CASE c.op = "putItem"
  <2>1. SharedStage(w) = "written"
    BY <1>1, <1>2, <1>9 DEF SharedStage, Done
  <2>2. CASE found = {}
    <3>1. a = Nothing
      BY <1>6, <2>2 DEF Nothing
    <3>2. Shared!Acknowledges(w, c, a)
      BY <1>9, <3>1, SameBoards DEF Shared!Acknowledges
    <3> QED
      BY <1>1, <1>3, <1>5, <1>7, <2>1, <2>2, <3>2, WriteAnswers
  <2>3. CASE found # {}
    <3>1. pc'[w] = "changes" /\ SharedStage(w)' = "written"
      BY <1>5, <1>9, <2>3 DEF SharedStage, Done
    <3>2. \E x \in ever[w].items : x.column = c.column /\ x.id = c.item /\ found = {x}
      <4>1. \A x \in Selected(c) : x \in StoredItems /\ x.column = c.column /\ x.id = c.item
        BY ItemsUnderAreStored DEF Selected
      <4>2. StoredItems \subseteq ever[w].items
        BY <1>2 DEF SeenOK, Shared!Within, Stored
      <4>3. PICK x \in found : TRUE
        BY <2>3
      <4>4. \A y \in found : y = x
        BY <1>2, <1>5, <4>1, <4>3, StoredIsOneBoard
      <4> QED
        BY <1>5, <4>1, <4>2, <4>3, <4>4
    <3>3. ever' = ever
      BY <1>3, Beginning, NothingToSee
    <3>4. ServingOK(w)'
      BY <1>1, <1>2, <1>3, <1>5, <1>9, <3>1, <3>2, <3>3 DEF ServingOK, NothingYet
    <3> QED
      BY <1>3, <2>1, <3>1, <3>4, WriteGoesOn
  <2> QED
    BY <2>2, <2>3
<1> QED
  BY <1>2, <1>8, <1>9

-----------------------------------------------------------------------------
\* The steps of a write up to its statement.
Asking == {"postColumn", "putColumn", "deleteColumn", "putItem", "deleteItem", "insertItem",
           "ctime", "strlen", "truncate", "measure", "copy"}

\* A write that ends with its statement, refused or failed.
LEMMA WriteFails ==
  ASSUME TypeOK, SharedInv, NEW w \in Workers, Work(w), UNCHANGED dbVars,
         pc[w] \in Asking, pc'[w] = "reply", columns' = columns, items' = items,
         NEW c, c = call[w], Shared!MayFail(c)
  PROVE  ServingOK(w)' /\ Step(w)
<1>1. columns[w] = {} /\ items[w] = {} /\ IsAt(pc[w], c.op)
  BY Beginning DEF Asking, ServingOK, NothingYet, IsEmpty
<1>2. c.op \notin Shared!ReadOps
  BY <1>1 DEF IsAt, Asking, Shared!ReadOps, PostOps
<1>3. SharedStage(w) = "asked" /\ SharedStage(w)' = "done" /\ SharedAnswer(w)' = Nothing
  BY <1>1 DEF SharedStage, SharedAnswer, Done, Asking, Nothing
<1>4. ServingOK(w)'
  BY DEF ServingOK, NothingYet
<1> QED
  BY <1>2, <1>3, <1>4, Beginning, Serves DEF Step

\* A write that goes on from its statement.
LEMMA WriteBegins ==
  ASSUME TypeOK, SharedInv, NEW w \in Workers, Work(w),
         pc[w] \in Asking, SharedStage(w)' = "written",
         NEW c, c = call[w],
         \/ Shared!Statement(c)
         \/ c.op \notin PostOps /\ Shared!MayFail(c) /\ UNCHANGED dbVars
  PROVE  Step(w)
<1>1. SharedStage(w) = "asked"
  BY DEF SharedStage, Done, Asking
<1> QED
  BY <1>1, Beginning, Writes DEF Step

\* What may stop the statement of a write, in the terms of the service.
LEMMA SameRefusals ==
  ASSUME NEW c
  PROVE  /\ Shared!MayFail(c) <=> Shared!Refusable(c) \/ Faults \/ c.op = "postItem"
         /\ c.op \in {"postColumn", "putColumn", "postItem", "putItem"} /\ c.text \in BreaksSql
              => Shared!Refusable(c)
         /\ c.op = "postColumn" /\ ColumnClash(0, c.position) => Shared!Refusable(c)
         /\ c.op \in {"putColumn", "deleteColumn"} /\ c.column \notin DOMAIN column
              => Shared!Refusable(c)
         /\ c.op = "putColumn" /\ ColumnClash(c.column, c.position) => Shared!Refusable(c)
         /\ c.op \in {"putItem", "deleteItem"} /\ ~IsItemOf(c.item, c.column)
              => Shared!Refusable(c)
         /\ c.op = "putItem" /\ ItemClash(c.item, c.column, c.position) => Shared!Refusable(c)
BY SameStatements DEF Shared!MayFail, Shared!Refusable

\* The insert of a column; what the connection remembers of it is of a row
\* that the request has seen.
LEMMA PostColumnIsServed ==
  ASSUME TypeOK, SharedInv, NEW w \in Workers, Work(w), postColumn(w)
  PROVE  ServingOK(w)' /\ Step(w)
<1>1. PICK c : c = call[w]
  OBVIOUS
<1>2. /\ pc[w] = "postColumn" /\ c.op = "postColumn" /\ call' = call /\ Observed
      /\ columns[w] = {} /\ items[w] = {} /\ (~Faults => tables = TableNames)
  BY <1>1, Beginning DEF postColumn, IsAt, ServingOK, NothingYet, IsEmpty
<1>3. columns' = columns /\ items' = items
  BY DEF postColumn, resultVars
<1>4. PICK rc \in Results :
        ExecInsertColumn(c.text, c.position, rc) /\ pc'[w] = AfterInsert(rc)
  BY <1>1, Beginning DEF postColumn, Goto
<1>5. CASE rc = "ok"
  <2>1. /\ c.text \notin BreaksSql /\ InsertColumn(c.text, c.position)
        /\ lastRowid' = columnSeq + 1 /\ pc'[w] = "last_insert_rowid"
    BY <1>4, <1>5 DEF ExecInsertColumn, Compiles, AfterInsert
  <2>2. Shared!Statement(c) /\ SharedStage(w)' = "written"
    BY <1>2, <2>1, SameStatements DEF Shared!Statement, SharedStage, Done
  <2>3. lastRowid' \in Shared!NewIds(w)'
    BY <1>2, <2>1, InsertGivesId
  <2>4. ServingOK(w)'
    BY <1>2, <1>3, <2>1, <2>3 DEF ServingOK, NothingYet, IsEmpty
  <2> QED
    BY <1>1, <1>2, <2>2, <2>4, WriteBegins DEF Asking
<1>6. CASE rc = "error"
  <2>1. /\ UNCHANGED dbVars /\ pc'[w] = "reply"
        /\ \/ "column" \notin tables \/ c.text \in BreaksSql \/ Faults
           \/ ColumnClash(0, c.position)
    BY <1>4, <1>6 DEF ExecInsertColumn, Compiles, AfterInsert, NotPrepared, Aborted, NotCommitted
  <2>2. Shared!MayFail(c)
    BY <1>2, <2>1, SameRefusals DEF TableNames
  <2> QED
    BY <1>1, <1>2, <1>3, <2>1, <2>2, WriteFails DEF Asking
<1> QED
  BY <1>5, <1>6 DEF Results

\* The update of a column, which may match no row.
LEMMA PutColumnIsServed ==
  ASSUME TypeOK, SharedInv, NEW w \in Workers, Work(w), putColumn(w)
  PROVE  ServingOK(w)' /\ Step(w)
<1>1. PICK c : c = call[w]
  OBVIOUS
<1>2. /\ pc[w] = "putColumn" /\ c.op = "putColumn" /\ call' = call
      /\ columns[w] = {} /\ items[w] = {} /\ (~Faults => tables = TableNames)
  BY <1>1, Beginning DEF putColumn, IsAt, ServingOK, NothingYet, IsEmpty
<1>3. columns' = columns /\ items' = items
  BY DEF putColumn, resultVars
<1>4. PICK rc \in Results :
        /\ ExecUpdateColumn(c.column, c.text, c.position, rc)
        /\ pc'[w] = IF rc = "ok" THEN "changes" ELSE "reply"
  BY <1>1, Beginning DEF putColumn, Goto
<1>5. CASE rc = "ok"
  <2>1. /\ pc'[w] = "changes" /\ c.text \notin BreaksSql
        /\ \/ UpdateColumn(c.column, c.text, c.position)
           \/ UNCHANGED dbVars /\ c.column \notin DOMAIN column
    BY <1>4, <1>5 DEF ExecUpdateColumn, Compiles, MatchedNothing
  <2>2. \/ Shared!Statement(c)
        \/ c.op \notin PostOps /\ Shared!MayFail(c) /\ UNCHANGED dbVars
    BY <1>2, <2>1, SameStatements, SameRefusals DEF Shared!Statement, PostOps
  <2>3. SharedStage(w)' = "written"
    BY <2>1 DEF SharedStage, Done
  <2>4. ServingOK(w)'
    BY <1>1, <1>2, <1>3, <2>1 DEF ServingOK, NothingYet, IsEmpty
  <2> QED
    BY <1>1, <1>2, <2>2, <2>3, <2>4, WriteBegins DEF Asking
<1>6. CASE rc = "error"
  <2>1. /\ UNCHANGED dbVars /\ pc'[w] = "reply"
        /\ \/ "column" \notin tables \/ c.text \in BreaksSql \/ Faults
           \/ ColumnClash(c.column, c.position)
    BY <1>4, <1>6 DEF ExecUpdateColumn, Compiles, NotPrepared, Aborted
  <2>2. Shared!MayFail(c)
    BY <1>2, <2>1, SameRefusals DEF TableNames
  <2> QED
    BY <1>1, <1>2, <1>3, <2>1, <2>2, WriteFails DEF Asking
<1> QED
  BY <1>5, <1>6 DEF Results

\* The deletes, which are answered in the same step.
LEMMA DeleteIsServed ==
  ASSUME TypeOK, SharedInv, NEW w \in Workers, Work(w), deleteColumn(w) \/ deleteItem(w)
  PROVE  ServingOK(w)' /\ Step(w)
<1>1. PICK c : c = call[w]
  OBVIOUS
<1>2. /\ pc[w] \in {"deleteColumn", "deleteItem"} /\ c.op = pc[w] /\ call' = call
      /\ columns[w] = {} /\ items[w] = {} /\ (~Faults => tables = TableNames)
  BY <1>1, Beginning DEF deleteColumn, deleteItem, IsAt, ServingOK, NothingYet, IsEmpty
<1>3. columns' = columns /\ items' = items /\ pc'[w] = "reply"
  BY Beginning DEF deleteColumn, deleteItem, resultVars, Goto
<1>4. CASE \/ c.op = "deleteColumn" /\ DeleteColumn(c.column)
           \/ c.op = "deleteItem" /\ DeleteItem(c.item, c.column)
  <2>1. Shared!Deletes(c, Nothing)
    BY <1>4, SameStatements, SameBoards DEF Shared!Deletes
  <2>2. SharedStage(w) = "asked" /\ SharedStage(w)' = "done" /\ SharedAnswer(w)' = Nothing
    BY <1>2, <1>3 DEF SharedStage, SharedAnswer, Done, Nothing
  <2>3. ServingOK(w)'
    BY <1>3 DEF ServingOK, NothingYet
  <2> QED
    BY <1>1, <2>1, <2>2, <2>3, Beginning, Serves DEF Step
<1>5. CASE ~(\/ c.op = "deleteColumn" /\ DeleteColumn(c.column)
             \/ c.op = "deleteItem" /\ DeleteItem(c.item, c.column))
  <2>1. /\ UNCHANGED dbVars
        /\ \/ tables # TableNames \/ Faults
           \/ c.op = "deleteColumn" /\ c.column \notin DOMAIN column
           \/ c.op = "deleteItem" /\ ~IsItemOf(c.item, c.column)
    BY <1>1, <1>2, <1>5
       DEF deleteColumn, deleteItem, ExecDeleteColumn, ExecDeleteItem, ExecDelete, TableNames
  <2>2. Shared!MayFail(c)
    BY <1>2, <2>1, SameRefusals
  <2> QED
    BY <1>1, <1>2, <1>3, <2>1, <2>2, WriteFails DEF Asking
<1> QED
  BY <1>4, <1>5

\* The update of an item, whose result is not looked at.
LEMMA PutItemIsServed ==
  ASSUME TypeOK, SharedInv, NEW w \in Workers, Work(w), putItem(w)
  PROVE  ServingOK(w)' /\ Step(w)
<1>1. PICK c : c = call[w]
  OBVIOUS
<1>2. /\ pc[w] = "putItem" /\ c.op = "putItem" /\ call' = call
      /\ columns[w] = {} /\ items[w] = {} /\ (~Faults => tables = TableNames)
  BY <1>1, Beginning DEF putItem, IsAt, ServingOK, NothingYet, IsEmpty
<1>3. columns' = columns /\ items' = items /\ pc'[w] = "selectItem"
  BY Beginning DEF putItem, resultVars, Goto
<1>4. PICK rc \in Results : ExecUpdateItem(c.item, c.column, c.text, c.position, rc)
  BY <1>1 DEF putItem
<1>5. \/ UpdateItem(c.item, c.column, c.text, c.position) /\ c.text \notin BreaksSql
      \/ /\ UNCHANGED dbVars
         /\ \/ "item" \notin tables \/ c.text \in BreaksSql \/ Faults
            \/ ~IsItemOf(c.item, c.column) \/ ItemClash(c.item, c.column, c.position)
  BY <1>4 DEF ExecUpdateItem, Compiles, MatchedNothing, NotPrepared, Aborted
<1>6. \/ Shared!Statement(c)
      \/ c.op \notin PostOps /\ Shared!MayFail(c) /\ UNCHANGED dbVars
  BY <1>2, <1>5, SameStatements, SameRefusals DEF Shared!Statement, PostOps, TableNames
<1>7. SharedStage(w)' = "written"
  BY <1>1, <1>2, <1>3 DEF SharedStage, Done
<1>8. ServingOK(w)'
  BY <1>2, <1>3 DEF ServingOK, NothingYet, IsEmpty
<1> QED
  BY <1>1, <1>2, <1>6, <1>7, <1>8, WriteBegins DEF Asking

\* The handling of the stamp's buffer is seen by nobody.
LEMMA StampIsServed ==
  ASSUME TypeOK, SharedInv, NEW w \in Workers, Work(w),
         ctime(w) \/ strlen(w) \/ truncate(w) \/ measure(w) \/ copy(w)
  PROVE  ServingOK(w)' /\ Step(w)
<1> USE DEF ctime, strlen, truncate, measure, copy
<1>1. /\ pc[w] \in {"ctime", "strlen", "truncate", "measure", "copy"}
      /\ columns[w] = {} /\ items[w] = {} /\ call' = call
  BY Beginning DEF ServingOK, NothingYet, IsEmpty
<1>2. /\ UNCHANGED dbVars /\ columns' = columns /\ items' = items
      /\ pc'[w] \in {"strlen", "truncate", "measure", "copy", "insertItem"}
  BY Beginning DEF resultVars, Goto
<1>3. SharedStage(w) = SharedStage(w)' /\ SharedAnswer(w) = SharedAnswer(w)'
  BY <1>1, <1>2 DEF SharedStage, SharedAnswer, Done
<1>4. ServingOK(w)'
  BY <1>1, <1>2 DEF ServingOK, NothingYet, IsEmpty
<1> QED
  BY <1>2, <1>3, <1>4, Beginning, Hides DEF Step

\* The insert of an item, with a stamp that another thread may have torn.
LEMMA InsertItemIsServed ==
  ASSUME TypeOK, SharedInv, NEW w \in Workers, Work(w), insertItem(w)
  PROVE  ServingOK(w)' /\ Step(w)
<1>1. PICK c : c = call[w]
  OBVIOUS
<1>2. /\ pc[w] = "insertItem" /\ c.op = "postItem" /\ call' = call /\ Observed
      /\ columns[w] = {} /\ items[w] = {}
  BY <1>1, Beginning DEF insertItem, IsAt, ServingOK, NothingYet, IsEmpty
<1>3. columns' = columns /\ items' = items
  BY DEF insertItem, resultVars
<1>4. PICK rc \in Results :
        /\ ExecInsertItem(c.text, length[w], c.position, c.column, length[w] = Torn, rc)
        /\ pc'[w] = AfterInsert(rc)
  BY <1>1, Beginning DEF insertItem, Goto
<1>5. CASE rc = "ok"
  <2>1. /\ c.text \notin BreaksSql /\ length[w] # Torn
        /\ InsertItem(c.text, length[w], c.position, c.column)
        /\ lastRowid' = itemSeq + 1 /\ pc'[w] = "last_insert_rowid"
    BY <1>4, <1>5 DEF ExecInsertItem, Compiles, AfterInsert
  <2>2. length[w] \in Dates
    BY <2>1, WriteArguments
  <2>3. Shared!Statement(c) /\ SharedStage(w)' = "written"
    BY <1>2, <2>1, <2>2, SameStatements DEF Shared!Statement, SharedStage, Done
  <2>4. lastRowid' \in Shared!NewIds(w)'
    BY <1>2, <2>1, InsertGivesId
  <2>5. ServingOK(w)'
    BY <1>2, <1>3, <2>1, <2>4 DEF ServingOK, NothingYet, IsEmpty
  <2> QED
    BY <1>1, <1>2, <2>3, <2>5, WriteBegins DEF Asking
<1>6. CASE rc = "error"
  <2>1. UNCHANGED dbVars /\ pc'[w] = "reply"
    BY <1>4, <1>6 DEF ExecInsertItem, AfterInsert, NotPrepared, Aborted, NotCommitted
  <2>2. Shared!MayFail(c)
    BY <1>2, SameRefusals
  <2> QED
    BY <1>1, <1>2, <1>3, <2>1, <2>2, WriteFails DEF Asking
<1> QED
  BY <1>5, <1>6 DEF Results

\* The rows of the answers are those of SharedApi.
LEMMA SameJson ==
  /\ \A i, name, p : Shared!jsonColumn(i, name, p) = jsonColumn(i, name, p)
  /\ \A c, i, title, p, t : Shared!jsonItem(c, i, title, p, t) = jsonItem(c, i, title, p, t)
BY DEF Shared!jsonColumn, jsonColumn, Shared!jsonItem, jsonItem

\* After an insert: the id that the connection remembers by then.
LEMMA RowidIsServed ==
  ASSUME TypeOK, SharedInv, NEW w \in Workers, Work(w), last_insert_rowid(w)
  PROVE  ServingOK(w)' /\ Step(w)
<1>1. PICK c : c = call[w]
  OBVIOUS
<1>2. PICK id : id = lastRowid
  OBVIOUS
<1>3. /\ pc[w] = "last_insert_rowid" /\ columns[w] = {} /\ items[w] = {} /\ call' = call
      /\ id \in Shared!NewIds(w) /\ UNCHANGED dbVars
  BY <1>2, Beginning DEF last_insert_rowid, ServingOK, NothingYet, IsEmpty
<1>4. SharedStage(w) = "written"
  BY <1>3 DEF SharedStage, Done
<1>5. CASE c.op = "postColumn"
  <2>1. /\ columns'[w] = {jsonColumn(id, c.text, c.position)} /\ items' = items
        /\ pc'[w] = "reply"
    BY <1>1, <1>2, <1>5, Beginning DEF last_insert_rowid, Goto
  <2>2. PICK a : a = [columns |-> {jsonColumn(id, c.text, c.position)}, items |-> {}]
    OBVIOUS
  <2>3. a = Collected(w)'
    BY <1>3, <2>1, <2>2 DEF Collected
  <2>4. Shared!Acknowledges(w, c, a)
    BY <1>3, <1>5, <2>2, SameJson DEF Shared!Acknowledges
  <2> QED
    BY <1>1, <1>3, <1>4, <2>1, <2>3, <2>4, WriteAnswers
<1>6. CASE c.op = "postItem"
  <2>1. /\ items'[w] = {jsonItem(c.column, id, c.text, c.position, 0)} /\ columns' = columns
        /\ pc'[w] = "timestamp"
    BY <1>1, <1>2, <1>6, Beginning DEF last_insert_rowid, Goto
  <2>2. SharedStage(w)' = "written"
    BY <2>1 DEF SharedStage, Done
  <2>3. ever' = ever
    BY <1>3, Beginning, NothingToSee
  <2>4. id \in Shared!NewIds(w)'
    BY <1>3, <2>3 DEF Shared!NewIds, dbVars
  <2>5. ServingOK(w)'
    BY <1>1, <1>3, <2>1, <2>4 DEF ServingOK, NothingYet
  <2> QED
    BY <1>3, <1>4, <2>2, <2>5, WriteGoesOn
<1> QED
  BY <1>1, <1>5, <1>6 DEF last_insert_rowid

\* The stamp of the answer is what the buffer holds by then.
LEMMA TimestampIsServed ==
  ASSUME TypeOK, SharedInv, NEW w \in Workers, Work(w), timestamp(w)
  PROVE  ServingOK(w)' /\ Step(w)
<1>1. PICK c : c = call[w]
  OBVIOUS
<1>2. /\ pc[w] = "timestamp" /\ c.op = "postItem" /\ columns[w] = {} /\ ProcessOK
      /\ UNCHANGED dbVars /\ columns' = columns /\ pc'[w] = "reply"
      /\ items'[w] = {[x EXCEPT !.timestamp = ctimeBuf] : x \in items[w]}
  BY <1>1, Beginning DEF timestamp, IsAt, ServingOK, Goto, Stamp
<1>3. PICK id \in Shared!NewIds(w) :
        items[w] = {jsonItem(c.column, id, c.text, c.position, 0)}
  BY <1>1, <1>2, Beginning DEF ServingOK
<1>4. items'[w] = {jsonItem(c.column, id, c.text, c.position, ctimeBuf)}
  BY <1>2, <1>3 DEF jsonItem
<1>5. PICK date \in Dates : date = ctimeBuf
  BY <1>2, NewlineAssumption DEF ProcessOK
<1>6. PICK a : a = [columns |-> {}, items |-> {jsonItem(c.column, id, c.text, c.position, date)}]
  OBVIOUS
<1>7. a = Collected(w)'
  BY <1>2, <1>4, <1>5, <1>6 DEF Collected
<1>8. Shared!Acknowledges(w, c, a)
  BY <1>2, <1>6, SameJson, SameBoards DEF Shared!Acknowledges
<1>9. SharedStage(w) = "written"
  BY <1>2 DEF SharedStage, Done
<1> QED
  BY <1>1, <1>2, <1>7, <1>8, <1>9, WriteAnswers

\* After the update of a column: its items are read, or nothing is shown.
LEMMA ChangesOfColumnIsServed ==
  ASSUME TypeOK, SharedInv, NEW w \in Workers, Work(w), changesOfColumn(w)
  PROVE  ServingOK(w)' /\ Step(w)
<1>1. PICK c : c = call[w]
  OBVIOUS
<1>2. /\ pc[w] = "changes" /\ c.op = "putColumn" /\ columns[w] = {} /\ items[w] = {}
      /\ UNCHANGED dbVars /\ items' = items /\ call' = call
  BY <1>1, Beginning DEF changesOfColumn, ServingOK, IsEmpty
<1>3. SharedStage(w) = "written"
  BY <1>2 DEF SharedStage, Done
<1>4. CASE Matched
  <2>1. /\ columns'[w] = {jsonColumn(c.column, c.text, c.position)} /\ todo'[w] = {c.column}
        /\ pc'[w] = "getItems"
    BY <1>1, <1>4, Beginning DEF changesOfColumn, Goto
  <2>2. SharedStage(w)' = "written"
    BY <1>1, <1>2, <2>1 DEF SharedStage, Done
  <2>3. ServingOK(w)'
    BY <1>1, <1>2, <2>1 DEF ServingOK, NothingYet
  <2> QED
    BY <1>2, <1>3, <2>2, <2>3, WriteGoesOn
<1>5. CASE ~Matched
  <2>1. columns' = columns /\ pc'[w] = "reply"
    BY <1>5, Beginning DEF changesOfColumn, Goto
  <2>2. Nothing = Collected(w)'
    BY <1>2, <2>1 DEF Collected, Nothing
  <2>3. Shared!Acknowledges(w, c, Nothing)
    BY <1>2, SameBoards DEF Shared!Acknowledges
  <2> QED
    BY <1>1, <1>2, <1>3, <2>1, <2>2, <2>3, WriteAnswers
<1> QED
  BY <1>4, <1>5

\* After the update of an item: the row that was read, with the values of the
\* request, or nothing.
LEMMA ChangesOfItemIsServed ==
  ASSUME TypeOK, SharedInv, NEW w \in Workers, Work(w), changesOfItem(w)
  PROVE  ServingOK(w)' /\ Step(w)
<1>1. PICK c : c = call[w]
  OBVIOUS
<1>2. /\ pc[w] = "changes" /\ c.op = "putItem" /\ columns[w] = {} /\ pc'[w] = "reply"
      /\ UNCHANGED dbVars /\ columns' = columns
      /\ items'[w] = {jsonItem(c.column, c.item, c.text, c.position, x.timestamp) :
                        x \in IF Matched THEN items[w] ELSE {}}
  BY <1>1, Beginning DEF changesOfItem, ServingOK, Goto
<1>3. PICK x \in ever[w].items : x.column = c.column /\ x.id = c.item /\ items[w] = {x}
  BY <1>1, <1>2, Beginning DEF ServingOK
<1>4. PICK a : a = Collected(w)'
  OBVIOUS
<1>5. CASE Matched
  <2>1. items'[w] = {jsonItem(c.column, c.item, c.text, c.position, x.timestamp)}
    BY <1>2, <1>3, <1>5
  <2>2. a = [columns |-> {},
             items |-> {jsonItem(c.column, c.item, c.text, c.position, x.timestamp)}]
    BY <1>2, <1>4, <2>1 DEF Collected
  <2> QED
    <3>1. Shared!Acknowledges(w, c, a)
      BY <1>2, <1>3, <2>2, SameJson, SameBoards DEF Shared!Acknowledges
    <3>2. SharedStage(w) = "written"
      BY <1>2 DEF SharedStage, Done
    <3> QED
      BY <1>1, <1>2, <1>4, <3>1, <3>2, WriteAnswers
<1>6. CASE ~Matched
  <2>1. a = Nothing
    BY <1>2, <1>4, <1>6 DEF Collected, Nothing
  <2>2. Shared!Acknowledges(w, c, a)
    BY <1>2, <2>1, SameBoards DEF Shared!Acknowledges
  <2>3. SharedStage(w) = "written"
    BY <1>2 DEF SharedStage, Done
  <2> QED
    BY <1>1, <1>2, <1>4, <2>2, <2>3, WriteAnswers
<1> QED
  BY <1>5, <1>6

-----------------------------------------------------------------------------
\* A step of a worker is one of SharedApi's or none, whatever the others do.
LEMMA WorkIsServed ==
  ASSUME TypeOK, ReadingOK, SharedInv, NEW w \in Workers, Work(w)
  PROVE  SharedInv' /\ Step(w)
<1>1. FileOK /\ ProcessOK /\ Observed /\ RepositoryStep(w) /\ [DatabaseNext]_dbVars
  BY Beginning
<1>2. ServingOK(w)' /\ Step(w)
  <2>1. CASE getColumns(w) \/ getColumn(w) \/ getItems(w) \/ selectItem(w)
    BY <2>1, GetColumnsIsServed, GetColumnIsServed, GetItemsIsServed, SelectItemIsServed
  <2>2. CASE postColumn(w) \/ putColumn(w) \/ deleteColumn(w) \/ putItem(w) \/ deleteItem(w)
    BY <2>2, PostColumnIsServed, PutColumnIsServed, DeleteIsServed, PutItemIsServed
  <2>3. CASE ctime(w) \/ strlen(w) \/ truncate(w) \/ measure(w) \/ copy(w) \/ insertItem(w)
    BY <2>3, StampIsServed, InsertItemIsServed
  <2>4. CASE last_insert_rowid(w) \/ timestamp(w) \/ changesOfColumn(w) \/ changesOfItem(w)
    BY <2>4, RowidIsServed, TimestampIsServed, ChangesOfColumnIsServed, ChangesOfItemIsServed
  <2> QED
    BY <1>1, <2>1, <2>2, <2>3, <2>4 DEF RepositoryStep
<1>3. \A v \in Workers \ {w} : ServingOK(v)'
  BY <1>1, OthersAreServed DEF SharedInv
<1>4. ASSUME NEW v \in Workers PROVE SeenOK(v)'
  <2>1. CASE pc[v] = "idle"
    <3>1. pc[w] # "idle"
      BY <1>1 DEF RepositoryStep, getColumns, getColumn, getItems, selectItem, postColumn,
         putColumn, deleteColumn, putItem, deleteItem, ctime, strlen, truncate, measure, copy,
         insertItem, last_insert_rowid, timestamp, changesOfColumn, changesOfItem
    <3>2. pc'[v] = "idle"
      BY <1>1, <2>1, <3>1, OthersStay
    <3> QED
      BY <3>2 DEF SeenOK
  <2>2. CASE pc[v] # "idle"
    BY <1>1, <2>2, WorkSees DEF SeenOK, Shared!Within, Stored
  <2> QED
    BY <2>1, <2>2
<1>5. tables \subseteq tables' /\ tables' \subseteq TableNames
  <2>1. FileOK'
    BY <1>1, NextOK
  <2>2. tables \subseteq tables'
    BY <1>1 DEF dbVars, DatabaseNext, CreateTables, InsertColumn, UpdateColumn, DeleteColumn,
       InsertItem, UpdateItem, DeleteItem
  <2> QED
    BY <2>1, <2>2 DEF FileOK
<1>6. up /\ up' = up
  BY DEF Work
<1> QED
  BY <1>2, <1>3, <1>4, <1>5, <1>6 DEF SharedInv

\* A step that leaves a worker and the file alone.
LEMMA Unconcerned ==
  ASSUME SharedInv, UNCHANGED <<dbVars, connVars>>, NEW v \in Workers,
         call'[v] = call[v], pc'[v] = pc[v], todo'[v] = todo[v], columns'[v] = columns[v],
         items'[v] = items[v], ever'[v] = ever[v], always'[v] = always[v]
  PROVE  ServingOK(v)' /\ SeenOK(v)'
<1>1. ServingOK(v) /\ SeenOK(v)
  BY DEF SharedInv
<1>2. Stored' = Stored /\ Shared!NewIds(v)' = Shared!NewIds(v) /\ lastRowid' = lastRowid
  BY DEF dbVars, connVars, Stored, StoredColumns, StoredItems, ColumnJson, ItemJson, Shared!NewIds
<1>3. SeenOK(v)'
  BY <1>1, <1>2 DEF SeenOK, Shared!Within
<1>4. LoopOK(v) => LoopOK(v)'
  BY LoopKeeps DEF LoopOK, Collected
<1>5. ServingOK(v)'
  BY <1>1, <1>2, <1>4 DEF ServingOK, IsEmpty
<1> QED
  BY <1>3, <1>5

\* A request is asked, and its observer begins with what is stored.
LEMMA ReceiveIsServed ==
  ASSUME TypeOK, SharedInv, NEW w \in Workers, NEW r \in Requests, Receive(w, r)
  PROVE  SharedInv' /\ Shared!Ask(w) /\ Shared!WatchFrom(w, Shared!Stored, Shared!Stored)
<1>1. FileOK /\ ProcessOK /\ Observed
  BY TypeOKParts, FileOKIsDatabaseInv
<1>2. PICK c \in CallsOf(r) :
        /\ call' = [call EXCEPT ![w] = c] /\ pc' = [pc EXCEPT ![w] = EntryOf(c.op)]
        /\ todo' = [todo EXCEPT ![w] = IF c.op = "getItems" THEN {c.column} ELSE {}]
  BY DEF Receive, Goto
<1>3. /\ up /\ up' = up /\ pc[w] = "idle" /\ columns' = columns /\ items' = items
      /\ UNCHANGED <<dbVars, connVars>> /\ columns[w] = {} /\ items[w] = {}
      /\ ever' = [ever EXCEPT ![w] = Stored] /\ always' = [always EXCEPT ![w] = Stored]
  BY DEF Receive, SharedInv, ServingOK, NothingYet, IsEmpty
<1>4. /\ pc'[w] = EntryOf(c.op) /\ call'[w] = c /\ c.op \in Ops \cup {"none"}
      /\ todo'[w] = IF c.op = "getItems" THEN {c.column} ELSE {}
      /\ ever'[w] = Stored /\ always'[w] = Stored
  BY <1>1, <1>2, <1>3, CallsAreTyped DEF ProcessOK, Observed, Calls
<1>5. /\ c.op = "none" => pc'[w] = "reply"
      /\ c.op = "getItems" => pc'[w] = "getItems"
      /\ c.op \notin {"none", "getItems"} =>
           pc'[w] \in {"getColumns", "selectItem", "ctime", "postColumn", "putColumn",
                       "putItem", "getColumn", "deleteColumn", "deleteItem"}
  BY <1>4 DEF EntryOf, Ops, ColumnWrites, ItemWrites
<1>6. /\ SharedStage(w) = "idle" /\ SharedAnswer(w) = Nothing /\ SharedAnswer(w)' = Nothing
      /\ SharedStage(w)' = IF c.op = "none" THEN "done" ELSE "asked"
  <2>1. pc'[w] = "selectItem" => c.op = "getItem"
    BY <1>4 DEF EntryOf, Ops, ColumnWrites, ItemWrites
  <2> QED
    BY <1>3, <1>4, <1>5, <2>1 DEF SharedStage, SharedAnswer, Done, Nothing
<1>7. \A v \in Workers \ {w} :
        /\ call'[v] = call[v] /\ pc'[v] = pc[v] /\ todo'[v] = todo[v]
        /\ ever'[v] = ever[v] /\ always'[v] = always[v]
  BY <1>1, <1>2, <1>3 DEF ProcessOK, Observed
<1>8. ServingOK(w)' /\ SeenOK(w)'
  <2>1. ServingOK(w)'
    BY <1>3, <1>4, <1>5 DEF ServingOK, NothingYet, IsEmpty
  <2>2. Stored' = Stored
    BY <1>3 DEF dbVars, Stored, StoredColumns, StoredItems, ColumnJson, ItemJson
  <2>3. Shared!Within(Stored, ever[w])' /\ Shared!Within(always[w], Stored)'
    BY <1>4, <2>2 DEF Shared!Within
  <2> QED
    BY <2>1, <2>3 DEF SeenOK
<1>9. ASSUME NEW v \in Workers \ {w} PROVE ServingOK(v)' /\ SeenOK(v)'
  BY <1>3, <1>7, Unconcerned
<1>10. SharedInv'
  BY <1>3, <1>8, <1>9 DEF SharedInv, dbVars
<1>11. Shared!Ask(w)
  <2>1. c \in Shared!CallsOf(r)
    BY SameCalls
  <2>2. \A v \in Workers \ {w} :
          SharedStage(v)' = SharedStage(v) /\ SharedAnswer(v)' = SharedAnswer(v)
    BY <1>3, <1>7 DEF SharedStage, SharedAnswer, Done
  <2>3. /\ [v \in Workers |-> SharedStage(v)]'
             = [[v \in Workers |-> SharedStage(v)] EXCEPT
                  ![w] = IF c.op = "none" THEN "done" ELSE "asked"]
        /\ [v \in Workers |-> SharedAnswer(v)]' = [v \in Workers |-> SharedAnswer(v)]
        /\ [v \in Workers |-> SharedStage(v)][w] = "idle"
    BY <1>6, <2>2
  <2>4. UNCHANGED Shared!dbVars
    BY <1>3 DEF Shared!dbVars, dbVars
  <2> QED
    BY <1>2, <2>1, <2>3, <2>4 DEF Shared!Ask
<1> QED
  BY <1>3, <1>10, <1>11, SameBoards DEF Shared!WatchFrom

\* An answer is sent as it was settled.
LEMMA ReplyIsServed ==
  ASSUME TypeOK, SharedInv, NEW w \in Workers, Reply(w)
  PROVE  SharedInv' /\ Shared!Respond(w) /\ Shared!WatchFrom(w, Shared!Nothing, Shared!Nothing)
<1>1. ProcessOK /\ Observed
  BY TypeOKParts
<1>2. /\ up /\ up' = up /\ pc[w] = "reply" /\ pc'[w] = "idle" /\ UNCHANGED <<dbVars, connVars>>
      /\ columns'[w] = {} /\ items'[w] = {} /\ call' = [call EXCEPT ![w] = NoCall]
      /\ ever' = [ever EXCEPT ![w] = Nothing] /\ always' = [always EXCEPT ![w] = Nothing]
  BY <1>1 DEF Reply, Goto, Cleared, ProcessOK
<1>3. \A v \in Workers \ {w} :
        /\ call'[v] = call[v] /\ pc'[v] = pc[v] /\ todo'[v] = todo[v]
        /\ columns'[v] = columns[v] /\ items'[v] = items[v]
        /\ ever'[v] = ever[v] /\ always'[v] = always[v]
  BY <1>1 DEF Reply, Goto, Cleared, ProcessOK, Observed
<1>4. SharedStage(w) = "done" /\ SharedStage(w)' = "idle" /\ SharedAnswer(w)' = Nothing
  BY <1>2 DEF SharedStage, SharedAnswer
<1>5. ServingOK(w)' /\ SeenOK(w)'
  BY <1>2 DEF ServingOK, SeenOK, NothingYet, IsEmpty
<1>6. ASSUME NEW v \in Workers \ {w} PROVE ServingOK(v)' /\ SeenOK(v)'
  BY <1>2, <1>3, Unconcerned
<1>7. SharedInv'
  BY <1>2, <1>5, <1>6 DEF SharedInv, dbVars
<1>8. Shared!Respond(w)
  <2>1. \A v \in Workers \ {w} :
          SharedStage(v)' = SharedStage(v) /\ SharedAnswer(v)' = SharedAnswer(v)
    BY <1>3 DEF SharedStage, SharedAnswer, Done
  <2>2. /\ [v \in Workers |-> SharedStage(v)]' = [[v \in Workers |-> SharedStage(v)] EXCEPT ![w] = "idle"]
        /\ [v \in Workers |-> SharedAnswer(v)]' = [[v \in Workers |-> SharedAnswer(v)] EXCEPT ![w] = Nothing]
        /\ [v \in Workers |-> SharedStage(v)][w] = "done"
    BY <1>4, <2>1
  <2> QED
    BY <1>2, <2>2, SameBoards DEF Shared!Respond, Shared!dbVars, dbVars, Shared!NoCall, NoCall
<1> QED
  BY <1>2, <1>7, <1>8, SameBoards DEF Shared!WatchFrom

\* The process dies, and with it every request.
LEMMA CrashIsServed ==
  ASSUME Crash
  PROVE  /\ SharedInv' /\ Shared!Die
         /\ ever' = [w \in Workers |-> Shared!Nothing]
         /\ always' = [w \in Workers |-> Shared!Nothing]
<1>1. /\ up' = FALSE /\ UNCHANGED dbVars /\ call' = [w \in Workers |-> NoCall]
      /\ \A w \in Workers : pc'[w] = "idle" /\ columns'[w] = {} /\ items'[w] = {}
      /\ ever' = [w \in Workers |-> Nothing] /\ always' = [w \in Workers |-> Nothing]
  BY DEF Crash, PerWorker
<1>2. \A w \in Workers : SharedStage(w)' = "idle" /\ SharedAnswer(w)' = Nothing
  BY <1>1 DEF SharedStage, SharedAnswer
<1>3. SharedInv'
  BY <1>1 DEF SharedInv, ServingOK, SeenOK, NothingYet, IsEmpty
<1>4. /\ [w \in Workers |-> SharedStage(w)]' = [w \in Workers |-> "idle"]
      /\ [w \in Workers |-> SharedAnswer(w)]' = [w \in Workers |-> Nothing]
  BY <1>2
<1>5. Shared!Die
  BY <1>1, <1>4, SameBoards DEF Shared!Die, Shared!dbVars, dbVars, Shared!NoCall, NoCall
<1> QED
  BY <1>1, <1>3, <1>5, SameBoards

\* The start creates what tables it can; nobody is served yet.
LEMMA StartIsServed ==
  ASSUME TypeOK, SharedInv, Start
  PROVE  SharedInv' /\ Shared!Open /\ UNCHANGED <<ever, always>>
<1>1. PICK T \in SUBSET TableNames : (~Faults => T = TableNames) /\ CreateTables(T)
  BY DEF Start
<1>2. /\ pc' = pc /\ call' = call /\ columns' = columns /\ items' = items
      /\ up' /\ UNCHANGED <<ever, always>> /\ \A w \in Workers : pc[w] = "idle"
  BY DEF Start, SharedInv, repoVars, obsVars
<1>3. ~Faults => tables' = TableNames
  BY <1>1, TypeOKParts, FileOKIsDatabaseInv DEF CreateTables, FileOK
<1>4. SharedInv'
  BY <1>2, <1>3 DEF SharedInv, ServingOK, SeenOK, NothingYet, IsEmpty
<1>5. /\ [w \in Workers |-> SharedStage(w)]' = [w \in Workers |-> SharedStage(w)]
      /\ [w \in Workers |-> SharedAnswer(w)]' = [w \in Workers |-> SharedAnswer(w)]
  BY <1>2 DEF SharedStage, SharedAnswer
<1>6. Shared!Open
  BY <1>1, <1>2, <1>5 DEF Shared!Open, Shared!TableNames, TableNames, Shared!CreateTables, CreateTables
<1> QED
  BY <1>2, <1>4, <1>6

\* When nothing happens, nothing happens in SharedApi.
LEMMA StillIsServed ==
  ASSUME SharedInv, UNCHANGED vars
  PROVE  SharedInv' /\ UNCHANGED Shared!sharedVars
<1> USE DEF vars, dbVars, connVars, repoVars, obsVars
<1>1. ASSUME NEW v \in Workers PROVE ServingOK(v)' /\ SeenOK(v)'
  BY Unconcerned
<1>2. SharedInv'
  BY <1>1 DEF SharedInv
<1>3. /\ [w \in Workers |-> SharedStage(w)]' = [w \in Workers |-> SharedStage(w)]
      /\ [w \in Workers |-> SharedAnswer(w)]' = [w \in Workers |-> SharedAnswer(w)]
  BY DEF SharedStage, SharedAnswer, Done
<1> QED
  BY <1>2, <1>3 DEF Shared!sharedVars, Shared!apiVars, Shared!dbVars

\* Every step of the service is a step of SharedApi or none.
LEMMA NextIsServed ==
  TypeOK /\ ReadingOK /\ SharedInv /\ [Next]_vars
    => SharedInv' /\ [Shared!SharedNext]_Shared!sharedVars
<1> SUFFICES ASSUME TypeOK, ReadingOK, SharedInv, [Next]_vars
             PROVE  SharedInv' /\ [Shared!SharedNext]_Shared!sharedVars
  OBVIOUS
<1>1. CASE Start
  BY <1>1, StartIsServed DEF Shared!SharedNext
<1>2. CASE Crash
  BY <1>2, CrashIsServed DEF Shared!SharedNext
<1>3. ASSUME NEW w \in Workers, Work(w)
      PROVE  SharedInv' /\ [Shared!SharedNext]_Shared!sharedVars
  BY <1>3, WorkIsServed DEF Step, Shared!SharedNext
<1>4. ASSUME NEW w \in Workers, Reply(w)
      PROVE  SharedInv' /\ [Shared!SharedNext]_Shared!sharedVars
  BY <1>4, ReplyIsServed DEF Shared!SharedNext
<1>5. ASSUME NEW w \in Workers, NEW r \in Requests, Receive(w, r)
      PROVE  SharedInv' /\ [Shared!SharedNext]_Shared!sharedVars
  BY <1>5, ReceiveIsServed DEF Shared!SharedNext
<1>6. CASE UNCHANGED vars
  BY <1>6, StillIsServed
<1> QED
  BY <1>1, <1>2, <1>3, <1>4, <1>5, <1>6 DEF Next

\* The service starts as SharedApi does, on any file that was left behind.
LEMMA InitIsServed == Init => SharedInv /\ Shared!SharedInit
<1> SUFFICES ASSUME Init PROVE SharedInv /\ Shared!SharedInit
  OBVIOUS
<1>1. /\ up = FALSE /\ DatabaseInit /\ call = [w \in Workers |-> NoCall]
      /\ \A w \in Workers : pc[w] = "idle" /\ columns[w] = {} /\ items[w] = {}
      /\ ever = [w \in Workers |-> Nothing] /\ always = [w \in Workers |-> Nothing]
  BY DEF Init, PerWorker
<1>2. /\ [w \in Workers |-> SharedStage(w)] = [w \in Workers |-> "idle"]
      /\ [w \in Workers |-> SharedAnswer(w)] = [w \in Workers |-> Nothing]
  BY <1>1 DEF SharedStage, SharedAnswer
<1>3. SharedInv
  BY <1>1 DEF SharedInv, ServingOK, SeenOK, NothingYet, IsEmpty
<1>4. Shared!SharedInit
  BY <1>1, <1>2, SameBoards DEF Shared!SharedInit, Shared!ApiInit, Shared!DatabaseInit,
     DatabaseInit, Shared!NoCall, NoCall
<1> QED
  BY <1>3, <1>4

\* With any number of threads, any faults and any crashes, requests are served
\* as SharedApi says: each changes the file at most once, by its own statement,
\* and shows what lasted and nothing that never was (BoardManager.cpp and
\* BoardRepository.cpp as a whole).
THEOREM ThreadsServeConcurrently == Spec => ServesConcurrently
BY InitTypes, NextTypes, InitReading, NextKeepsReading, InitIsServed, NextIsServed, PTL
   DEF Spec, ServesConcurrently, Shared!SharedSpec
=============================================================================
