---------------------------- MODULE BoardService ----------------------------
(***************************************************************************)
(* The process: Service.cpp starts the repository, which opens the file    *)
(* and creates the tables, and then a server with several threads.  Each   *)
(* thread takes one request at a time, runs its handler to the end and     *)
(* writes the answer.  The process may die at any moment; the file stays.  *)
(***************************************************************************)
EXTENDS BoardRepository, FiniteSets

CONSTANTS
  Requests,    \* the requests that clients send
  Crashes,     \* whether the process may be killed: BOOLEAN
  MaxInserts   \* bound: no POST is taken that could bring the rows ever
               \* inserted above it

ASSUME CrashesAssumption == Crashes \in BOOLEAN
ASSUME MaxInsertsAssumption == MaxInserts \in Nat

Calls == [op : Ops \cup {"none"}, column : Int, item : Int,
          text : Text \cup {NoText}, position : Int]

\* Its ids are ints and, where the call takes them, its text and position are
\* those of a body.
IsCall(c) ==
  /\ c.op \in Ops => c.column \in Ids /\ c.item \in Ids
  /\ c.op \in ColumnWrites \cup ItemWrites => c.text \in Text /\ c.position \in Positions

\* An id of a link is a number, which the handlers take as an int; a member of
\* a body has the type that rapidjson says it has.
ASSUME RequestsAssumption ==
  /\ -IntHalf .. IntHalf - 1 \subseteq Ids
  /\ \A r \in Requests :
       /\ r.column \in Int /\ r.item \in Int
       /\ r.body.name.type = "String" => r.body.name.data \in Text
       /\ r.body.title.type = "String" => r.body.title.data \in Text
       /\ r.body.position.type = "Int" => r.body.position.data \in Positions

VARIABLE up        \* whether the process runs

(***************************************************************************)
(* What an observer who sees every step would note, for each worker, about *)
(* the request it works on.  No action of the code reads these.            *)
(***************************************************************************)
VARIABLES
  ever,     \* the columns and items stored at some moment of the request
  always,   \* those stored, unchanged, at every moment of it
  raced     \* whether another worker wrote during it

obsVars == <<ever, always, raced>>
vars == <<dbVars, connVars, repoVars, up, obsVars>>

\* The steps of one worker that another can tell: writes to the file, and to
\* the counters of the connection and the buffer of ctime on the way.
Disturbing ==
  {"postColumn", "putColumn", "deleteColumn", "putItem", "deleteItem",
   "insertItem", "ctime", "truncate"}

Observe(w) ==
  /\ ever' = [v \in Workers |->
                IF pc[v] = "idle" THEN ever[v] ELSE Union(ever[v], Stored')]
  /\ always' = [v \in Workers |->
                  IF pc[v] = "idle" THEN always[v] ELSE Common(always[v], Stored')]
  /\ raced' = [v \in Workers |->
                 raced[v] \/ (v # w /\ pc[v] # "idle" /\ pc[w] \in Disturbing)]

-----------------------------------------------------------------------------
PerWorker(value) == [w \in Workers |-> value]

Init ==
  /\ DatabaseInit /\ ConnectionInit
  /\ up = FALSE /\ ctimeBuf = 0
  /\ pc = PerWorker("idle") /\ call = PerWorker(NoCall)
  /\ columns = PerWorker({}) /\ items = PerWorker({}) /\ todo = PerWorker({})
  /\ length = PerWorker(0)
  /\ ever = PerWorker(Nothing) /\ always = PerWorker(Nothing)
  /\ raced = PerWorker(FALSE)

\* A mistake: the rows are deleted first, as for createDummyData.
StartAnew ==
  /\ ~up /\ up' = TRUE /\ tables' = TableNames
  /\ column' = Restrict(column, {}) /\ item' = Restrict(item, {})
  /\ UNCHANGED <<columnSeq, itemSeq, connVars, repoVars, obsVars>>

\* main and BoardRepository::initialize: an error of a "create table" is
\* logged and the server starts without the table.
Start ==
  /\ ~up /\ up' = TRUE
  /\ \E T \in SUBSET TableNames :
       /\ ~Faults => T = TableNames
       /\ CreateTables(T)
  /\ UNCHANGED <<connVars, repoVars, obsVars>>

Posting == {w \in Workers : call[w].op \in PostOps /\ pc[w] # "idle"}
RoomFor(op) ==
  op \in PostOps => columnSeq + itemSeq + Cardinality(Posting) < MaxInserts

\* A free thread takes a request: the route and the parser decide the call.
Receive(w, r) ==
  /\ up /\ pc[w] = "idle"
  /\ \E c \in CallsOf(r) :
       /\ RoomFor(c.op)
       /\ call' = [call EXCEPT ![w] = c]
       /\ Goto(w, EntryOf(c.op))
       /\ todo' = [todo EXCEPT ![w] = IF c.op = "getItems" THEN {c.column} ELSE {}]
  /\ ever' = [ever EXCEPT ![w] = Stored]
  /\ always' = [always EXCEPT ![w] = Stored]
  /\ UNCHANGED <<dbVars, connVars, ctimeBuf, columns, items, length, up, raced>>

Work(w) ==
  /\ up /\ RepositoryStep(w)
  /\ Observe(w)
  /\ UNCHANGED up

Kept(f, w)    == f \* a mistake: a result that outlives the request
Cleared(f, w) == [f EXCEPT ![w] = {}]

\* res.end(): the answer is sent and the thread is free.
Reply(w) ==
  /\ up /\ pc[w] = "reply"
  /\ Goto(w, "idle")
  /\ call' = [call EXCEPT ![w] = NoCall]
  /\ columns' = Cleared(columns, w) /\ items' = Cleared(items, w) /\ todo' = Cleared(todo, w)
  /\ length' = [length EXCEPT ![w] = 0]
  /\ ever' = [ever EXCEPT ![w] = Nothing]
  /\ always' = [always EXCEPT ![w] = Nothing]
  /\ raced' = [raced EXCEPT ![w] = FALSE]
  /\ UNCHANGED <<dbVars, connVars, ctimeBuf, up>>

\* The process is killed, or a body of undefined behaviour kills it.  A
\* statement that had returned is in the file.
Crash ==
  /\ up
  /\ \/ Crashes
     \/ \E w \in Workers, r \in Requests : pc[w] = "idle" /\ MayKill(r)
  /\ up' = FALSE /\ ctimeBuf' = 0
  /\ lastRowid' = 0 /\ changes' = 0
  /\ pc' = PerWorker("idle") /\ call' = PerWorker(NoCall)
  /\ columns' = PerWorker({}) /\ items' = PerWorker({}) /\ todo' = PerWorker({})
  /\ length' = PerWorker(0)
  /\ ever' = PerWorker(Nothing) /\ always' = PerWorker(Nothing)
  /\ raced' = PerWorker(FALSE)
  /\ UNCHANGED dbVars

Next ==
  \/ Start \/ Crash
  \/ \E w \in Workers :
       Work(w) \/ Reply(w) \/ \E r \in Requests : Receive(w, r)

\* The operating system runs every thread; no step waits for another thread
\* (SQLite releases its mutex at the end of every call).
Fairness == \A w \in Workers : WF_vars(Work(w) \/ Reply(w))

Spec == Init /\ [][Next]_vars
FairSpec == Spec /\ Fairness

-----------------------------------------------------------------------------
Steps ==
  {"idle", "reply", "getColumns", "getColumn", "getItems", "selectItem",
   "postColumn", "putColumn", "deleteColumn", "putItem", "deleteItem", "insertItem",
   "ctime", "strlen", "truncate", "measure", "copy", "last_insert_rowid", "timestamp",
   "changes"}

\* The calls that come by a step.
IsAt(step, op) ==
  \/ step = "idle" /\ op = "none"
  \/ step = "reply"
  \/ step = "getColumns" /\ op \in {"getBoard", "getColumns"}
  \/ step = "getItems" /\ op \in {"getBoard", "getColumns", "getColumn", "putColumn", "getItems"}
  \/ step = "selectItem" /\ op \in {"getItem", "putItem"}
  \/ step = "changes" /\ op \in {"putColumn", "putItem"}
  \/ step = "last_insert_rowid" /\ op \in PostOps
  \/ /\ step \in {"ctime", "strlen", "truncate", "measure", "copy", "insertItem", "timestamp"}
     /\ op = "postItem"
  \/ /\ step \in {"getColumn", "postColumn", "putColumn", "deleteColumn", "putItem", "deleteItem"}
     /\ op = step

TypeOK ==
  /\ DatabaseInv
  /\ lastRowid \in Nat /\ changes \in {0, 1}
  /\ ctimeBuf \in 0 .. Newline
  /\ pc \in [Workers -> Steps]
  /\ call \in [Workers -> Calls]
  /\ \A w \in Workers : IsCall(call[w]) /\ IsAt(pc[w], call[w].op)
  /\ todo \in [Workers -> SUBSET Int]
  /\ columns \in [Workers -> SUBSET ColumnJsons]
  /\ items \in [Workers -> SUBSET ItemJsons]
  /\ length \in [Workers -> {Torn} \cup 0 .. Newline]
  /\ up \in BOOLEAN
  /\ ever \in [Workers -> Boards] /\ always \in [Workers -> Boards]
  /\ raced \in [Workers -> BOOLEAN]

IsRead(w)  == call[w].op \in {"getBoard", "getColumns", "getColumn", "getItems", "getItem"}
IsWrite(w) == call[w].op \in ColumnWrites \cup ItemWrites
Answers(w) == pc[w] = "reply"
IsEmpty(w) == columns[w] = {} /\ items[w] = {}

\* A GET shows nothing that was not stored, just so and under that column, at
\* some moment of the request, whatever other requests did meanwhile and
\* whatever failed (the several selects of BoardRepository::getColumns and
\* getColumn share no transaction).
ReadsAreValid ==
  \A w \in Workers : IsRead(w) =>
    columns[w] \subseteq ever[w].columns /\ items[w] \subseteq ever[w].items

\* GET of the board or the columns leaves out no column that was there,
\* unchanged, all the time, and no such item of such a column.
ReadsMissNothing ==
  \A w \in Workers :
    Answers(w) /\ call[w].op \in {"getBoard", "getColumns"} /\ ~Faults =>
      /\ always[w].columns \subseteq columns[w]
      /\ {x \in always[w].items : \E c \in always[w].columns : c.id = x.column}
           \subseteq items[w]

\* No answer shows an item in two columns or in two states, although each
\* column of getColumns is read by a select of its own.
NoItemTwice ==
  \A w \in Workers : IsRead(w) =>
    \A x, y \in items[w] : x.id = y.id => x = y

\* Why NoItemTwice holds: a call begins with an empty result, what a worker
\* has read so far is of columns it will not read again, and no item it has
\* read can turn up in a column it has still to read.
ReadingOK ==
  \A w \in Workers :
    /\ pc[w] \in {"idle", "getColumns", "getColumn"} => IsEmpty(w)
    /\ IsRead(w) =>
         \A x \in items[w] :
           /\ pc[w] = "getItems" => x.column \notin todo[w]
           /\ x.id <= itemSeq
           /\ x.id \in DOMAIN item => item[x.id].column_id = x.column

\* A POST is answered with an object only if its row was stored: at some
\* moment of the request there was one with the values the answer shows.  The
\* id is another matter (BoardRepository.cpp:139 and 240).
PostedRowsWereStored ==
  \A w \in Workers : Answers(w) =>
    /\ call[w].op = "postColumn" =>
         \A x \in columns[w] : \E y \in ever[w].columns :
           y.name = x.name /\ y.position = x.position
    /\ call[w].op = "postItem" =>
         \A x \in items[w] : \E y \in ever[w].items :
           y.column = x.column /\ y.title = x.title /\ y.position = x.position

\* If no other worker wrote meanwhile, a POST or PUT that is answered with an
\* object is answered with what is stored now, id and time stamp included.
\* An update of an item that never ran may be acknowledged
\* (BoardRepository.cpp:257-268): it is left out.
AcknowledgedIsStored ==
  \A w \in Workers :
    /\ Answers(w) /\ IsWrite(w) /\ ~raced[w]
    /\ call[w].op = "putItem" => ~Faults /\ Compiles("item", call[w].text)
    => columns[w] \subseteq StoredColumns /\ items[w] \subseteq StoredItems

\* If no other worker wrote meanwhile, a POST or PUT that is answered "{}" has
\* changed nothing.  A PUT of an item may fail to read what it wrote.
EmptyAnswerChangedNothing ==
  \A w \in Workers :
    /\ Answers(w) /\ IsWrite(w) /\ ~raced[w] /\ IsEmpty(w)
    /\ call[w].op = "putItem" => ~Faults
    => ever[w] = Stored /\ always[w] = Stored

\* Every item is stored with the full text of ctime, less the newline.
StampsAreComplete == \A i \in DOMAIN item : item[i].date = Newline - 1

\* The steps of all handlers, each after those that may come before it.
Course ==
  <<"ctime", "strlen", "truncate", "measure", "copy", "postColumn", "insertItem",
    "last_insert_rowid", "timestamp", "putItem", "selectItem", "putColumn", "changes",
    "deleteColumn", "deleteItem", "getColumns", "getColumn", "getItems", "reply", "idle">>
Before(s, t) ==
  \E i, j \in 1 .. 20 : i < j /\ Course[i] = s /\ Course[j] = t

\* The request of w stays as it is, or comes nearer to its end.
ComesNearer(w) ==
  \/ UNCHANGED <<pc[w], call[w], todo[w], columns[w], items[w], length[w]>>
  \/ Before(pc[w], pc'[w])
  \/ pc'[w] = pc[w] /\ todo'[w] \subseteq todo[w] /\ todo'[w] # todo[w]

\* Whoever moves, a thread never goes back: each turn of the loop in
\* BoardRepository::getColumns is for one column less, and no other thread
\* gives it more to read.
NoneGoesBack    == \A w \in Workers : pc[w] = "idle" \/ ComesNearer(w)
RequestsAdvance == [][NoneGoesBack]_vars

\* Whatever a worker has begun, it ends (or the process does).
EveryRequestEnds == \A w \in Workers : pc[w] # "idle" ~> pc[w] = "idle"
=============================================================================
