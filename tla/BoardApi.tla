------------------------------ MODULE BoardApi ------------------------------
(***************************************************************************)
(* What a client may expect of the service when one request is served at   *)
(* a time: each request has its whole effect and its answer in one step,   *)
(* between being asked and being answered.  BoardService takes one step    *)
(* per statement, per look at a counter and per touch of ctime's buffer;   *)
(* ServiceApi states that with one thread they come to the same.           *)
(***************************************************************************)
EXTENDS BoardModel, BoardManager

CONSTANTS Workers, Requests, BreaksSql, Newline

VARIABLES
  stage,   \* of each thread: "idle", "asked" or "done"
  call,    \* what it was asked for
  answer   \* and what it will answer, once that is settled

apiVars == <<dbVars, stage, call, answer>>

ApiInit ==
  /\ DatabaseInit
  /\ stage = [w \in Workers |-> "idle"] /\ call = [w \in Workers |-> NoCall]
  /\ answer = [w \in Workers |-> Nothing]

-----------------------------------------------------------------------------
\* The columns S with the items that stand under them, and items alone.
Shown(S)  == [columns |-> {ColumnJson(i) : i \in S},
              items |-> UNION {ItemsUnder(i) : i \in S}]
Only(its) == [columns |-> {}, items |-> its]

Reads(c, a) ==
  /\ \/ c.op \in {"getBoard", "getColumns"} /\ a = Shown(DOMAIN column)
     \/ c.op = "getColumn" /\ a = Shown({c.column} \cap DOMAIN column)
     \/ c.op = "getItems" /\ a = Only(ItemsUnder(c.column))
     \/ c.op = "getItem" /\ a = Only({x \in ItemsUnder(c.column) : x.id = c.item})
  /\ UNCHANGED dbVars

\* A POST or PUT answers what is stored then; a new column without the items
\* that name its id already.
Writes(c, a) ==
  /\ c.text \notin BreaksSql
  /\ \/ /\ c.op = "postColumn" /\ InsertColumn(c.text, c.position)
        /\ a = [columns |-> {ColumnJson(columnSeq)'}, items |-> {}]
     \/ /\ c.op = "putColumn" /\ UpdateColumn(c.column, c.text, c.position)
        /\ a = Shown({c.column})'
     \/ /\ c.op = "postItem" /\ InsertItem(c.text, Newline - 1, c.position, c.column)
        /\ a = Only({ItemJson(c.column, itemSeq)'})
     \/ /\ c.op = "putItem" /\ UpdateItem(c.item, c.column, c.text, c.position)
        /\ a = Only({ItemJson(c.column, c.item)'})

Deletes(c, a) ==
  /\ \/ c.op = "deleteColumn" /\ DeleteColumn(c.column)
     \/ c.op = "deleteItem" /\ DeleteItem(c.item, c.column)
  /\ a = Nothing

\* A write that the file does not take is answered "{}".
Refusable(c) ==
  \/ c.op \in {"postColumn", "putColumn", "postItem", "putItem"} /\ c.text \in BreaksSql
  \/ c.op = "postColumn" /\ ColumnClash(0, c.position)
  \/ c.op \in {"putColumn", "deleteColumn"} /\ c.column \notin DOMAIN column
  \/ c.op = "putColumn" /\ ColumnClash(c.column, c.position)
  \/ c.op = "postItem" /\ ItemClash(0, c.column, c.position)
  \/ c.op \in {"putItem", "deleteItem"} /\ ~IsItemOf(c.item, c.column)
  \/ c.op = "putItem" /\ ItemClash(c.item, c.column, c.position)

Refuses(c, a) == Refusable(c) /\ a = Nothing /\ UNCHANGED dbVars

\* An item whose new title breaks the statement may be answered as if it had
\* been stored (BoardRepository.cpp:257-268).
Pretends(c, a) ==
  /\ c.op = "putItem" /\ c.text \in BreaksSql /\ IsItemOf(c.item, c.column)
  /\ a = Only({[ItemJson(c.column, c.item) EXCEPT !.title = c.text, !.position = c.position]})
  /\ UNCHANGED dbVars

-----------------------------------------------------------------------------
Open ==
  /\ \E T \in SUBSET TableNames : CreateTables(T)
  /\ UNCHANGED <<stage, call, answer>>

\* A request that asks nothing of the file has its empty answer at once.
Ask(w) ==
  /\ stage[w] = "idle"
  /\ \E r \in Requests : \E c \in CallsOf(r) :
       /\ call' = [call EXCEPT ![w] = c]
       /\ stage' = [stage EXCEPT ![w] = IF c.op = "none" THEN "done" ELSE "asked"]
  /\ UNCHANGED <<dbVars, answer>>

Perform(w) ==
  LET c == call[w]  a == answer'[w] IN
  /\ stage[w] = "asked" /\ stage' = [stage EXCEPT ![w] = "done"]
  /\ Reads(c, a) \/ Writes(c, a) \/ Deletes(c, a) \/ Refuses(c, a) \/ Pretends(c, a)
  /\ answer' = [answer EXCEPT ![w] = a]
  /\ UNCHANGED call

Respond(w) ==
  /\ stage[w] = "done" /\ stage' = [stage EXCEPT ![w] = "idle"]
  /\ call' = [call EXCEPT ![w] = NoCall]
  /\ answer' = [answer EXCEPT ![w] = Nothing]
  /\ UNCHANGED dbVars

\* The process dies: what was done stays, what was asked is forgotten.
Die ==
  /\ stage' = [w \in Workers |-> "idle"] /\ call' = [w \in Workers |-> NoCall]
  /\ answer' = [w \in Workers |-> Nothing]
  /\ UNCHANGED dbVars

ApiNext == Open \/ Die \/ \E w \in Workers : Ask(w) \/ Perform(w) \/ Respond(w)

ApiSpec == ApiInit /\ [][ApiNext]_apiVars
=============================================================================
