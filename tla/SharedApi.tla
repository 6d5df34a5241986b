----------------------------- MODULE SharedApi ------------------------------
(***************************************************************************)
(* What clients may expect of the service when several threads serve them  *)
(* at once, statements fail and the process dies: less than BoardApi says, *)
(* but what is left.  A request changes the file at most once, by its own  *)
(* statement and before it is answered; a POST that is acknowledged was    *)
(* stored; what is read lies between what was stored throughout and what   *)
(* was stored at some moment, and could be one board.  An answer is        *)
(* restricted here by what is true of it; BoardService is how it is found. *)
(***************************************************************************)
EXTENDS BoardApi

CONSTANT Faults

VARIABLES
  ever,    \* of each request, what was stored at some moment of it
  always   \* and what was stored, unchanged, at every moment of it

sharedVars == <<apiVars, ever, always>>

\* A stage "written" comes before "done" here: the statement of a POST or PUT
\* was run and its answer is not settled.
Advance(w, from, to) == stage[w] = from /\ stage' = [stage EXCEPT ![w] = to]

\* Every request that is on its way sees what is stored after the step.
Watch ==
  /\ ever' = [w \in Workers |->
                IF stage[w] = "idle" THEN ever[w] ELSE Union(ever[w], Stored')]
  /\ always' = [w \in Workers |->
                  IF stage[w] = "idle" THEN always[w] ELSE Common(always[w], Stored')]

WatchFrom(w, S, T) == ever' = [ever EXCEPT ![w] = S] /\ always' = [always EXCEPT ![w] = T]

SharedInit ==
  ApiInit /\ ever = [w \in Workers |-> Nothing] /\ always = [w \in Workers |-> Nothing]

-----------------------------------------------------------------------------
ReadOps == {"getBoard", "getColumns", "getColumn", "getItems", "getItem"}

Within(S, T) == S.columns \subseteq T.columns /\ S.items \subseteq T.items

\* What a read with call c wants of the board S.
Wanted(c, S) ==
  LET cols == {x \in S.columns : c.op = "getColumn" => x.id = c.column} IN
  IF c.op \in {"getBoard", "getColumns", "getColumn"}
    THEN [columns |-> cols, items |-> {x \in S.items : \E k \in cols : k.id = x.column}]
  ELSE Only({x \in S.items : x.column = c.column /\ (c.op = "getItem" => x.id = c.item)})

\* One object per id and per place, as in a board that the file could hold.
IsBoard(a) ==
  /\ \A x, y \in a.columns : x.id = y.id \/ x.position = y.position => x = y
  /\ \A x, y \in a.items :
       x.id = y.id \/ (x.column = y.column /\ x.position = y.position) => x = y

Regular(w, c, a) ==
  /\ a = Wanted(c, a) /\ IsBoard(a)
  /\ Within(a, ever[w])
  /\ ~Faults => Within(Wanted(c, always[w]), a)

\* The statement of a POST or PUT, and why a write may be without effect.
\* The text of ctime may hold a NUL that another thread has put there.
Statement(c) ==
  /\ c.text \notin BreaksSql
  /\ \/ c.op = "postColumn" /\ InsertColumn(c.text, c.position)
     \/ c.op = "putColumn" /\ UpdateColumn(c.column, c.text, c.position)
     \/ c.op = "postItem" /\ \E date \in Dates : InsertItem(c.text, date, c.position, c.column)
     \/ c.op = "putItem" /\ UpdateItem(c.item, c.column, c.text, c.position)

MayFail(c) == Refusable(c) \/ Faults \/ c.op = "postItem"

\* Ids that the connection may remember after an insert: that of a row seen
\* during the request, in either table, or of one that was never committed.
NewIds(w) ==
  {x.id : x \in ever[w].columns \cup ever[w].items} \cup
  (IF Faults THEN 1 .. columnSeq + 1 \cup 1 .. itemSeq + 1 ELSE {})

\* What a POST or PUT may be answered once its statement was run.
Acknowledges(w, c, a) ==
  \/ /\ c.op = "postColumn"
     /\ \E id \in NewIds(w) :
          a = [columns |-> {jsonColumn(id, c.text, c.position)}, items |-> {}]
  \/ /\ c.op = "postItem"
     /\ \E id \in NewIds(w), date \in Dates :
          a = Only({jsonItem(c.column, id, c.text, c.position, date)})
  \/ /\ c.op = "putColumn" /\ a.columns = {jsonColumn(c.column, c.text, c.position)}
     /\ Regular(w, [c EXCEPT !.op = "getItems"], Only(a.items))
  \/ /\ c.op = "putItem"
     /\ \E x \in ever[w].items :
          /\ x.column = c.column /\ x.id = c.item
          /\ a = Only({jsonItem(c.column, c.item, c.text, c.position, x.timestamp)})
  \/ c.op \in {"putColumn", "putItem"} /\ a = Nothing

-----------------------------------------------------------------------------
\* A read, a delete, or a write whose statement fails.
Serve(w) ==
  LET c == call[w]  a == answer'[w] IN
  /\ Advance(w, "asked", "done")
  /\ \/ c.op \in ReadOps /\ Regular(w, c, a) /\ UNCHANGED dbVars
     \/ Deletes(c, a)
     \/ c.op \notin ReadOps /\ MayFail(c) /\ a = Nothing /\ UNCHANGED dbVars
  /\ answer' = [answer EXCEPT ![w] = a]
  /\ UNCHANGED call /\ Watch

Write(w) ==
  /\ Advance(w, "asked", "written")
  /\ \/ Statement(call[w])
     \/ call[w].op \notin PostOps /\ MayFail(call[w]) /\ UNCHANGED dbVars
  /\ UNCHANGED <<call, answer>> /\ Watch

Acknowledge(w) ==
  /\ Advance(w, "written", "done")
  /\ Acknowledges(w, call[w], answer'[w])
  /\ answer' = [answer EXCEPT ![w] = answer'[w]]
  /\ UNCHANGED <<dbVars, call>> /\ Watch

SharedNext ==
  \/ Open /\ UNCHANGED <<ever, always>>
  \/ Die /\ ever' = [w \in Workers |-> Nothing] /\ always' = [w \in Workers |-> Nothing]
  \/ \E w \in Workers :
       \/ Ask(w) /\ WatchFrom(w, Stored, Stored)
       \/ Respond(w) /\ WatchFrom(w, Nothing, Nothing)
       \/ Serve(w) \/ Write(w) \/ Acknowledge(w)

SharedSpec == SharedInit /\ [][SharedNext]_sharedVars
=============================================================================
