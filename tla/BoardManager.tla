---------------------------- MODULE BoardManager ----------------------------
(***************************************************************************)
(* Core/BoardManager.cpp: what a request asks of the repository.  Each     *)
(* function of BoardManager parses the body if it takes one, makes one     *)
(* call to the repository and turns its result into the answer; a body     *)
(* that the parser rejects is answered "{}" without a call.                *)
(***************************************************************************)
EXTENDS Endpoint, JsonParser

CONSTANT NoText  \* stands for the text of a call that takes none

ColumnWrites == {"postColumn", "putColumn"}
ItemWrites   == {"postItem", "putItem"}
PostOps      == {"postColumn", "postItem"}
Ops == ColumnWrites \cup ItemWrites \cup
       {"getBoard", "getColumns", "getColumn", "deleteColumn",
        "getItems", "getItem", "deleteItem"}

\* A request that is answered without a call to the repository.
NoCall ==
  [op |-> "none", column |-> 0, item |-> 0, text |-> NoText, position |-> 0]

\* The optional models that the parser may make of the body for op.
ParsedBodies(op, body) ==
  IF op \in ColumnWrites THEN OutcomesOf(body, convertColumnToModel(body))
  ELSE IF op \in ItemWrites THEN OutcomesOf(body, convertItemToModel(body))
  ELSE {{[text |-> NoText, position |-> 0]}}

CallsFor(op, r, parsed) ==
  IF parsed = {} THEN {NoCall}
  ELSE {[op |-> op, column |-> Narrow(r.column), item |-> Narrow(r.item),
         text |-> model.text, position |-> model.position] : model \in parsed}

\* Every call that request r may turn into.  Crow answers a route or method
\* that has no handler by itself.
CallsOf(r) ==
  IF HandlersOf(r.route, r.method) = {} THEN {NoCall}
  ELSE UNION {UNION {CallsFor(op, r, parsed) : parsed \in ParsedBodies(op, r.body)} :
                op \in HandlersOf(r.route, r.method)}

\* Only a body that some handler parses can do harm.
MayKill(r) ==
  /\ BodyKills(r.body)
  /\ HandlersOf(r.route, r.method) \cap (ColumnWrites \cup ItemWrites) # {}
=============================================================================
