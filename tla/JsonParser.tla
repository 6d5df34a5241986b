----------------------------- MODULE JsonParser -----------------------------
(***************************************************************************)
(* Api/Parser/JsonParser.cpp: from the body of a request to the values of  *)
(* a column or an item, and from a row to the JSON object of the answer.   *)
(*                                                                         *)
(* A body is what rapidjson makes of it: the kind of its root and, under   *)
(* each of the three members the service reads, a value of some JSON type, *)
(* "Null" where the member is missing.                                     *)
(***************************************************************************)

\* IsString() and IsInt(): the latter is false for a fraction, and for a
\* number that 32 bits do not hold.
isValidColumn(document) ==
  /\ document.root # "ParseError"
  /\ document.name.type = "String" /\ document.position.type = "Int"

isValidItem(document) ==
  /\ document.root # "ParseError"
  /\ document.title.type = "String" /\ document.position.type = "Int"

\* An optional is the set of the value it holds, or empty.
convertColumnToModel(document) ==
  IF isValidColumn(document)
    THEN {[text |-> document.name.data, position |-> document.position.data]}
    ELSE {}

convertItemToModel(document) ==
  IF isValidItem(document)
    THEN {[text |-> document.title.data, position |-> document.position.data]}
    ELSE {}

\* RAPIDJSON_ASSERT is defined away, so document["name"] on a root that is no
\* object reads its memory as if it were one: the member is found where the
\* elements of an array happen to stand for it, or it is not, or the process
\* dies (see BodyKills).
Undefined(document) == document.root = "NoObject"

OutcomesOf(document, converted) ==
  {converted} \cup (IF Undefined(document) THEN {{}} ELSE {})

BodyKills(document) == Undefined(document)

-----------------------------------------------------------------------------
\* getJsonValueFromModel: the object of a column without its "items", and the
\* object of an item together with the column under whose "items" it stands.
jsonColumn(id, name, position) ==
  [id |-> id, name |-> name, position |-> position]

jsonItem(columnId, id, title, position, timestamp) ==
  [column |-> columnId, id |-> id, title |-> title, position |-> position,
   timestamp |-> timestamp]
=============================================================================
