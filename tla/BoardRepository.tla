-------------------------- MODULE BoardRepository ---------------------------
(***************************************************************************)
(* Repository/SQLite/BoardRepository.cpp, run by the worker threads of the *)
(* server: a call is a sequence of steps, one for each sqlite3_exec, each  *)
(* look at a counter of the connection and each touch of the buffer that   *)
(* ctime returns.  Between two of them any other worker may run.           *)
(*                                                                         *)
(* pc[w] names the next step of worker w; "reply" is a call that is done,  *)
(* whose result is columns[w] and items[w].                                *)
(***************************************************************************)
EXTENDS SqliteConnection, BoardModel, BoardManager

CONSTANTS
  Workers,   \* the threads of the server
  Newline    \* the length of the text of ctime: 25, the newline being last

ASSUME NewlineAssumption == Newline \in Nat \ {0} /\ 0 .. Newline \subseteq Dates

VARIABLES
  ctimeBuf,  \* the length of the text in the buffer all ctime calls share
  pc,        \* the next step of each worker
  call,      \* the call it works on
  todo,      \* the columns whose items it has still to read
  columns,   \* the columns of its result
  items      \* the items of its result, each with the column it stands under

VARIABLE
  length     \* in postItem: the length that strlen, and then the copy, found

repoVars == <<ctimeBuf, pc, call, todo, columns, items, length>>
resultVars == <<todo, columns, items>>

Torn == -1  \* in length: the copy has a NUL inside

\* Where a call of op begins.
EntryOf(op) ==
  IF op \in {"getBoard", "getColumns"} THEN "getColumns"
  ELSE IF op = "getItem" THEN "selectItem"
  ELSE IF op = "postItem" THEN "ctime"
  ELSE IF op = "none" THEN "reply"
  ELSE op

Goto(w, label) == pc' = [pc EXCEPT ![w] = label]

\* "order by position": the column of todo[w] that the loop reads next.
IsNext(w, c) ==
  /\ c \in todo[w]
  /\ \A x, y \in columns[w] :
       x.id = c /\ y.id \in todo[w] => x.position <= y.position

\* The first rows of a select that failed on the way.
IsPrefix(S, T) ==
  S \subseteq T /\ \A x \in S, y \in T \ S : x.position < y.position

-----------------------------------------------------------------------------
\* getColumns, of getBoard and getColumns.
getColumns(w) ==
  /\ pc[w] = "getColumns"
  /\ \/ /\ Select("column", "ok")
        /\ columns' = [columns EXCEPT ![w] = StoredColumns]
        /\ todo' = [todo EXCEPT ![w] = DOMAIN column]
        /\ Goto(w, IF DOMAIN column = {} THEN "reply" ELSE "getItems")
     \/ /\ Select("column", "error")
        /\ Goto(w, "reply")
        /\ UNCHANGED <<columns, todo>>
  /\ UNCHANGED <<ctimeBuf, call, items, length>>

getColumn(w) ==
  LET id == call[w].column IN
  /\ pc[w] = "getColumn"
  /\ \/ /\ Select("column", "ok") /\ id \in DOMAIN column
        /\ columns' = [columns EXCEPT ![w] = {ColumnJson(id)}]
        /\ todo' = [todo EXCEPT ![w] = {id}]
        /\ Goto(w, "getItems")
     \/ /\ Select("column", "ok") /\ id \notin DOMAIN column
        /\ Goto(w, "reply")
        /\ UNCHANGED <<columns, todo>>
     \/ /\ Select("column", "error")
        /\ Goto(w, "reply")
        /\ UNCHANGED <<columns, todo>>
  /\ UNCHANGED <<ctimeBuf, call, items, length>>

\* Mistakes: one more turn of the loop for a column that was read, and an
\* end of it at the first column without items.
RestAgain(w, c)     == todo[w]
RestUntilNone(w, c) == IF ItemsOf(c) = {} THEN {} ELSE todo[w] \ {c}

\* What the loop has still to read after c.
Rest(w, c) == todo[w] \ {c}

\* getItems: once in the call getItems, once after getColumn and putColumn,
\* and once for each column of getColumns.  Its error is logged, and the rows
\* that came before it are used.
getItems(w) ==
  /\ pc[w] = "getItems"
  /\ \E c \in todo[w] :
       /\ IsNext(w, c)
       /\ \E found \in SUBSET ItemsUnder(c) :
            /\ \/ Select("item", "ok") /\ found = ItemsUnder(c)
               \/ Select("item", "error") /\ IsPrefix(found, ItemsUnder(c))
            /\ items' = [items EXCEPT ![w] = @ \cup found]
       /\ todo' = [todo EXCEPT ![w] = Rest(w, c)]
       /\ Goto(w, IF Rest(w, c) = {} THEN "reply" ELSE "getItems")
  /\ UNCHANGED <<ctimeBuf, call, columns, length>>

\* "where column_id = c.column and id = c.item", and by mistake with the two
\* ids in each other's place.
SelectedSwapped(c) == {x \in ItemsUnder(c.item) : x.id = c.column}
Selected(c)        == {x \in ItemsUnder(c.column) : x.id = c.item}

\* The select of getItem, and the second statement of putItem.
selectItem(w) ==
  /\ pc[w] = "selectItem"
  /\ \E found \in {Selected(call[w]), {}} :
       /\ \/ Select("item", "ok") /\ found = Selected(call[w])
          \/ Select("item", "error") /\ found = {}
       /\ items' = [items EXCEPT ![w] = found]
       /\ Goto(w, IF call[w].op = "putItem" /\ found # {} THEN "changes" ELSE "reply")
  /\ UNCHANGED <<ctimeBuf, call, todo, columns, length>>

-----------------------------------------------------------------------------
Results == {"ok", "error"}

\* Mistakes: the result of an insert is not looked at, or compared with a
\* code that sqlite3_exec never returns.
AfterAnyInsert(rc) == "last_insert_rowid"
AfterNoInsert(rc)  == "reply"
AfterInsert(rc)    == IF rc = "ok" THEN "last_insert_rowid" ELSE "reply"

postColumn(w) ==
  /\ pc[w] = "postColumn"
  /\ \E rc \in Results :
       /\ ExecInsertColumn(call[w].text, call[w].position, rc)
       /\ Goto(w, AfterInsert(rc))
  /\ UNCHANGED <<ctimeBuf, call, resultVars, length>>

putColumn(w) ==
  LET c == call[w] IN
  /\ pc[w] = "putColumn"
  /\ \E rc \in Results :
       /\ ExecUpdateColumn(c.column, c.text, c.position, rc)
       /\ Goto(w, IF rc = "ok" THEN "changes" ELSE "reply")
  /\ UNCHANGED <<ctimeBuf, call, resultVars, length>>

deleteColumn(w) ==
  /\ pc[w] = "deleteColumn"
  /\ ExecDeleteColumn(call[w].column)
  /\ Goto(w, "reply")
  /\ UNCHANGED <<ctimeBuf, call, resultVars, length>>

\* The result of the update is overwritten by that of the select.
putItem(w) ==
  LET c == call[w] IN
  /\ pc[w] = "putItem"
  /\ \E rc \in Results :
       ExecUpdateItem(c.item, c.column, c.text, c.position, rc)
  /\ Goto(w, "selectItem")
  /\ UNCHANGED <<ctimeBuf, call, resultVars, length>>

deleteItem(w) ==
  /\ pc[w] = "deleteItem"
  /\ ExecDeleteItem(call[w].item, call[w].column)
  /\ Goto(w, "reply")
  /\ UNCHANGED <<ctimeBuf, call, resultVars, length>>

-----------------------------------------------------------------------------
\* postItem: the time stamp, in one buffer for all threads.  ctime fills it.
ctime(w) ==
  /\ pc[w] = "ctime"
  /\ ctimeBuf' = Newline
  /\ Goto(w, "strlen")
  /\ UNCHANGED <<dbVars, connVars, call, resultVars, length>>

strlen(w) ==
  /\ pc[w] = "strlen"
  /\ length' = [length EXCEPT ![w] = ctimeBuf]
  /\ Goto(w, "truncate")
  /\ UNCHANGED <<dbVars, connVars, ctimeBuf, call, resultVars>>

\* timestamp[n - 1] = '\0' in a text; with n = 0, a byte before the buffer.
CutNothing(text, n) == text \* a mistake: the newline stays
Cut(text, n)        == IF n \in 1 .. text THEN n - 1 ELSE text

truncate(w) ==
  /\ pc[w] = "truncate"
  /\ ctimeBuf' = Cut(ctimeBuf, length[w])
  /\ Goto(w, "measure")
  /\ UNCHANGED <<dbVars, connVars, call, resultVars, length>>

\* std::string(timestamp): its length, and then its bytes.
measure(w) ==
  /\ pc[w] = "measure"
  /\ length' = [length EXCEPT ![w] = ctimeBuf]
  /\ Goto(w, "copy")
  /\ UNCHANGED <<dbVars, connVars, ctimeBuf, call, resultVars>>

copy(w) ==
  /\ pc[w] = "copy"
  /\ length' = [length EXCEPT ![w] = IF ctimeBuf < @ THEN Torn ELSE @]
  /\ Goto(w, "insertItem")
  /\ UNCHANGED <<dbVars, connVars, ctimeBuf, call, resultVars>>

\* A statement with a NUL inside ends there, within a string.
insertItem(w) ==
  LET c == call[w] IN
  /\ pc[w] = "insertItem"
  /\ \E rc \in Results :
       /\ ExecInsertItem(c.text, length[w], c.position, c.column, length[w] = Torn, rc)
       /\ Goto(w, AfterInsert(rc))
  /\ UNCHANGED <<ctimeBuf, call, resultVars, length>>

-----------------------------------------------------------------------------
\* sqlite3_last_insert_rowid, after the insert.
last_insert_rowid(w) ==
  LET c == call[w] IN
  /\ pc[w] = "last_insert_rowid"
  /\ \/ /\ c.op = "postColumn"
        /\ columns' = [columns EXCEPT ![w] = {jsonColumn(lastRowid, c.text, c.position)}]
        /\ Goto(w, "reply")
        /\ UNCHANGED items
     \/ /\ c.op = "postItem"
        /\ items' = [items EXCEPT ![w] =
                       {jsonItem(c.column, lastRowid, c.text, c.position, 0)}]
        /\ Goto(w, "timestamp")
        /\ UNCHANGED columns
  /\ UNCHANGED <<dbVars, connVars, ctimeBuf, call, todo, length>>

\* Item(columnId, title, position, timestamp) reads the buffer once more.
StampAnew == Newline \* a mistake: the answer formats the time anew
Stamp     == ctimeBuf

timestamp(w) ==
  /\ pc[w] = "timestamp"
  /\ items' = [items EXCEPT ![w] = {[x EXCEPT !.timestamp = Stamp] : x \in @}]
  /\ Goto(w, "reply")
  /\ UNCHANGED <<dbVars, connVars, ctimeBuf, call, todo, columns, length>>

Unchecked == TRUE \* a mistake: the number of changed rows is not looked at
Matched   == changes = 1

\* sqlite3_changes, after the update of a column or the select that follows
\* the update of an item.  The answer shows the values of the request.
changesOfColumn(w) ==
  LET c == call[w] IN
  /\ pc[w] = "changes" /\ c.op = "putColumn"
  /\ \/ /\ Matched
        /\ columns' = [columns EXCEPT ![w] = {jsonColumn(c.column, c.text, c.position)}]
        /\ todo' = [todo EXCEPT ![w] = {c.column}]
        /\ Goto(w, "getItems")
     \/ /\ ~Matched
        /\ Goto(w, "reply")
        /\ UNCHANGED <<columns, todo>>
  /\ UNCHANGED <<dbVars, connVars, ctimeBuf, call, items, length>>

changesOfItem(w) ==
  LET c == call[w] IN
  /\ pc[w] = "changes" /\ c.op = "putItem"
  /\ items' = [items EXCEPT ![w] =
       {jsonItem(c.column, c.item, c.text, c.position, x.timestamp) :
          x \in IF Matched THEN @ ELSE {}}]
  /\ Goto(w, "reply")
  /\ UNCHANGED <<dbVars, connVars, ctimeBuf, call, todo, columns, length>>

RepositoryStep(w) ==
  \/ getColumns(w) \/ getColumn(w) \/ getItems(w) \/ selectItem(w)
  \/ postColumn(w) \/ putColumn(w) \/ deleteColumn(w)
  \/ putItem(w) \/ deleteItem(w)
  \/ ctime(w) \/ strlen(w) \/ truncate(w) \/ measure(w) \/ copy(w) \/ insertItem(w)
  \/ last_insert_rowid(w) \/ timestamp(w) \/ changesOfColumn(w) \/ changesOfItem(w)
=============================================================================
