-------------------------- MODULE SqliteConnection --------------------------
(***************************************************************************)
(* The one sqlite3 connection that every worker thread of the service      *)
(* shares (BoardRepository::database), as BoardRepository uses it: each    *)
(* sqlite3_exec runs alone, under the mutex of the connection, and so is   *)
(* one step, but sqlite3_last_insert_rowid and sqlite3_changes are later   *)
(* calls that read whatever the connection remembers by then.              *)
(*                                                                         *)
(* An Exec... action is one sqlite3_exec and rc is its result: "ok" for    *)
(* SQLITE_OK, "error" for any other.                                       *)
(***************************************************************************)
EXTENDS BoardDatabase

CONSTANTS
  BreaksSql, \* the texts that, put between quotes, end the statement early
  Faults     \* whether the file may be busy or fail: BOOLEAN

ASSUME FaultsAssumption == Faults \in BOOLEAN

VARIABLES
  lastRowid, \* sqlite3_last_insert_rowid, one for both tables
  changes    \* sqlite3_changes

connVars == <<lastRowid, changes>>

ConnectionInit == lastRowid = 0 /\ changes = 0

\* The statement text is concatenated, never bound: a text with an apostrophe
\* makes one that does not compile, and neither does one on a missing table.
Compiles(table, text) == table \in tables /\ text \notin BreaksSql

-----------------------------------------------------------------------------
\* sqlite3_prepare fails: nothing was run and the counters keep what an
\* earlier statement left in them.
NotPrepared(table, text) ==
  /\ ~Compiles(table, text) \/ Faults
  /\ UNCHANGED <<dbVars, connVars>>

\* The statement was run and undone: a constraint or the file stopped it.
Aborted(table, text, clash) ==
  /\ Compiles(table, text)
  /\ clash \/ Faults
  /\ changes' = 0
  /\ UNCHANGED <<dbVars, lastRowid>>

\* As Aborted, but only at the commit: the new row is gone and its id stays.
NotCommitted(table, text, clash, id) ==
  /\ Compiles(table, text) /\ ~clash /\ Faults
  /\ changes' = 0 /\ lastRowid' = id
  /\ UNCHANGED dbVars

\* The statement was run and its condition matched no row.
MatchedNothing(table, text, matches) ==
  /\ Compiles(table, text) /\ ~matches
  /\ changes' = 0
  /\ UNCHANGED <<dbVars, lastRowid>>

-----------------------------------------------------------------------------
ExecInsertColumn(name, p, rc) ==
  \/ /\ rc = "ok" /\ Compiles("column", name)
     /\ InsertColumn(name, p)
     /\ lastRowid' = columnSeq + 1 /\ changes' = 1
  \/ /\ rc = "error"
     /\ \/ NotPrepared("column", name)
        \/ Aborted("column", name, ColumnClash(0, p))
        \/ NotCommitted("column", name, ColumnClash(0, p), columnSeq + 1)

ExecUpdateColumn(i, name, p, rc) ==
  \/ /\ rc = "ok" /\ Compiles("column", name)
     /\ UpdateColumn(i, name, p)
     /\ changes' = 1 /\ UNCHANGED lastRowid
  \/ rc = "ok" /\ MatchedNothing("column", name, i \in DOMAIN column)
  \/ /\ rc = "error"
     /\ \/ NotPrepared("column", name)
        \/ Aborted("column", name, i \in DOMAIN column /\ ColumnClash(i, p))

ExecInsertItem(title, date, p, c, torn, rc) ==
  \/ /\ rc = "ok" /\ Compiles("item", title) /\ ~torn
     /\ InsertItem(title, date, p, c)
     /\ lastRowid' = itemSeq + 1 /\ changes' = 1
  \/ /\ rc = "error"
     /\ \/ NotPrepared("item", title)
        \/ torn /\ UNCHANGED <<dbVars, connVars>>
        \/ ~torn /\ Aborted("item", title, ItemClash(0, c, p))
        \/ ~torn /\ NotCommitted("item", title, ItemClash(0, c, p), itemSeq + 1)

ExecUpdateItem(i, c, title, p, rc) ==
  \/ /\ rc = "ok" /\ Compiles("item", title)
     /\ UpdateItem(i, c, title, p)
     /\ changes' = 1 /\ UNCHANGED lastRowid
  \/ rc = "ok" /\ MatchedNothing("item", title, IsItemOf(i, c))
  \/ /\ rc = "error"
     /\ \/ NotPrepared("item", title)
        \/ Aborted("item", title, IsItemOf(i, c) /\ ItemClash(i, c, p))

\* A delete holds numbers only, so only the table decides whether it compiles.
\* Its result is logged and not used.
ExecDelete(table, matches, Delete) ==
  \/ /\ table \in tables /\ Delete
     /\ changes' = 1 /\ UNCHANGED lastRowid
  \/ /\ table \in tables /\ ~matches
     /\ changes' = 0 /\ UNCHANGED <<dbVars, lastRowid>>
  \/ /\ table \notin tables \/ Faults
     /\ changes' \in {changes, 0} /\ (table \notin tables => changes' = changes)
     /\ UNCHANGED <<dbVars, lastRowid>>

ExecDeleteColumn(i)  == ExecDelete("column", i \in DOMAIN column, DeleteColumn(i))
ExecDeleteItem(i, c) == ExecDelete("item", IsItemOf(i, c), DeleteItem(i, c))

\* A select changes nothing of the connection; it may fail, and then may have
\* handed over some rows before.
Select(table, rc) ==
  /\ \/ rc = "ok" /\ table \in tables
     \/ rc = "error" /\ (table \notin tables \/ Faults)
  /\ UNCHANGED <<dbVars, connVars>>
=============================================================================
