--------------------------- MODULE BoardDatabase ---------------------------
(***************************************************************************)
(* The two tables of ./data/kanban-board.db and the SQL statements that    *)
(* BoardRepository sends to them, each one atomic: SQLite runs every       *)
(* statement of the service in a transaction of its own.  A statement here *)
(* is one that SUCCEEDS AND MATCHES A ROW; SqliteConnection adds the ones  *)
(* that fail or match nothing, and the counters a connection keeps.        *)
(*                                                                         *)
(* A table is a partial function from the id of a row to the row.  Rows    *)
(* are read "order by position"; positions are unique where the code sorts *)
(* by them, so the order is a function of the set of rows and no sequence  *)
(* is kept.                                                                *)
(***************************************************************************)
EXTENDS Integers, Functions

CONSTANTS
  Text,       \* the names of columns and the titles of items
  Positions,  \* the positions that requests ask for
  Ids,        \* the ids that requests name, as the handlers receive them
  Dates,      \* the time stamps the service writes, as lengths of text
  Seeds       \* the databases that an earlier run may have left behind

VARIABLES
  tables,     \* the tables that exist
  column,     \* the rows of table column, by id
  item,       \* the rows of table item, by id
  columnSeq,  \* the largest id ever given to a column (AUTOINCREMENT)
  itemSeq     \* the largest id ever given to an item (AUTOINCREMENT)

dbVars == <<tables, column, item, columnSeq, itemSeq>>

TableNames == {"column", "item"}
ColumnRow  == [name : Text, position : Positions]
ItemRow    == [title : Text, date : Dates, position : Positions,
               column_id : Ids]

IsTable(f, Row) == DOMAIN f \subseteq Nat \ {0} /\ f \in [DOMAIN f -> Row]
Put(f, i, row)  == [j \in DOMAIN f \cup {i} |-> IF j = i THEN row ELSE f[j]]

-----------------------------------------------------------------------------
\* "position integer not null UNIQUE" and "unique (position, column_id)": two
\* different rows of a table that would share a key.
ColumnsDiffer(f) ==
  \A i, j \in DOMAIN f : i # j => f[i].position # f[j].position
ItemsDiffer(f) ==
  \A i, j \in DOMAIN f :
    i # j /\ f[i].column_id = f[j].column_id => f[i].position # f[j].position

\* A database file that initialize() and the statements below may have left.
WellFormed(db) ==
  /\ db.tables \subseteq TableNames
  /\ IsTable(db.column, ColumnRow) /\ IsTable(db.item, ItemRow)
  /\ db.columnSeq \in Nat /\ db.itemSeq \in Nat
  /\ \A i \in DOMAIN db.column : i <= db.columnSeq
  /\ \A i \in DOMAIN db.item : i <= db.itemSeq
  /\ "column" \notin db.tables => DOMAIN db.column = {}
  /\ "item" \notin db.tables => DOMAIN db.item = {}
  /\ ColumnsDiffer(db.column) /\ ItemsDiffer(db.item)

ASSUME PositionsAssumption == Positions \subseteq Int
ASSUME IdsAssumption       == Ids \subseteq Int
ASSUME SeedsAssumption     == \A db \in Seeds : WellFormed(db)

\* The constraint that a row at position p would break, for the row i.
ColumnClash(i, p) == \E j \in DOMAIN column \ {i} : column[j].position = p
NoItemClash(i, c, p) == FALSE \* a mistake: the schema without the constraint
ItemClash(i, c, p) ==
  \E j \in DOMAIN item \ {i} : item[j].position = p /\ item[j].column_id = c

\* The rows of "where column_id = c" and of "where id = i and column_id = c".
AllItems(c)    == DOMAIN item \* a mistake: a select without its "where"
ItemsOf(c)     == {i \in DOMAIN item : item[i].column_id = c}
IsItemOf(i, c) == i \in ItemsOf(c)

\* A mistake: the id of a key without "autoincrement", one more than the
\* largest that is there.
IdAfterLast == CHOOSE i \in 1 .. itemSeq + 1 :
                 i - 1 \in DOMAIN item \cup {0} /\ \A j \in DOMAIN item : j < i
NextItemId  == itemSeq + 1

-----------------------------------------------------------------------------
DatabaseInit ==
  \E db \in Seeds :
    /\ tables = db.tables
    /\ column = db.column /\ columnSeq = db.columnSeq
    /\ item = db.item /\ itemSeq = db.itemSeq

\* "create table if not exists", of the tables T
CreateTables(T) ==
  /\ tables' = tables \cup T
  /\ UNCHANGED <<column, item, columnSeq, itemSeq>>

InsertColumn(name, p) ==
  /\ "column" \in tables /\ ~ColumnClash(0, p)
  /\ columnSeq' = columnSeq + 1
  /\ column' = Put(column, columnSeq + 1, [name |-> name, position |-> p])
  /\ UNCHANGED <<tables, item, itemSeq>>

UpdateColumn(i, name, p) ==
  /\ i \in DOMAIN column /\ ~ColumnClash(i, p)
  /\ column' = Put(column, i, [name |-> name, position |-> p])
  /\ UNCHANGED <<tables, item, columnSeq, itemSeq>>

\* No "pragma foreign_keys" is ever sent: the items of the column stay.
DeleteColumn(i) ==
  /\ i \in DOMAIN column
  /\ column' = Restrict(column, DOMAIN column \ {i})
  /\ UNCHANGED <<tables, item, columnSeq, itemSeq>>

\* No "pragma foreign_keys": c need not be the id of a column.
InsertItem(title, date, p, c) ==
  /\ "item" \in tables /\ ~ItemClash(0, c, p)
  /\ itemSeq' = itemSeq + 1
  /\ item' = Put(item, NextItemId, [title |-> title, date |-> date,
                                    position |-> p, column_id |-> c])
  /\ UNCHANGED <<tables, column, columnSeq>>

UpdateItem(i, c, title, p) ==
  /\ IsItemOf(i, c) /\ ~ItemClash(i, c, p)
  /\ item' = Put(item, i, [title |-> title, date |-> item[i].date,
                           position |-> p, column_id |-> c])
  /\ UNCHANGED <<tables, column, columnSeq, itemSeq>>

DeleteItem(i, c) ==
  /\ IsItemOf(i, c)
  /\ item' = Restrict(item, DOMAIN item \ {i})
  /\ UNCHANGED <<tables, column, columnSeq, itemSeq>>

DatabaseNext ==
  \/ \E T \in SUBSET TableNames : CreateTables(T)
  \/ \E name \in Text, p \in Positions :
       InsertColumn(name, p) \/ \E i \in Ids : UpdateColumn(i, name, p)
  \/ \E i \in Ids : DeleteColumn(i)
  \/ \E title \in Text, p \in Positions, c \in Ids :
       \/ \E date \in Dates : InsertItem(title, date, p, c)
       \/ \E i \in Ids : UpdateItem(i, c, title, p)
  \/ \E i, c \in Ids : DeleteItem(i, c)

\* What the file promises to anyone who reads it, whoever the writers are.
DatabaseSpec == DatabaseInit /\ [][DatabaseNext]_dbVars

-----------------------------------------------------------------------------
\* Every reachable file is one that WellFormed describes: rows of the right
\* shape, no id above the sequence, no two rows at one place (the schema of
\* BoardRepository::initialize and the AUTOINCREMENT ids).
DatabaseInv ==
  WellFormed([tables |-> tables, column |-> column, item |-> item,
              columnSeq |-> columnSeq, itemSeq |-> itemSeq])

\* No two columns are at one position, and no two items of one column are
\* (the two unique constraints of BoardRepository::initialize, which every
\* "order by position" of the repository relies on).
UniquePositions == ColumnsDiffer(column) /\ ItemsDiffer(item)

\* A step never gives a row an id that some row, deleted or not, had before
\* it: a client's old link reaches the old row or nothing, never a new row.
NoIdAgain ==
  /\ \A i \in DOMAIN column' \ DOMAIN column : i > columnSeq /\ i <= columnSeq'
  /\ \A i \in DOMAIN item' \ DOMAIN item : i > itemSeq /\ i <= itemSeq'
  /\ columnSeq <= columnSeq' /\ itemSeq <= itemSeq'
IdsNeverReused == [][NoIdAgain]_dbVars

\* An item stays in the column it was posted to: no request moves it, and
\* PUT and DELETE name it together with that column.
SameColumn ==
  \A i \in DOMAIN item \cap DOMAIN item' : item'[i].column_id = item[i].column_id
ItemsKeepTheirColumn == [][SameColumn]_dbVars

\* Every item belongs to a column that exists: the foreign key that the
\* schema of BoardRepository::initialize declares.
ReferentialIntegrity ==
  \A i \in DOMAIN item : item[i].column_id \in DOMAIN column
=============================================================================
