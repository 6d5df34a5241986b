------------------------ MODULE BoardDatabase_proofs ------------------------
(***************************************************************************)
(* What holds of the database file whoever the writers are: proofs about   *)
(* DatabaseSpec, for every value of the constants.                         *)
(***************************************************************************)
EXTENDS BoardDatabase, TLAPS

\* DatabaseInv without the record that WellFormed takes.
FileOK ==
  /\ tables \subseteq TableNames
  /\ IsTable(column, ColumnRow) /\ IsTable(item, ItemRow)
  /\ columnSeq \in Nat /\ itemSeq \in Nat
  /\ \A i \in DOMAIN column : i <= columnSeq
  /\ \A i \in DOMAIN item : i <= itemSeq
  /\ "column" \notin tables => DOMAIN column = {}
  /\ "item" \notin tables => DOMAIN item = {}
  /\ ColumnsDiffer(column) /\ ItemsDiffer(item)

\* The two ways to say that the file is well formed are one.
LEMMA FileOKIsDatabaseInv == DatabaseInv <=> FileOK
BY DEF DatabaseInv, WellFormed, FileOK

\* A row written into a table is found under its id, and no other changes.
LEMMA PutInTable ==
  ASSUME NEW Row, NEW f, IsTable(f, Row), NEW i \in Nat \ {0}, NEW row \in Row
  PROVE  /\ IsTable(Put(f, i, row), Row)
         /\ DOMAIN Put(f, i, row) = DOMAIN f \cup {i}
         /\ Put(f, i, row)[i] = row
         /\ \A j \in DOMAIN f : j # i => Put(f, i, row)[j] = f[j]
BY DEF IsTable, Put

\* A table less some rows is a table.
LEMMA RestrictTable ==
  ASSUME NEW Row, NEW f, IsTable(f, Row), NEW S, S \subseteq DOMAIN f
  PROVE  /\ IsTable(Restrict(f, S), Row)
         /\ DOMAIN Restrict(f, S) = S
         /\ \A j \in S : Restrict(f, S)[j] = f[j]
BY DEF IsTable, Restrict

-----------------------------------------------------------------------------
\* Creating tables keeps the file well formed.
LEMMA CreateTablesOK ==
  ASSUME FileOK, NEW T \in SUBSET TableNames, CreateTables(T) PROVE FileOK'
BY DEF FileOK, CreateTables, IsTable, ColumnsDiffer, ItemsDiffer

\* A new column stands at a position of its own, above the sequence.
LEMMA InsertColumnOK ==
  ASSUME FileOK, NEW name \in Text, NEW p \in Positions, InsertColumn(name, p)
  PROVE  FileOK'
<1> DEFINE row == [name |-> name, position |-> p]
<1> DEFINE id == columnSeq + 1
<1>1. row \in ColumnRow /\ row.position = p
  BY DEF ColumnRow
<1>2. IsTable(column, ColumnRow) /\ id \in Nat \ {0}
      /\ column' = Put(column, id, row) /\ columnSeq' = id /\ id > columnSeq
  BY DEF FileOK, InsertColumn
<1> HIDE DEF row, id
<1>3. /\ IsTable(column', ColumnRow)
      /\ DOMAIN column' = DOMAIN column \cup {id}
      /\ column'[id] = row
      /\ \A j \in DOMAIN column : j # id => column'[j] = column[j]
  BY <1>1, <1>2, PutInTable
<1>4. \A j \in DOMAIN column : j \in Nat \ {0} /\ j # id /\ j # 0 /\ j < id
  BY <1>2 DEF FileOK, IsTable
<1>5. \A j \in DOMAIN column : column[j].position # p
  BY <1>4 DEF InsertColumn, ColumnClash
<1>6. ColumnsDiffer(column')
  BY <1>1, <1>3, <1>4, <1>5 DEF ColumnsDiffer, FileOK
<1>7. \A i \in DOMAIN column' : i <= columnSeq'
  BY <1>2, <1>3, <1>4 DEF FileOK, InsertColumn
<1> QED
  BY <1>2, <1>3, <1>6, <1>7 DEF FileOK, InsertColumn

\* A column moves only to a position that no other column has.
LEMMA UpdateColumnOK ==
  ASSUME FileOK, NEW i, NEW name \in Text, NEW p \in Positions, UpdateColumn(i, name, p)
  PROVE  FileOK'
<1> DEFINE row == [name |-> name, position |-> p]
<1>1. row \in ColumnRow /\ row.position = p
  BY DEF ColumnRow
<1>2. IsTable(column, ColumnRow) /\ i \in DOMAIN column /\ i \in Nat \ {0}
      /\ column' = Put(column, i, row)
  BY DEF FileOK, IsTable, UpdateColumn
<1> HIDE DEF row
<1>3. /\ IsTable(column', ColumnRow) /\ DOMAIN column' = DOMAIN column
      /\ column'[i] = row
      /\ \A j \in DOMAIN column : j # i => column'[j] = column[j]
  BY <1>1, <1>2, PutInTable
<1>4. \A j \in DOMAIN column : j # i => column[j].position # p
  BY DEF UpdateColumn, ColumnClash
<1>5. ColumnsDiffer(column')
  BY <1>1, <1>2, <1>3, <1>4 DEF ColumnsDiffer, FileOK
<1> QED
  BY <1>2, <1>3, <1>5 DEF FileOK, UpdateColumn

\* A column less is a column less.
LEMMA DeleteColumnOK ==
  ASSUME FileOK, NEW i, DeleteColumn(i) PROVE FileOK'
<1>1. /\ IsTable(column', ColumnRow) /\ DOMAIN column' \subseteq DOMAIN column
      /\ \A j \in DOMAIN column' : column'[j] = column[j]
  BY RestrictTable DEF FileOK, DeleteColumn
<1>2. ColumnsDiffer(column')
  BY <1>1 DEF ColumnsDiffer, FileOK
<1> QED
  BY <1>1, <1>2 DEF FileOK, DeleteColumn

\* A new item has a place of its own in its column, above the sequence.
LEMMA InsertItemOK ==
  ASSUME FileOK, NEW title \in Text, NEW date \in Dates, NEW p \in Positions,
         NEW c \in Ids, InsertItem(title, date, p, c)
  PROVE  FileOK'
<1> DEFINE row == [title |-> title, date |-> date, position |-> p, column_id |-> c]
<1> DEFINE id == itemSeq + 1
<1>0. row \in ItemRow
  BY DEF ItemRow
<1>1. row.position = p /\ row.column_id = c
  OBVIOUS
<1>2. IsTable(item, ItemRow) /\ id \in Nat \ {0}
      /\ item' = Put(item, id, row) /\ itemSeq' = id /\ id > itemSeq
  BY DEF FileOK, InsertItem, NextItemId
<1> HIDE DEF row, id
<1>3. /\ IsTable(item', ItemRow)
      /\ DOMAIN item' = DOMAIN item \cup {id}
      /\ item'[id] = row
      /\ \A j \in DOMAIN item : j # id => item'[j] = item[j]
  <2>1. IsTable(item, ItemRow) /\ id \in Nat \ {0}
    BY <1>2
  <2>2. /\ IsTable(Put(item, id, row), ItemRow)
        /\ DOMAIN Put(item, id, row) = DOMAIN item \cup {id}
        /\ Put(item, id, row)[id] = row
        /\ \A j \in DOMAIN item : j # id => Put(item, id, row)[j] = item[j]
    BY <1>0, <2>1, PutInTable
  <2> QED
    BY <1>2, <2>2
<1>4. \A j \in DOMAIN item : j \in Nat \ {0} /\ j # id /\ j # 0 /\ j < id
  BY <1>2 DEF FileOK, IsTable
<1>5. \A j \in DOMAIN item : item[j].column_id = c => item[j].position # p
  BY <1>4 DEF InsertItem, NextItemId, ItemClash
<1>6. ItemsDiffer(item')
  BY <1>1, <1>3, <1>4, <1>5 DEF ItemsDiffer, FileOK
<1>7. \A i \in DOMAIN item' : i <= itemSeq'
  BY <1>2, <1>3, <1>4 DEF FileOK, InsertItem, NextItemId
<1> QED
  BY <1>2, <1>3, <1>6, <1>7 DEF FileOK, InsertItem, NextItemId

\* An item stays in its column and moves only to a place that is free there.
LEMMA UpdateItemOK ==
  ASSUME FileOK, NEW i, NEW c \in Ids, NEW title \in Text, NEW p \in Positions,
         UpdateItem(i, c, title, p)
  PROVE  FileOK' /\ item'[i].column_id = item[i].column_id
<1> DEFINE row == [title |-> title, date |-> item[i].date, position |-> p,
                   column_id |-> c]
<1>1. IsTable(item, ItemRow) /\ i \in DOMAIN item /\ i \in Nat \ {0} /\ item[i] \in ItemRow
      /\ item[i].column_id = c /\ item' = Put(item, i, row)
  BY DEF FileOK, IsTable, UpdateItem, IsItemOf, ItemsOf
<1>2. row \in ItemRow /\ row.position = p /\ row.column_id = c
  BY <1>1 DEF ItemRow
<1> HIDE DEF row
<1>3. /\ IsTable(item', ItemRow) /\ DOMAIN item' = DOMAIN item
      /\ item'[i] = row
      /\ \A j \in DOMAIN item : j # i => item'[j] = item[j]
  BY <1>1, <1>2, PutInTable
<1>4. \A j \in DOMAIN item : j # i /\ item[j].column_id = c => item[j].position # p
  BY DEF UpdateItem, ItemClash
<1>5. ItemsDiffer(item')
  BY <1>1, <1>2, <1>3, <1>4 DEF ItemsDiffer, FileOK
<1> QED
  BY <1>1, <1>2, <1>3, <1>5 DEF FileOK, UpdateItem

\* An item less is an item less.
LEMMA DeleteItemOK ==
  ASSUME FileOK, NEW i, NEW c, DeleteItem(i, c) PROVE FileOK'
<1>1. /\ IsTable(item', ItemRow) /\ DOMAIN item' \subseteq DOMAIN item
      /\ \A j \in DOMAIN item' : item'[j] = item[j]
  BY RestrictTable DEF FileOK, DeleteItem
<1>2. ItemsDiffer(item')
  BY <1>1 DEF ItemsDiffer, FileOK
<1> QED
  BY <1>1, <1>2 DEF FileOK, DeleteItem

-----------------------------------------------------------------------------
\* The files that the service may find are well formed.
LEMMA InitOK == DatabaseInit => FileOK
BY SeedsAssumption DEF DatabaseInit, WellFormed, FileOK

\* Every statement keeps the file well formed.
LEMMA NextOK == FileOK /\ [DatabaseNext]_dbVars => FileOK'
<1> SUFFICES ASSUME FileOK, [DatabaseNext]_dbVars PROVE FileOK'
  OBVIOUS
<1>1. CASE \E T \in SUBSET TableNames : CreateTables(T)
  BY <1>1, CreateTablesOK
<1>2. CASE \E name \in Text, p \in Positions : InsertColumn(name, p)
  BY <1>2, InsertColumnOK
<1>3. CASE \E name \in Text, p \in Positions, i \in Ids : UpdateColumn(i, name, p)
  BY <1>3, UpdateColumnOK
<1>4. CASE \E i \in Ids : DeleteColumn(i)
  BY <1>4, DeleteColumnOK
<1>5. CASE \E title \in Text, date \in Dates, p \in Positions, c \in Ids :
             InsertItem(title, date, p, c)
  BY <1>5, InsertItemOK
<1>6. CASE \E title \in Text, p \in Positions, i, c \in Ids : UpdateItem(i, c, title, p)
  BY <1>6, UpdateItemOK
<1>7. CASE \E i, c \in Ids : DeleteItem(i, c)
  BY <1>7, DeleteItemOK
<1>8. CASE UNCHANGED dbVars
  BY <1>8 DEF FileOK, dbVars, IsTable, ColumnsDiffer, ItemsDiffer
<1> QED
  BY <1>1, <1>2, <1>3, <1>4, <1>5, <1>6, <1>7, <1>8 DEF DatabaseNext

\* The file is well formed at all times.
THEOREM DatabaseIsWellFormed == DatabaseSpec => []DatabaseInv
<1>1. DatabaseSpec => []FileOK
  BY InitOK, NextOK, PTL DEF DatabaseSpec
<1> QED
  BY <1>1, FileOKIsDatabaseInv, PTL

\* No two columns share a position, and no two items of one column do: the
\* unique constraints of initialize() survive every sequence of statements.
THEOREM PositionsAreUnique == DatabaseSpec => []UniquePositions
<1>1. FileOK => UniquePositions
  BY DEF FileOK, UniquePositions
<1> QED
  BY <1>1, InitOK, NextOK, PTL DEF DatabaseSpec

-----------------------------------------------------------------------------
\* One step neither reuses an id nor moves an item to another column.
LEMMA StepKeepsIds ==
  FileOK /\ [DatabaseNext]_dbVars => NoIdAgain /\ SameColumn
<1> SUFFICES ASSUME FileOK, [DatabaseNext]_dbVars PROVE NoIdAgain /\ SameColumn
  OBVIOUS
<1> USE DEF NoIdAgain, SameColumn
<1>1. CASE \E T \in SUBSET TableNames : CreateTables(T)
  BY <1>1 DEF FileOK, CreateTables
<1>2. CASE \E name \in Text, p \in Positions : InsertColumn(name, p)
  BY <1>2 DEF FileOK, InsertColumn, Put
<1>3. CASE \E name \in Text, p \in Positions, i \in Ids : UpdateColumn(i, name, p)
  BY <1>3 DEF FileOK, UpdateColumn, Put
<1>4. CASE \E i \in Ids : DeleteColumn(i)
  BY <1>4 DEF FileOK, DeleteColumn, Restrict
<1>5. CASE \E title \in Text, date \in Dates, p \in Positions, c \in Ids :
             InsertItem(title, date, p, c)
  <2>1. \A i \in DOMAIN item : i # itemSeq + 1
    BY DEF FileOK
  <2> QED
    BY <1>5, <2>1 DEF FileOK, InsertItem, NextItemId, Put
<1>6. CASE \E title \in Text, p \in Positions, i, c \in Ids : UpdateItem(i, c, title, p)
  BY <1>6 DEF FileOK, UpdateItem, Put, IsItemOf, ItemsOf
<1>7. CASE \E i, c \in Ids : DeleteItem(i, c)
  BY <1>7 DEF FileOK, DeleteItem, Restrict
<1>8. CASE UNCHANGED dbVars
  BY <1>8 DEF FileOK, dbVars
<1> QED
  BY <1>1, <1>2, <1>3, <1>4, <1>5, <1>6, <1>7, <1>8 DEF DatabaseNext

\* No row is ever given an id that another row had, deleted or not.
THEOREM IdsAreNeverReused == DatabaseSpec => IdsNeverReused
<1>1. FileOK /\ [DatabaseNext]_dbVars => [NoIdAgain]_dbVars
  BY StepKeepsIds
<1> QED
  BY <1>1, InitOK, NextOK, PTL DEF DatabaseSpec, IdsNeverReused

\* No item ever moves to another column.
THEOREM ItemsStayInTheirColumn == DatabaseSpec => ItemsKeepTheirColumn
<1>1. FileOK /\ [DatabaseNext]_dbVars => [SameColumn]_dbVars
  BY StepKeepsIds
<1> QED
  BY <1>1, InitOK, NextOK, PTL DEF DatabaseSpec, ItemsKeepTheirColumn
=============================================================================
