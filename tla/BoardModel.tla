----------------------------- MODULE BoardModel -----------------------------
(***************************************************************************)
(* Core/Model: the Board, Column and Item that the callbacks of            *)
(* BoardRepository make of rows, as the answers show them.  A board is a   *)
(* set of columns and a set of items, each with the column it is shown     *)
(* under.                                                                  *)
(***************************************************************************)
EXTENDS BoardDatabase, JsonParser

ColumnJsons == [id : Int, name : Text, position : Int]
ItemJsons   == [column : Int, id : Int, title : Text, position : Int, timestamp : Dates]
Boards      == [columns : SUBSET ColumnJsons, items : SUBSET ItemJsons]

Nothing      == [columns |-> {}, items |-> {}]
Union(S, T)  == [columns |-> S.columns \cup T.columns, items |-> S.items \cup T.items]
Common(S, T) == [columns |-> S.columns \cap T.columns, items |-> S.items \cap T.items]

ColumnJson(i) == jsonColumn(i, column[i].name, column[i].position)

\* The row i of table item, under the column c.
ItemJson(c, i) == jsonItem(c, i, item[i].title, item[i].position, item[i].date)
ItemsUnder(c)  == {ItemJson(c, i) : i \in ItemsOf(c)}

StoredColumns == {ColumnJson(i) : i \in DOMAIN column}
StoredItems   == {ItemJson(item[i].column_id, i) : i \in DOMAIN item}
Stored        == [columns |-> StoredColumns, items |-> StoredItems]
=============================================================================
