--------------------------- MODULE MCBoardService ---------------------------
(***************************************************************************)
(* Values of the constants of BoardService for TLC.                        *)
(***************************************************************************)
EXTENDS BoardExpectations, ServiceApi, TLC

JsonString(s) == [type |-> "String", data |-> s]
JsonInt(n)    == [type |-> "Int", data |-> n]
JsonNull      == [type |-> "Null", data |-> 0]

ColumnBody(name, p) ==
  [root |-> "Object", name |-> JsonString(name), title |-> JsonNull,
   position |-> JsonInt(p)]
ItemBody(title, p) ==
  [root |-> "Object", name |-> JsonNull, title |-> JsonString(title),
   position |-> JsonInt(p)]
NoPosition == [ColumnBody("todo", 1) EXCEPT !.position = JsonNull]
NoJson     == [ItemBody("cook", 1) EXCEPT !.root = "ParseError"]
AnArray    == [ItemBody("cook", 1) EXCEPT !.root = "NoObject"]

Request(route, method, c, i, body) ==
  [route |-> route, method |-> method, column |-> c, item |-> i, body |-> body]
OnBoard(method)            == Request("/api/board", method, 0, 0, NoJson)
OnColumns(method, body)    == Request("/api/board/columns", method, 0, 0, body)
OnColumn(method, c, body)  == Request("/api/board/columns/<int>", method, c, 0, body)
OnItems(method, c, body)   == Request("/api/board/columns/<int>/items", method, c, 0, body)
OnItem(method, c, i, body) == Request("/api/board/columns/<int>/items/<int>", method, c, i, body)

-----------------------------------------------------------------------------
Empty == [i \in {} |-> i]
EmptyFile == [tables |-> {}, column |-> Empty, item |-> Empty,
              columnSeq |-> 0, itemSeq |-> 0]

\* Two columns, the second before the first, and an item in each.
TwoColumns ==
  [tables |-> TableNames, columnSeq |-> 2, itemSeq |-> 2,
   column |-> <<[name |-> "todo", position |-> 2], [name |-> "done", position |-> 1]>>,
   item |-> <<[title |-> "cook", date |-> Newline - 1, position |-> 1, column_id |-> 1],
              [title |-> "wash", date |-> Newline - 1, position |-> 1, column_id |-> 2]>>]

\* One column with one item.
OneColumn ==
  [tables |-> TableNames, columnSeq |-> 1, itemSeq |-> 1,
   column |-> <<[name |-> "todo", position |-> 1]>>,
   item |-> <<[title |-> "cook", date |-> Newline - 1, position |-> 1, column_id |-> 1]>>]

MCText == {"todo", "done", "cook", "wash", "it's"}
MCBreaksSql == {"it's"}
MCDates == 0 .. Newline
MCPositions == 1 .. 2
MCIds == -IntHalf .. IntHalf - 1

SeedEmpty == {EmptyFile}
SeedOne   == {OneColumn}
SeedTwo   == {TwoColumns}
SeedAny   == {EmptyFile, OneColumn}

\* Every operation, on ids that exist and ids that do not, with bodies that
\* are good, rejected and undefined.
AllOperations ==
  { OnBoard("GET"), OnBoard("POST"), OnColumns("GET", NoJson),
    OnColumns("POST", ColumnBody("todo", 1)), OnColumns("POST", ColumnBody("it's", 2)),
    OnColumns("POST", NoPosition),
    OnColumn("GET", 1, NoJson), OnColumn("PUT", 1, ColumnBody("done", 2)),
    OnColumn("PUT", 2, ColumnBody("done", 1)), OnColumn("DELETE", 1, NoJson),
    OnItems("GET", 1, NoJson), OnItems("POST", 1, ItemBody("cook", 1)),
    OnItems("POST", 1, NoJson), OnItems("POST", 1, AnArray),
    OnItem("GET", 1, 1, NoJson), OnItem("PUT", 1, 1, ItemBody("wash", 2)),
    OnItem("PUT", 1, 1, ItemBody("it's", 1)), OnItem("PUT", 1, 2, ItemBody("wash", 1)),
    OnItem("DELETE", 1, 1, NoJson) }

\* Readers of several selects against writers that rename and move, delete
\* and insert columns and items.
ReadersAndWriters ==
  { OnBoard("GET"), OnColumn("GET", 1, NoJson),
    OnColumns("POST", ColumnBody("todo", 1)), OnColumn("DELETE", 1, NoJson),
    OnColumn("PUT", 1, ColumnBody("done", 2)),
    OnItems("POST", 1, ItemBody("cook", 2)),
    OnItem("PUT", 1, 1, ItemBody("wash", 2)), OnItem("DELETE", 2, 2, NoJson) }

\* Writers, and a GET.
Writers ==
  { OnItems("GET", 1, NoJson),
    OnColumns("POST", ColumnBody("todo", 1)), OnColumns("POST", ColumnBody("done", 2)),
    OnColumn("PUT", 1, ColumnBody("done", 1)),
    OnItems("POST", 1, ItemBody("wash", 2)),
    OnItem("PUT", 1, 1, ItemBody("wash", 1)) }

\* One shape of request for each run that shows a violation.
DeleteColumns == {OnColumns("GET", NoJson), OnColumn("DELETE", 1, NoJson)}
PostColumns   == {OnColumns("POST", ColumnBody("todo", 1)), OnColumns("POST", ColumnBody("done", 2)),
                  OnItems("GET", 1, NoJson)}
PutColumns    == {OnColumn("PUT", 1, ColumnBody("done", 1)),
                  OnColumn("PUT", 3, ColumnBody("todo", 2))}
PostItems     == {OnItems("GET", 1, NoJson), OnItems("POST", 1, ItemBody("wash", 2)),
                  OnItems("POST", 2, ItemBody("cook", 2))}
QuotedTitle   == {OnItem("PUT", 1, 1, ItemBody("wash", 1)),
                  OnItem("PUT", 1, 1, ItemBody("it's", 1))}
WideId        == {OnColumn("GET", 2 * IntHalf + 1, NoJson)}

AnyWorker == Permutations(Workers)
=============================================================================
