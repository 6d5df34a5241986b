---------------------------- MODULE WriterProofs ----------------------------
(***************************************************************************)
(* A POST or PUT during which no other thread writes: its answer shows     *)
(* what is stored, and an empty answer means that nothing was changed.     *)
(* The steps of one call share no transaction, so the proof follows the    *)
(* call from step to step: what it has written by then, and what the       *)
(* counters of the connection and the buffer of ctime say of it.           *)
(* From this, what the violations of BoardExpectations come of.            *)
(***************************************************************************)
EXTENDS BoardService_proofs, BoardExpectations

\* The steps of a write up to its statement.
BeforeWrite ==
  {"postColumn", "putColumn", "putItem", "ctime", "strlen", "truncate", "measure", "copy",
   "insertItem"}

Untouched(w)   == ever[w] = Stored /\ always[w] = Stored
ShowsStored(w) == columns[w] \subseteq StoredColumns /\ items[w] \subseteq StoredItems

\* What postItem knows of the buffer of ctime.
BufferOK(w) ==
  /\ pc[w] = "strlen" => ctimeBuf = Newline
  /\ pc[w] = "truncate" => ctimeBuf = Newline /\ length[w] = Newline
  /\ pc[w] = "measure" => ctimeBuf = Newline - 1
  /\ pc[w] = "copy" => ctimeBuf = Newline - 1 /\ length[w] = Newline - 1
  /\ pc[w] = "insertItem" => ctimeBuf = Newline - 1 /\ length[w] = Newline - 1

\* The row that a POST has inserted is the one of last_insert_rowid.
InsertOK(w) ==
  LET c == call[w] IN
  /\ c.op = "postColumn" => jsonColumn(lastRowid, c.text, c.position) \in StoredColumns
  /\ c.op = "postItem" =>
       jsonItem(c.column, lastRowid, c.text, c.position, ctimeBuf) \in StoredItems

\* One changed row is the one that a PUT of a column asked for.
ColumnPutOK(w) ==
  LET c == call[w] IN
  /\ changes = 1 => jsonColumn(c.column, c.text, c.position) \in StoredColumns
  /\ changes # 1 => Untouched(w)

\* So it is for a PUT of an item, if the update was run at all.
ItemPutOK(w) ==
  LET c == call[w]
      ran == Compiles("item", c.text) /\ changes = 1
  IN
  /\ ran => Selected(c) # {} /\ \A x \in Selected(c) : x.title = c.text /\ x.position = c.position
  /\ ~ran => Untouched(w)

\* How far the write of w has come.
WriteOK(w) ==
  LET c == call[w] IN
  /\ BufferOK(w)
  /\ pc[w] \in BeforeWrite => IsEmpty(w) /\ Untouched(w)
  /\ pc[w] = "last_insert_rowid" => IsEmpty(w) /\ InsertOK(w)
  /\ pc[w] = "timestamp" =>
       /\ columns[w] = {} /\ items[w] # {}
       /\ \A x \in items[w] : [x EXCEPT !.timestamp = ctimeBuf] \in StoredItems
  /\ pc[w] = "changes" /\ c.op = "putColumn" => IsEmpty(w) /\ ColumnPutOK(w)
  /\ pc[w] = "getItems" => columns[w] # {} /\ ShowsStored(w)
  /\ pc[w] = "selectItem" => IsEmpty(w) /\ (~Faults => ItemPutOK(w))
  /\ pc[w] = "changes" /\ c.op = "putItem" =>
       /\ columns[w] = {} /\ items[w] # {} /\ items[w] \subseteq Selected(c)
       /\ ~Faults => ItemPutOK(w)
  /\ pc[w] = "reply" =>
       /\ (c.op = "putItem" => ~Faults) /\ IsEmpty(w) => Untouched(w)
       /\ (c.op = "putItem" => ~Faults /\ Compiles("item", c.text)) => ShowsStored(w)

\* The inductive invariant of AcknowledgedIsStored and EmptyAnswerChangedNothing.
WriteInv ==
  /\ ~up => \A w \in Workers : pc[w] = "idle"
  /\ \A w \in Workers : IsWrite(w) /\ ~raced[w] => WriteOK(w)

\* It says what the two properties ask.
LEMMA WriteInvIsEnough == WriteInv => AcknowledgedIsStored /\ EmptyAnswerChangedNothing
BY DEF WriteInv, WriteOK, ShowsStored, Untouched, AcknowledgedIsStored,
   EmptyAnswerChangedNothing, Answers

-----------------------------------------------------------------------------
\* Only the steps in Disturbing touch what the threads share.
LEMMA QuietStep ==
  ASSUME NEW v \in Workers, RepositoryStep(v), pc[v] \notin Disturbing
  PROVE  UNCHANGED <<dbVars, connVars, ctimeBuf>>
<1>1. CASE getColumns(v) \/ getColumn(v) \/ getItems(v) \/ selectItem(v)
  BY <1>1 DEF getColumns, getColumn, getItems, selectItem, Select
<1>2. CASE strlen(v) \/ measure(v) \/ copy(v)
  BY <1>2 DEF strlen, measure, copy
<1>3. CASE last_insert_rowid(v) \/ timestamp(v) \/ changesOfColumn(v) \/ changesOfItem(v)
  BY <1>3 DEF last_insert_rowid, timestamp, changesOfColumn, changesOfItem
<1> QED
  BY <1>1, <1>2, <1>3
     DEF RepositoryStep, Disturbing, postColumn, putColumn, deleteColumn, putItem, deleteItem,
         ctime, truncate, insertItem

\* What is stored is a function of the file.
LEMMA StoredStays ==
  ASSUME UNCHANGED dbVars
  PROVE  StoredColumns' = StoredColumns /\ StoredItems' = StoredItems /\ Stored' = Stored
BY DEF dbVars, StoredColumns, StoredItems, Stored, ColumnJson, ItemJson

\* A call whose statements have written nothing so far has seen one file only.
LEMMA UntouchedStays ==
  ASSUME NEW v \in Workers, Work(v), UNCHANGED dbVars,
         NEW w \in Workers, pc[w] # "idle", Untouched(w)
  PROVE  Untouched(w)'
<1>1. Stored' = Stored
  BY StoredStays
<1>2. ever'[w] = Union(Stored, Stored) /\ always'[w] = Common(Stored, Stored)
  BY <1>1 DEF Work, Observe, Untouched
<1>3. Union(Stored, Stored) = Stored /\ Common(Stored, Stored) = Stored
  BY DEF Union, Common, Stored
<1> QED
  BY <1>1, <1>2, <1>3 DEF Untouched

\* Nobody races with a call but by a step that disturbs it.
LEMMA RacedStays ==
  ASSUME Observed, NEW v \in Workers, Work(v), NEW w \in Workers, ~raced'[w]
  PROVE  ~raced[w] /\ (v # w /\ pc[w] # "idle" => pc[v] \notin Disturbing)
BY DEF Work, Observe, Observed

\* A write that nobody touched is where it was.
LEMMA WriteStays ==
  ASSUME NEW w \in Workers, WriteOK(w), UNCHANGED <<dbVars, connVars, ctimeBuf>>,
         UNCHANGED <<pc[w], call[w], columns[w], items[w], length[w]>>,
         Untouched(w) => Untouched(w)'
  PROVE  WriteOK(w)'
<1>1. /\ StoredColumns' = StoredColumns /\ StoredItems' = StoredItems
      /\ Selected(call[w])' = Selected(call[w])
  BY StoredStays DEF Selected, ItemsUnder, ItemsOf, ItemJson, dbVars
<1>2. tables' = tables /\ changes' = changes /\ lastRowid' = lastRowid
  BY DEF dbVars, connVars
<1>3. IsEmpty(w)' = IsEmpty(w) /\ ShowsStored(w)' = ShowsStored(w) /\ BufferOK(w)' = BufferOK(w)
  BY <1>1 DEF IsEmpty, ShowsStored, BufferOK
<1>4. InsertOK(w)' = InsertOK(w)
  BY <1>1, <1>2 DEF InsertOK
<1>5. ColumnPutOK(w) => ColumnPutOK(w)'
  BY <1>1, <1>2 DEF ColumnPutOK
<1>6. /\ ItemPutOK(w) => ItemPutOK(w)'
      /\ Compiles("item", call[w].text)' = Compiles("item", call[w].text)
  BY <1>1, <1>2 DEF ItemPutOK, Compiles
<1> QED
  BY <1>1, <1>3, <1>4, <1>5, <1>6 DEF WriteOK

\* A quiet step of another leaves a write where it was.
LEMMA WorkKeepsOtherWrites ==
  ASSUME ProcessOK, NEW v \in Workers, Work(v), NEW w \in Workers \ {v}, pc[w] # "idle",
         UNCHANGED <<dbVars, connVars, ctimeBuf>>, WriteOK(w)
  PROVE  WriteOK(w)'
<1>1. /\ call'[w] = call[w] /\ pc'[w] = pc[w]
      /\ columns'[w] = columns[w] /\ items'[w] = items[w]
  BY OthersStay DEF Work
<1>2. length'[w] = length[w]
  BY StepIsLocal DEF Work, ProcessOK
<1>3. Untouched(w) => Untouched(w)'
  BY UntouchedStays
<1> QED
  BY <1>1, <1>2, <1>3, WriteStays

-----------------------------------------------------------------------------
\* An insert of a column leaves the row it asked for under lastRowid.
LEMMA PostColumnWrites ==
  ASSUME ProcessOK, NEW w \in Workers, Work(w), postColumn(w), WriteOK(w)
  PROVE  WriteOK(w)'
<1>1. /\ w \in DOMAIN pc /\ pc[w] = "postColumn" /\ call[w].op = "postColumn"
      /\ call' = call /\ IsEmpty(w) /\ Untouched(w) /\ IsEmpty(w)'
  BY DEF ProcessOK, IsAt, postColumn, WriteOK, BeforeWrite, IsEmpty, resultVars
<1>2. PICK rc \in Results :
        /\ ExecInsertColumn(call[w].text, call[w].position, rc)
        /\ pc' = [pc EXCEPT ![w] = AfterInsert(rc)]
  BY DEF postColumn, Goto
<1>3. CASE rc = "ok"
  <2>1. /\ pc'[w] = "last_insert_rowid" /\ InsertColumn(call[w].text, call[w].position)
        /\ lastRowid' = columnSeq + 1
    BY <1>1, <1>2, <1>3 DEF AfterInsert, ExecInsertColumn
  <2>2. /\ lastRowid' \in DOMAIN column'
        /\ column'[lastRowid'] = [name |-> call[w].text, position |-> call[w].position]
    BY <2>1 DEF InsertColumn, Put
  <2>3. jsonColumn(lastRowid', call[w].text, call[w].position) \in StoredColumns'
    BY <2>2 DEF StoredColumns, ColumnJson
  <2>4. InsertOK(w)'
    BY <1>1, <2>3 DEF InsertOK
  <2> QED
    BY <1>1, <2>1, <2>4 DEF WriteOK, BufferOK, BeforeWrite
<1>4. CASE rc = "error"
  <2>1. pc'[w] = "reply" /\ UNCHANGED dbVars
    BY <1>1, <1>2, <1>4
       DEF AfterInsert, ExecInsertColumn, NotPrepared, Aborted, NotCommitted
  <2>2. Untouched(w)'
    BY <1>1, <2>1, UntouchedStays
  <2> QED
    BY <1>1, <2>1, <2>2 DEF WriteOK, BufferOK, BeforeWrite, IsEmpty, ShowsStored
<1> QED
  BY <1>2, <1>3, <1>4 DEF Results

\* An update of a column that changes a row leaves it as it was asked for.
LEMMA PutColumnWrites ==
  ASSUME ProcessOK, NEW w \in Workers, Work(w), putColumn(w), WriteOK(w)
  PROVE  WriteOK(w)'
<1>1. /\ w \in DOMAIN pc /\ pc[w] = "putColumn" /\ call[w].op = "putColumn"
      /\ call' = call /\ IsEmpty(w) /\ Untouched(w) /\ IsEmpty(w)'
  BY DEF ProcessOK, IsAt, putColumn, WriteOK, BeforeWrite, IsEmpty, resultVars
<1> DEFINE c == call[w]
<1>2. PICK rc \in Results :
        /\ ExecUpdateColumn(c.column, c.text, c.position, rc)
        /\ pc' = [pc EXCEPT ![w] = IF rc = "ok" THEN "changes" ELSE "reply"]
  BY DEF putColumn, Goto
<1>3. CASE rc = "ok" /\ UpdateColumn(c.column, c.text, c.position)
  <2>1. pc'[w] = "changes" /\ changes' = 1
    BY <1>1, <1>2, <1>3 DEF ExecUpdateColumn, MatchedNothing, UpdateColumn
  <2>2. /\ c.column \in DOMAIN column'
        /\ column'[c.column] = [name |-> c.text, position |-> c.position]
    BY <1>3 DEF UpdateColumn, Put
  <2>3. jsonColumn(c.column, c.text, c.position) \in StoredColumns'
    BY <2>2 DEF StoredColumns, ColumnJson
  <2>4. ColumnPutOK(w)'
    BY <1>1, <2>1, <2>3 DEF ColumnPutOK
  <2> QED
    BY <1>1, <2>1, <2>4 DEF WriteOK, BufferOK, BeforeWrite
<1>4. CASE rc = "ok" /\ MatchedNothing("column", c.text, c.column \in DOMAIN column)
  <2>1. pc'[w] = "changes" /\ changes' = 0 /\ UNCHANGED dbVars
    BY <1>1, <1>2, <1>4 DEF MatchedNothing
  <2>2. ColumnPutOK(w)'
    BY <1>1, <2>1, UntouchedStays DEF ColumnPutOK
  <2> QED
    BY <1>1, <2>1, <2>2 DEF WriteOK, BufferOK, BeforeWrite
<1>5. CASE rc = "error"
  <2>1. pc'[w] = "reply" /\ UNCHANGED dbVars
    BY <1>1, <1>2, <1>5 DEF ExecUpdateColumn, NotPrepared, Aborted
  <2>2. Untouched(w)'
    BY <1>1, <2>1, UntouchedStays
  <2> QED
    BY <1>1, <2>1, <2>2 DEF WriteOK, BufferOK, BeforeWrite, IsEmpty, ShowsStored
<1> QED
  BY <1>2, <1>3, <1>4, <1>5 DEF Results, ExecUpdateColumn

\* The steps of the time stamp know the buffer and write nothing to the file.
LEMMA StampSteps ==
  ASSUME ProcessOK, NEW w \in Workers, Work(w), WriteOK(w),
         ctime(w) \/ strlen(w) \/ truncate(w) \/ measure(w) \/ copy(w)
  PROVE  WriteOK(w)'
<1>1. /\ w \in DOMAIN pc /\ w \in DOMAIN length /\ pc[w] \in BeforeWrite /\ pc[w] # "idle"
      /\ pc'[w] \in BeforeWrite \ {"postColumn"} /\ UNCHANGED dbVars
      /\ columns' = columns /\ items' = items
  BY DEF ProcessOK, ctime, strlen, truncate, measure, copy, BeforeWrite, Goto, resultVars
<1>2. IsEmpty(w)' /\ Untouched(w)'
  BY <1>1, UntouchedStays DEF WriteOK, IsEmpty
<1>3. BufferOK(w)'
  <2> USE <1>1, NewlineAssumption DEF Goto, WriteOK, BufferOK
  <2>1. CASE ctime(w)
    BY <2>1 DEF ctime
  <2>2. CASE strlen(w)
    BY <2>2 DEF strlen
  <2>3. CASE truncate(w)
    BY <2>3 DEF truncate, Cut
  <2>4. CASE measure(w)
    BY <2>4 DEF measure
  <2>5. CASE copy(w)
    BY <2>5 DEF copy
  <2> QED
    BY <2>1, <2>2, <2>3, <2>4, <2>5
<1> QED
  BY <1>1, <1>2, <1>3 DEF WriteOK, BeforeWrite

\* An insert of an item leaves the row it asked for under lastRowid, with the
\* time stamp that is in the buffer.
LEMMA InsertItemWrites ==
  ASSUME ProcessOK, NEW w \in Workers, Work(w), insertItem(w), WriteOK(w)
  PROVE  WriteOK(w)'
<1>1. /\ w \in DOMAIN pc /\ pc[w] = "insertItem" /\ call[w].op = "postItem"
      /\ call' = call /\ IsEmpty(w) /\ Untouched(w) /\ IsEmpty(w)'
  BY DEF ProcessOK, IsAt, insertItem, WriteOK, BeforeWrite, IsEmpty, resultVars
<1>2. ctimeBuf' = ctimeBuf /\ length[w] = ctimeBuf
  BY <1>1 DEF insertItem, WriteOK, BufferOK
<1> DEFINE c == call[w]
<1>3. PICK rc \in Results :
        /\ ExecInsertItem(c.text, length[w], c.position, c.column, length[w] = Torn, rc)
        /\ pc' = [pc EXCEPT ![w] = AfterInsert(rc)]
  BY DEF insertItem, Goto
<1>4. CASE rc = "ok"
  <2>1. /\ pc'[w] = "last_insert_rowid" /\ InsertItem(c.text, length[w], c.position, c.column)
        /\ lastRowid' = itemSeq + 1
    BY <1>1, <1>3, <1>4 DEF AfterInsert, ExecInsertItem
  <2>2. /\ lastRowid' \in DOMAIN item'
        /\ item'[lastRowid'] = [title |-> c.text, date |-> ctimeBuf', position |-> c.position,
                                column_id |-> c.column]
    BY <1>2, <2>1 DEF InsertItem, NextItemId, Put
  <2>3. jsonItem(c.column, lastRowid', c.text, c.position, ctimeBuf') \in StoredItems'
    BY <2>2 DEF StoredItems, ItemJson
  <2>4. InsertOK(w)'
    BY <1>1, <2>3 DEF InsertOK
  <2> QED
    BY <1>1, <2>1, <2>4 DEF WriteOK, BufferOK, BeforeWrite
<1>5. CASE rc = "error"
  <2>1. pc'[w] = "reply" /\ UNCHANGED dbVars
    BY <1>1, <1>3, <1>5
       DEF AfterInsert, ExecInsertItem, NotPrepared, Aborted, NotCommitted, connVars
  <2>2. Untouched(w)'
    BY <1>1, <2>1, UntouchedStays
  <2> QED
    BY <1>1, <2>1, <2>2 DEF WriteOK, BufferOK, BeforeWrite, IsEmpty, ShowsStored
<1> QED
  BY <1>3, <1>4, <1>5 DEF Results

\* A POST shows the row under lastRowid,
LEMMA RowidIsShown ==
  ASSUME ProcessOK, NEW w \in Workers, Work(w), last_insert_rowid(w), WriteOK(w)
  PROVE  WriteOK(w)'
<1>1. /\ w \in DOMAIN pc /\ w \in DOMAIN columns /\ w \in DOMAIN items
      /\ pc[w] = "last_insert_rowid" /\ call' = call /\ ctimeBuf' = ctimeBuf /\ UNCHANGED dbVars
      /\ IsEmpty(w) /\ InsertOK(w)
  BY DEF ProcessOK, last_insert_rowid, WriteOK
<1>2. StoredColumns' = StoredColumns /\ StoredItems' = StoredItems
  BY <1>1, StoredStays
<1>3. CASE call[w].op = "postColumn"
  <2>1. /\ columns'[w] = {jsonColumn(lastRowid, call[w].text, call[w].position)}
        /\ items'[w] = {} /\ pc'[w] = "reply"
    BY <1>1, <1>3 DEF last_insert_rowid, Goto, IsEmpty
  <2> QED
    BY <1>1, <1>2, <1>3, <2>1
       DEF WriteOK, BufferOK, BeforeWrite, InsertOK, IsEmpty, ShowsStored
<1>4. CASE call[w].op = "postItem"
  <2> DEFINE x == jsonItem(call[w].column, lastRowid, call[w].text, call[w].position, 0)
  <2>1. columns'[w] = {} /\ items'[w] = {x} /\ pc'[w] = "timestamp"
    BY <1>1, <1>4 DEF last_insert_rowid, Goto, IsEmpty
  <2>2. [x EXCEPT !.timestamp = ctimeBuf'] \in StoredItems'
    BY <1>1, <1>2, <1>4 DEF InsertOK, jsonItem
  <2> HIDE DEF x
  <2> QED
    BY <1>1, <1>4, <2>1, <2>2 DEF WriteOK, BufferOK, BeforeWrite
<1> QED
  BY <1>3, <1>4 DEF last_insert_rowid

\* and a POST of an item the time stamp that is in the buffer.
LEMMA StampIsShown ==
  ASSUME ProcessOK, NEW w \in Workers, Work(w), timestamp(w), WriteOK(w)
  PROVE  WriteOK(w)'
<1>1. /\ w \in DOMAIN pc /\ w \in DOMAIN items /\ pc[w] = "timestamp" /\ call' = call
      /\ call[w].op = "postItem" /\ UNCHANGED dbVars /\ columns'[w] = {} /\ items[w] # {}
      /\ \A x \in items[w] : [x EXCEPT !.timestamp = ctimeBuf] \in StoredItems
  BY DEF ProcessOK, IsAt, timestamp, WriteOK
<1>2. /\ items'[w] = {[x EXCEPT !.timestamp = ctimeBuf] : x \in items[w]}
      /\ pc'[w] = "reply"
  BY <1>1 DEF timestamp, Stamp, Goto
<1>3. items'[w] # {} /\ items'[w] \subseteq StoredItems'
  BY <1>1, <1>2, StoredStays
<1> QED
  BY <1>1, <1>2, <1>3 DEF WriteOK, BufferOK, BeforeWrite, IsEmpty, ShowsStored

\* A PUT of a column shows what it asked for, if a row was changed.
LEMMA PutColumnShows ==
  ASSUME ProcessOK, NEW w \in Workers, Work(w), changesOfColumn(w), WriteOK(w)
  PROVE  WriteOK(w)'
<1>1. /\ w \in DOMAIN pc /\ w \in DOMAIN columns /\ pc[w] = "changes" /\ call' = call
      /\ call[w].op = "putColumn" /\ UNCHANGED dbVars /\ IsEmpty(w) /\ ColumnPutOK(w)
      /\ items' = items
  BY DEF ProcessOK, changesOfColumn, WriteOK
<1>2. CASE Matched
  <2>1. /\ columns'[w] = {jsonColumn(call[w].column, call[w].text, call[w].position)}
        /\ pc'[w] = "getItems"
    BY <1>1, <1>2 DEF changesOfColumn, Goto
  <2>2. columns'[w] # {} /\ columns'[w] \subseteq StoredColumns' /\ items'[w] \subseteq StoredItems'
    BY <1>1, <1>2, <2>1, StoredStays DEF ColumnPutOK, Matched, IsEmpty
  <2> QED
    BY <1>1, <2>1, <2>2 DEF WriteOK, BufferOK, BeforeWrite, ShowsStored
<1>3. CASE ~Matched
  <2>1. pc'[w] = "reply" /\ IsEmpty(w)'
    BY <1>1, <1>3 DEF changesOfColumn, Goto, IsEmpty
  <2>2. Untouched(w)'
    BY <1>1, <1>3, UntouchedStays DEF ColumnPutOK, Matched
  <2> QED
    BY <1>1, <2>1, <2>2 DEF WriteOK, BufferOK, BeforeWrite, IsEmpty, ShowsStored
<1> QED
  BY <1>2, <1>3

\* It adds the items that are stored under the column.
LEMMA PutColumnReads ==
  ASSUME ProcessOK, NEW w \in Workers, Work(w), getItems(w), IsWrite(w), WriteOK(w)
  PROVE  WriteOK(w)'
<1>1. /\ w \in DOMAIN pc /\ w \in DOMAIN items /\ pc[w] = "getItems" /\ call' = call
      /\ call[w].op = "putColumn" /\ UNCHANGED dbVars /\ columns' = columns
      /\ columns[w] # {} /\ ShowsStored(w)
  BY DEF ProcessOK, IsAt, IsWrite, ColumnWrites, ItemWrites, getItems, Select, WriteOK
<1>2. PICK c \in todo[w] :
        /\ \E found \in SUBSET ItemsUnder(c) : items' = [items EXCEPT ![w] = @ \cup found]
        /\ pc' = [pc EXCEPT ![w] = IF Rest(w, c) = {} THEN "reply" ELSE "getItems"]
  BY DEF getItems, Goto
<1>3. items'[w] \subseteq items[w] \cup StoredItems /\ pc'[w] \in {"reply", "getItems"}
  BY <1>1, <1>2, ItemsUnderAreStored
<1>4. ShowsStored(w)' /\ columns'[w] # {}
  BY <1>1, <1>3, StoredStays DEF ShowsStored
<1> QED
  BY <1>1, <1>3, <1>4 DEF WriteOK, BufferOK, BeforeWrite, IsEmpty

\* An update of an item that changes a row leaves it as it was asked for.
LEMMA PutItemWrites ==
  ASSUME ProcessOK, FileOK, NEW w \in Workers, Work(w), putItem(w), WriteOK(w)
  PROVE  WriteOK(w)'
<1> DEFINE c == call[w]
<1>1. /\ w \in DOMAIN pc /\ pc[w] = "putItem" /\ c.op = "putItem" /\ call' = call
      /\ IsEmpty(w) /\ Untouched(w) /\ IsEmpty(w)' /\ pc'[w] = "selectItem"
  BY DEF ProcessOK, IsAt, putItem, WriteOK, BeforeWrite, IsEmpty, resultVars, Goto
<1>2. PICK rc \in Results : ExecUpdateItem(c.item, c.column, c.text, c.position, rc)
  BY DEF putItem
<1>3. UNCHANGED dbVars => Untouched(w)'
  BY <1>1, UntouchedStays
<1>4. tables' = tables
  BY <1>2 DEF ExecUpdateItem, UpdateItem, NotPrepared, Aborted, MatchedNothing, dbVars
<1>5. ASSUME ~Faults PROVE ItemPutOK(w)'
  <2>1. CASE UpdateItem(c.item, c.column, c.text, c.position) /\ Compiles("item", c.text)
             /\ changes' = 1
    <3>1. /\ c.item \in DOMAIN item' /\ item'[c.item].title = c.text
          /\ item'[c.item].position = c.position /\ item'[c.item].column_id = c.column
      BY <2>1 DEF UpdateItem, Put
    <3>2. ItemJson(c.column, c.item)' \in Selected(call[w])'
      BY <1>1, <3>1 DEF Selected, ItemsUnder, ItemsOf, ItemJson, jsonItem
    <3>3. \A x \in Selected(call[w])' : x.title = c.text /\ x.position = c.position
      BY <1>1, <3>1 DEF Selected, ItemsUnder, ItemJson, jsonItem
    <3> QED
      BY <1>1, <1>4, <2>1, <3>2, <3>3 DEF ItemPutOK, Compiles
  <2>2. CASE UNCHANGED dbVars /\ (~Compiles("item", c.text) \/ changes' = 0)
    BY <1>1, <1>3, <1>4, <2>2 DEF ItemPutOK, Compiles
  <2> QED
    BY <1>2, <1>5, <2>1, <2>2
       DEF Results, ExecUpdateItem, NotPrepared, Aborted, MatchedNothing
<1> QED
  BY <1>1, <1>5 DEF WriteOK, BufferOK, BeforeWrite

\* The select after it reads that row, or none if there is none.
LEMMA PutItemReads ==
  ASSUME ProcessOK, NEW w \in Workers, Work(w), selectItem(w), IsWrite(w), WriteOK(w)
  PROVE  WriteOK(w)'
<1> DEFINE c == call[w]
<1>1. /\ w \in DOMAIN pc /\ w \in DOMAIN items /\ pc[w] = "selectItem" /\ call' = call
      /\ c.op = "putItem" /\ UNCHANGED <<dbVars, connVars>> /\ columns' = columns
      /\ IsEmpty(w) /\ (~Faults => ItemPutOK(w))
  BY DEF ProcessOK, IsAt, IsWrite, ColumnWrites, ItemWrites, selectItem, Select, WriteOK
<1>2. PICK found \in {Selected(c), {}} :
        /\ \/ Select("item", "ok") /\ found = Selected(c)
           \/ Select("item", "error") /\ found = {}
        /\ items' = [items EXCEPT ![w] = found]
        /\ pc' = [pc EXCEPT ![w] = IF c.op = "putItem" /\ found # {} THEN "changes" ELSE "reply"]
  BY DEF selectItem, Goto
<1>3. /\ items'[w] = found /\ columns'[w] = {}
      /\ pc'[w] = IF found # {} THEN "changes" ELSE "reply"
  BY <1>1, <1>2 DEF IsEmpty
<1>4. Selected(call[w])' = Selected(call[w])
  BY <1>1 DEF dbVars, Selected, ItemsUnder, ItemsOf, ItemJson
<1>5. tables' = tables /\ changes' = changes
  BY <1>1 DEF dbVars, connVars
<1>6. Untouched(w) => Untouched(w)'
  BY <1>1, UntouchedStays
<1>7. ItemPutOK(w) => ItemPutOK(w)'
  BY <1>1, <1>4, <1>5, <1>6 DEF ItemPutOK, Compiles
<1>8. CASE found # {}
  BY <1>1, <1>2, <1>3, <1>4, <1>7, <1>8 DEF WriteOK, BufferOK, BeforeWrite
<1>9. CASE found = {}
  <2>1. ~Faults => Untouched(w)
    BY <1>1, <1>2, <1>9 DEF ItemPutOK, Compiles, Select
  <2> QED
    BY <1>1, <1>3, <1>6, <1>9, <2>1 DEF WriteOK, BufferOK, BeforeWrite, IsEmpty, ShowsStored
<1> QED
  BY <1>8, <1>9

\* A PUT of an item shows what it asked for, if a row was changed.
LEMMA PutItemShows ==
  ASSUME ProcessOK, NEW w \in Workers, Work(w), changesOfItem(w), WriteOK(w)
  PROVE  WriteOK(w)'
<1> DEFINE c == call[w]
<1>1. /\ w \in DOMAIN pc /\ w \in DOMAIN items /\ pc[w] = "changes" /\ call' = call
      /\ c.op = "putItem" /\ UNCHANGED <<dbVars, connVars>> /\ columns'[w] = {}
      /\ items[w] # {} /\ items[w] \subseteq Selected(c) /\ (~Faults => ItemPutOK(w))
      /\ pc'[w] = "reply"
  BY DEF ProcessOK, changesOfItem, WriteOK, Goto
<1>2. items'[w] = {jsonItem(c.column, c.item, c.text, c.position, x.timestamp) :
                     x \in IF Matched THEN items[w] ELSE {}}
  BY <1>1 DEF changesOfItem
<1>3. Compiles("item", c.text)' = Compiles("item", c.text)
  BY <1>1 DEF dbVars, Compiles
<1>4. Selected(c) \subseteq StoredItems
  BY ItemsUnderAreStored DEF Selected
<1>5. \A x \in Selected(c) :
        x = jsonItem(c.column, c.item, x.title, x.position, x.timestamp)
  BY DEF Selected, ItemsUnder, ItemJson, jsonItem
<1>6. ASSUME ~Faults, Compiles("item", c.text) PROVE ShowsStored(w)'
  <2>1. items'[w] \subseteq StoredItems
    BY <1>1, <1>2, <1>4, <1>5, <1>6 DEF ItemPutOK, Matched
  <2> QED
    BY <1>1, <2>1, StoredStays DEF ShowsStored
<1>7. ASSUME ~Faults, IsEmpty(w)' PROVE Untouched(w)'
  <2>1. ~Matched
    BY <1>1, <1>2, <1>7 DEF IsEmpty
  <2> QED
    BY <1>1, <1>7, <2>1, UntouchedStays DEF ItemPutOK, Matched
<1> QED
  BY <1>1, <1>3, <1>6, <1>7 DEF WriteOK, BufferOK, BeforeWrite

-----------------------------------------------------------------------------
\* A step of a write takes it one step further.
LEMMA WorkAdvancesWrite ==
  ASSUME ProcessOK, FileOK, NEW w \in Workers, Work(w), IsWrite(w), WriteOK(w)
  PROVE  WriteOK(w)'
<1>1. IsAt(pc[w], call[w].op) /\ call[w].op \in ColumnWrites \cup ItemWrites /\ RepositoryStep(w)
  BY DEF ProcessOK, IsWrite, Work
<1>2. pc[w] \notin {"getColumns", "getColumn", "deleteColumn", "deleteItem"}
  BY <1>1 DEF IsAt, PostOps, ColumnWrites, ItemWrites
<1>3. \/ postColumn(w) \/ putColumn(w) \/ putItem(w) \/ insertItem(w)
      \/ ctime(w) \/ strlen(w) \/ truncate(w) \/ measure(w) \/ copy(w)
      \/ last_insert_rowid(w) \/ timestamp(w) \/ changesOfColumn(w) \/ changesOfItem(w)
      \/ getItems(w) \/ selectItem(w)
  BY <1>1, <1>2 DEF RepositoryStep, getColumns, getColumn, deleteColumn, deleteItem
<1> QED
  BY <1>3, PostColumnWrites, PutColumnWrites, PutItemWrites, InsertItemWrites, StampSteps,
     RowidIsShown, StampIsShown, PutColumnShows, PutItemShows, PutColumnReads, PutItemReads

\* A step of any worker keeps the writes of all that it does not disturb.
LEMMA WorkKeepsWrites ==
  ASSUME TypeOK, WriteInv, NEW v \in Workers, Work(v), NEW w \in Workers,
         IsWrite(w)', ~raced'[w]
  PROVE  WriteOK(w)'
<1>1. ProcessOK /\ FileOK /\ Observed /\ RepositoryStep(v)
  BY TypeOKParts, FileOKIsDatabaseInv DEF Work
<1>2. call' = call
  BY <1>1, StepIsLocal
<1>3. IsWrite(w) /\ ~raced[w] /\ (v # w /\ pc[w] # "idle" => pc[v] \notin Disturbing)
  BY <1>1, <1>2, RacedStays DEF IsWrite
<1>4. pc[w] # "idle"
  BY <1>1, <1>3 DEF ProcessOK, IsAt, IsWrite, ColumnWrites, ItemWrites
<1>5. WriteOK(w)
  BY <1>3 DEF WriteInv
<1>6. CASE v = w
  BY <1>1, <1>3, <1>5, <1>6, WorkAdvancesWrite
<1>7. CASE v # w
  <2>1. UNCHANGED <<dbVars, connVars, ctimeBuf>>
    BY <1>1, <1>3, <1>4, <1>7, QuietStep
  <2> QED
    BY <1>1, <1>4, <1>5, <1>7, <2>1, WorkKeepsOtherWrites
<1> QED
  BY <1>6, <1>7

\* A request begins with an empty result and the file as it is.
LEMMA ReceiveStartsWrites ==
  ASSUME TypeOK, ReadingOK, WriteInv, NEW v \in Workers, NEW r \in Requests, Receive(v, r),
         NEW w \in Workers, IsWrite(w)', ~raced'[w]
  PROVE  WriteOK(w)'
<1>1. /\ DOMAIN pc = Workers /\ DOMAIN call = Workers
      /\ DOMAIN ever = Workers /\ DOMAIN always = Workers
  BY TypeOKParts DEF ProcessOK, Observed
<1>2. PICK c \in CallsOf(r) :
        pc' = [pc EXCEPT ![v] = EntryOf(c.op)] /\ call' = [call EXCEPT ![v] = c]
  BY DEF Receive, Goto
<1>3. /\ UNCHANGED <<dbVars, connVars, ctimeBuf>> /\ columns' = columns /\ items' = items
      /\ length' = length /\ raced' = raced
      /\ ever' = [ever EXCEPT ![v] = Stored] /\ always' = [always EXCEPT ![v] = Stored]
  BY DEF Receive
<1>4. StoredColumns' = StoredColumns /\ StoredItems' = StoredItems /\ Stored' = Stored
  BY <1>3, StoredStays
<1>5. CASE w = v
  <2>1. IsEmpty(w)'
    BY <1>3, <1>5 DEF Receive, ReadingOK, IsEmpty
  <2>2. Untouched(w)'
    BY <1>1, <1>3, <1>4, <1>5 DEF Untouched
  <2>3. pc'[w] \in BeforeWrite \ {"strlen", "truncate", "measure", "copy", "insertItem"}
    BY <1>1, <1>2, <1>5 DEF IsWrite, ColumnWrites, ItemWrites, EntryOf, BeforeWrite
  <2> QED
    BY <2>1, <2>2, <2>3 DEF WriteOK, BufferOK, BeforeWrite
<1>6. CASE w # v
  <2>1. /\ pc'[w] = pc[w] /\ call'[w] = call[w] /\ ever'[w] = ever[w] /\ always'[w] = always[w]
        /\ columns'[w] = columns[w] /\ items'[w] = items[w] /\ length'[w] = length[w]
    BY <1>1, <1>2, <1>3, <1>6
  <2>2. WriteOK(w)
    BY <1>3, <2>1 DEF WriteInv, IsWrite
  <2>3. Untouched(w)' = Untouched(w)
    BY <1>4, <2>1 DEF Untouched
  <2> QED
    BY <1>3, <2>1, <2>2, <2>3, WriteStays
<1> QED
  BY <1>5, <1>6

\* The answer of one request is sent, and the others go on.
LEMMA ReplyKeepsWrites ==
  ASSUME TypeOK, WriteInv, NEW v \in Workers, Reply(v), NEW w \in Workers,
         IsWrite(w)', ~raced'[w]
  PROVE  WriteOK(w)'
<1>1. /\ DOMAIN pc = Workers /\ DOMAIN call = Workers /\ DOMAIN raced = Workers
      /\ DOMAIN ever = Workers /\ DOMAIN always = Workers /\ DOMAIN length = Workers
      /\ DOMAIN columns = Workers /\ DOMAIN items = Workers
  BY TypeOKParts DEF ProcessOK, Observed
<1>2. w # v
  BY <1>1 DEF Reply, IsWrite, NoCall, ColumnWrites, ItemWrites
<1>3. /\ UNCHANGED <<dbVars, connVars, ctimeBuf>> /\ raced'[w] = raced[w]
      /\ pc'[w] = pc[w] /\ call'[w] = call[w] /\ ever'[w] = ever[w] /\ always'[w] = always[w]
      /\ columns'[w] = columns[w] /\ items'[w] = items[w] /\ length'[w] = length[w]
  BY <1>1, <1>2 DEF Reply, Goto, Cleared
<1>4. WriteOK(w)
  BY <1>3 DEF WriteInv, IsWrite
<1>5. Untouched(w)' = Untouched(w)
  BY <1>3, StoredStays DEF Untouched
<1> QED
  BY <1>3, <1>4, <1>5, WriteStays

\* A process that is down has no request under way.
LEMMA DownIsIdle ==
  ASSUME TypeOK, WriteInv, [Next]_vars, ~up'
  PROVE  \A w \in Workers : pc'[w] = "idle"
<1>1. CASE Start
  BY <1>1 DEF Start
<1>2. CASE Crash
  BY <1>2 DEF Crash, PerWorker
<1>3. CASE \E w \in Workers : Work(w) \/ Reply(w) \/ \E r \in Requests : Receive(w, r)
  BY <1>3 DEF Work, Reply, Receive
<1>4. CASE UNCHANGED vars
  BY <1>4 DEF vars, repoVars, WriteInv
<1> QED
  BY <1>1, <1>2, <1>3, <1>4 DEF Next

\* No step of the service breaks the invariant.
LEMMA NextKeepsWrites == TypeOK /\ ReadingOK /\ WriteInv /\ [Next]_vars => WriteInv'
<1> SUFFICES ASSUME TypeOK, ReadingOK, WriteInv, [Next]_vars,
                    NEW w \in Workers, IsWrite(w)', ~raced'[w]
             PROVE  WriteOK(w)'
  BY DownIsIdle DEF WriteInv
<1>1. CASE Start
  <2>1. pc[w] = "idle" /\ IsWrite(w)
    BY <1>1 DEF Start, WriteInv, repoVars, IsWrite
  <2> QED
    BY <2>1 DEF TypeOK, IsAt, IsWrite, ColumnWrites, ItemWrites
<1>2. CASE Crash
  BY <1>2 DEF Crash, PerWorker, IsWrite, NoCall, ColumnWrites, ItemWrites
<1>3. ASSUME NEW v \in Workers, Work(v) PROVE WriteOK(w)'
  BY <1>3, WorkKeepsWrites
<1>4. ASSUME NEW v \in Workers, Reply(v) PROVE WriteOK(w)'
  BY <1>4, ReplyKeepsWrites
<1>5. ASSUME NEW v \in Workers, NEW r \in Requests, Receive(v, r) PROVE WriteOK(w)'
  BY <1>5, ReceiveStartsWrites
<1>6. CASE UNCHANGED vars
  <2>1. IsWrite(w) /\ ~raced[w] /\ WriteOK(w)
    BY <1>6 DEF vars, repoVars, obsVars, WriteInv, IsWrite
  <2>2. Untouched(w)' = Untouched(w)
    BY <1>6, StoredStays DEF vars, obsVars, Untouched
  <2> QED
    BY <1>6, <2>1, <2>2, WriteStays DEF vars, repoVars
<1> QED
  BY <1>1, <1>2, <1>3, <1>4, <1>5, <1>6 DEF Next

\* At the start there is no request.
LEMMA InitWrites == Init => WriteInv
BY DEF Init, PerWorker, NoCall, WriteInv, IsWrite, ColumnWrites, ItemWrites

\* The invariant holds at all times.
LEMMA WritesAreOK == Spec => []WriteInv
BY InitTypes, NextTypes, InitReading, NextKeepsReading, InitWrites, NextKeepsWrites, PTL DEF Spec

\* A POST or PUT that no other thread wrote beside is answered with what is
\* stored, id and time stamp included, for any number of threads, whatever
\* fails (BoardRepository.cpp:126-178 and 222-277).
THEOREM UnracedAnswersAreStored == Spec => []AcknowledgedIsStored
BY WritesAreOK, WriteInvIsEnough, PTL

\* And if it is answered "{}" it has changed nothing.
THEOREM UnracedRefusalsChangeNothing == Spec => []EmptyAnswerChangedNothing
BY WritesAreOK, WriteInvIsEnough, PTL

-----------------------------------------------------------------------------
(***************************************************************************)
(* What the service acknowledges of a POST was stored, with any number of  *)
(* threads that write: the id in the answer may be of another row          *)
(* (rowid_race), the rest is not.                                          *)
(***************************************************************************)
\* A column, and an item, that says what call c asks for.
ColumnOf(c, y) == y.name = c.text /\ y.position = c.position
ItemOf(c, y)   == y.column = c.column /\ y.title = c.text /\ y.position = c.position

ColumnWasStored(w) == \E y \in ever[w].columns : ColumnOf(call[w], y)
ItemWasStored(w)   == \E y \in ever[w].items : ItemOf(call[w], y)

\* The steps of a POST up to its insert.
BeforeInsert ==
  {"idle", "postColumn", "ctime", "strlen", "truncate", "measure", "copy", "insertItem"}

\* How far a POST has come, step by step: nothing to show before the insert,
\* and after it only what the call asked for, which is stored by then.
PostOK(w) ==
  /\ pc[w] \in BeforeInsert => IsEmpty(w)
  /\ call[w].op = "postColumn" =>
       /\ pc[w] = "last_insert_rowid" => ColumnWasStored(w)
       /\ pc[w] = "reply" =>
            \A x \in columns[w] : ColumnOf(call[w], x) /\ ColumnWasStored(w)
  /\ call[w].op = "postItem" =>
       /\ pc[w] = "last_insert_rowid" => ItemWasStored(w)
       /\ pc[w] \in {"timestamp", "reply"} =>
            \A x \in items[w] : ItemOf(call[w], x) /\ ItemWasStored(w)

\* The inductive invariant of PostedRowsWereStored.
PostInv == \A w \in Workers : PostOK(w)

\* It says what the property asks.
LEMMA PostInvIsEnough == PostInv => PostedRowsWereStored
BY DEF PostInv, PostOK, ColumnWasStored, ItemWasStored, ColumnOf, ItemOf,
   PostedRowsWereStored, Answers

-----------------------------------------------------------------------------
\* A column that was inserted is stored after the step.
LEMMA InsertedColumnIsStored ==
  ASSUME NEW name, NEW p, InsertColumn(name, p)
  PROVE  \E y \in StoredColumns' : y.name = name /\ y.position = p
<1>1. /\ columnSeq + 1 \in DOMAIN column'
      /\ column'[columnSeq + 1] = [name |-> name, position |-> p]
  BY DEF InsertColumn, Put
<1>2. DEFINE y == jsonColumn(columnSeq + 1, column'[columnSeq + 1].name,
                             column'[columnSeq + 1].position)
<1>3. y \in StoredColumns'
  BY <1>1 DEF StoredColumns, ColumnJson
<1>4. y.name = name /\ y.position = p
  BY <1>1 DEF jsonColumn
<1> QED
  BY <1>3, <1>4

\* An item that was inserted is stored after the step.
LEMMA InsertedItemIsStored ==
  ASSUME NEW title, NEW date, NEW p, NEW c, InsertItem(title, date, p, c)
  PROVE  \E y \in StoredItems' : y.column = c /\ y.title = title /\ y.position = p
<1>1. /\ itemSeq + 1 \in DOMAIN item'
      /\ item'[itemSeq + 1] =
           [title |-> title, date |-> date, position |-> p, column_id |-> c]
  BY DEF InsertItem, NextItemId, Put
<1>2. DEFINE r == item'[itemSeq + 1]
             y == jsonItem(r.column_id, itemSeq + 1, r.title, r.position, r.date)
<1>3. y \in StoredItems'
  BY <1>1 DEF StoredItems, ItemJson
<1>4. y.column = c /\ y.title = title /\ y.position = p
  BY <1>1 DEF jsonItem
<1> QED
  BY <1>3, <1>4

\* What a worker that is within a request has seen stored, it keeps.
LEMMA WorkRemembers ==
  ASSUME ProcessOK, NEW w \in Workers, Work(w), NEW v \in Workers, pc[v] # "idle"
  PROVE  /\ ever'[v].columns = ever[v].columns \cup StoredColumns'
         /\ ever'[v].items = ever[v].items \cup StoredItems'
BY DEF Work, Observe, Union, Stored

\* A step of worker w leaves the POST of another where it was.
LEMMA WorkKeepsOtherPosts ==
  ASSUME ProcessOK, NEW w \in Workers, Work(w), NEW v \in Workers \ {w}, PostOK(v)
  PROVE  PostOK(v)'
<1>1. /\ call'[v] = call[v] /\ pc'[v] = pc[v]
      /\ columns'[v] = columns[v] /\ items'[v] = items[v]
  BY OthersStay DEF Work
<1>2. CASE pc[v] = "idle"
  BY <1>1, <1>2 DEF PostOK, IsEmpty, BeforeInsert
<1>3. CASE pc[v] # "idle"
  <2>1. ever[v].columns \subseteq ever'[v].columns /\ ever[v].items \subseteq ever'[v].items
    BY <1>3, WorkRemembers
  <2>2. /\ ColumnWasStored(v) => ColumnWasStored(v)'
        /\ ItemWasStored(v) => ItemWasStored(v)'
    BY <1>1, <2>1 DEF ColumnWasStored, ItemWasStored, ColumnOf, ItemOf
  <2> QED
    BY <1>1, <2>2 DEF PostOK, IsEmpty, ColumnOf, ItemOf
<1> QED
  BY <1>2, <1>3

\* A step of a worker takes its own POST one step further.
LEMMA WorkAdvancesPost ==
  ASSUME ProcessOK, NEW w \in Workers, Work(w), PostOK(w)
  PROVE  PostOK(w)'
<1>1. /\ w \in DOMAIN pc /\ w \in DOMAIN columns /\ w \in DOMAIN items
      /\ IsAt(pc[w], call[w].op) /\ RepositoryStep(w)
  BY DEF ProcessOK, Work
<1>2. pc[w] # "idle" /\ call' = call /\ IsAt(pc'[w], call[w].op)
  BY <1>1, StepIsLocal, StepStaysInCall
     DEF RepositoryStep, getColumns, getColumn, getItems, selectItem, postColumn, putColumn,
         deleteColumn, putItem, deleteItem, ctime, strlen, truncate, measure, copy, insertItem,
         last_insert_rowid, timestamp, changesOfColumn, changesOfItem
<1>3. /\ ever'[w].columns = ever[w].columns \cup StoredColumns'
      /\ ever'[w].items = ever[w].items \cup StoredItems'
  BY <1>2, WorkRemembers
<1>4. /\ ColumnWasStored(w) => ColumnWasStored(w)'
      /\ ItemWasStored(w) => ItemWasStored(w)'
  BY <1>2, <1>3 DEF ColumnWasStored, ItemWasStored, ColumnOf, ItemOf
<1>5. CASE call[w].op \notin PostOps
  <2>1. pc'[w] \notin BeforeInsert
    BY <1>1, <1>2, <1>5, StepLeavesEntry DEF IsAt, BeforeInsert, PostOps
  <2> QED
    BY <1>2, <1>5, <2>1 DEF PostOK, PostOps
<1>6. CASE call[w].op = "postColumn"
  <2>1. pc[w] \in {"postColumn", "last_insert_rowid", "reply"}
    BY <1>1, <1>2, <1>6 DEF IsAt, PostOps
  <2>2. CASE postColumn(w)
    <3>1. IsEmpty(w)
      BY <2>2 DEF postColumn, PostOK, BeforeInsert
    <3>2. IsEmpty(w)'
      BY <2>2, <3>1 DEF postColumn, resultVars, IsEmpty
    <3>3. pc'[w] = "last_insert_rowid" => InsertColumn(call[w].text, call[w].position)
      BY <1>1, <2>2 DEF postColumn, Results, AfterInsert, ExecInsertColumn, Goto
    <3>4. pc'[w] = "last_insert_rowid" => ColumnWasStored(w)'
      BY <1>2, <1>3, <3>3, InsertedColumnIsStored DEF ColumnWasStored, ColumnOf
    <3> QED
      BY <1>2, <1>6, <3>2, <3>4 DEF PostOK, IsEmpty
  <2>3. CASE last_insert_rowid(w)
    <3>1. /\ pc'[w] = "reply" /\ ColumnWasStored(w)
          /\ columns'[w] = {jsonColumn(lastRowid, call[w].text, call[w].position)}
      BY <1>1, <1>6, <2>3 DEF last_insert_rowid, Goto, PostOK
    <3> QED
      BY <1>2, <1>4, <1>6, <3>1 DEF PostOK, BeforeInsert, ColumnOf, jsonColumn
  <2> QED
    BY <1>1, <2>1, <2>2, <2>3
       DEF RepositoryStep, getColumns, getColumn, getItems, selectItem, putColumn,
           deleteColumn, putItem, deleteItem, ctime, strlen, truncate, measure, copy,
           insertItem, timestamp, changesOfColumn, changesOfItem
<1>7. CASE call[w].op = "postItem"
  <2>1. pc[w] \in {"ctime", "strlen", "truncate", "measure", "copy", "insertItem",
                   "last_insert_rowid", "timestamp", "reply"}
    BY <1>1, <1>2, <1>7 DEF IsAt, PostOps
  <2>2. CASE ctime(w) \/ strlen(w) \/ truncate(w) \/ measure(w) \/ copy(w)
    <3>1. pc[w] \in BeforeInsert /\ pc'[w] \in BeforeInsert
          /\ columns' = columns /\ items' = items
      BY <1>1, <2>2 DEF ctime, strlen, truncate, measure, copy, Goto, resultVars, BeforeInsert
    <3> QED
      BY <1>2, <1>7, <3>1 DEF PostOK, IsEmpty, BeforeInsert
  <2>3. CASE insertItem(w)
    <3>1. IsEmpty(w)
      BY <2>3 DEF insertItem, PostOK, BeforeInsert
    <3>2. IsEmpty(w)'
      BY <2>3, <3>1 DEF insertItem, resultVars, IsEmpty
    <3>3. pc'[w] = "last_insert_rowid" =>
            InsertItem(call[w].text, length[w], call[w].position, call[w].column)
      BY <1>1, <2>3 DEF insertItem, Results, AfterInsert, ExecInsertItem, Goto
    <3>4. pc'[w] = "last_insert_rowid" => ItemWasStored(w)'
      BY <1>2, <1>3, <3>3, InsertedItemIsStored DEF ItemWasStored, ItemOf
    <3> QED
      BY <1>2, <1>7, <3>2, <3>4 DEF PostOK, IsEmpty
  <2>4. CASE last_insert_rowid(w)
    <3>1. /\ pc'[w] = "timestamp" /\ ItemWasStored(w)
          /\ items'[w] = {jsonItem(call[w].column, lastRowid, call[w].text,
                                   call[w].position, 0)}
      BY <1>1, <1>7, <2>4 DEF last_insert_rowid, Goto, PostOK
    <3> QED
      BY <1>2, <1>4, <1>7, <3>1 DEF PostOK, BeforeInsert, ItemOf, jsonItem
  <2>5. CASE timestamp(w)
    <3>1. /\ pc[w] = "timestamp" /\ pc'[w] = "reply"
          /\ items'[w] = {[x EXCEPT !.timestamp = Stamp] : x \in items[w]}
      BY <1>1, <2>5 DEF timestamp, Goto
    <3>2. \A x \in items[w] : ItemOf(call[w], x) /\ ItemWasStored(w)
      BY <1>7, <3>1 DEF PostOK
    <3>3. \A x \in items'[w] : ItemOf(call[w], x) /\ ItemWasStored(w)
      BY <1>1, <3>1, <3>2 DEF ItemOf, ProcessOK, ItemJsons
    <3> QED
      BY <1>2, <1>4, <1>7, <3>1, <3>3 DEF PostOK, BeforeInsert, ItemOf
  <2> QED
    BY <1>1, <2>1, <2>2, <2>3, <2>4, <2>5
       DEF RepositoryStep, getColumns, getColumn, getItems, selectItem, postColumn, putColumn,
           deleteColumn, putItem, deleteItem, changesOfColumn, changesOfItem
<1> QED
  BY <1>5, <1>6, <1>7 DEF PostOps

-----------------------------------------------------------------------------
\* No step of the service breaks the invariant.
LEMMA NextKeepsPosts == TypeOK /\ PostInv /\ [Next]_vars => PostInv'
<1> SUFFICES ASSUME TypeOK, PostInv, [Next]_vars PROVE PostInv'
  OBVIOUS
<1>1. /\ ProcessOK /\ DOMAIN pc = Workers /\ DOMAIN call = Workers
      /\ DOMAIN columns = Workers /\ DOMAIN items = Workers /\ DOMAIN ever = Workers
  BY TypeOKParts DEF ProcessOK, Observed
<1> USE DEF PostInv, PostOK, ColumnWasStored, ItemWasStored, ColumnOf, ItemOf, IsEmpty
<1>2. CASE Start
  BY <1>2 DEF Start, repoVars, obsVars
<1>3. CASE Crash
  BY <1>3 DEF Crash, PerWorker, NoCall
<1>4. ASSUME NEW w \in Workers, Work(w) PROVE PostInv'
  <2>1. \A v \in Workers : PostOK(v)'
    BY <1>1, <1>4, WorkKeepsOtherPosts, WorkAdvancesPost
  <2> QED
    BY <2>1
<1>5. ASSUME NEW w \in Workers, Reply(w) PROVE PostInv'
  <2>1. columns'[w] = {} /\ items'[w] = {} /\ pc'[w] = "idle"
    BY <1>1, <1>5 DEF Reply, Cleared, Goto
  <2>2. \A v \in Workers \ {w} :
          /\ pc'[v] = pc[v] /\ call'[v] = call[v] /\ ever'[v] = ever[v]
          /\ columns'[v] = columns[v] /\ items'[v] = items[v]
    BY <1>1, <1>5 DEF Reply, Cleared, Goto
  <2> QED
    BY <2>1, <2>2
<1>6. ASSUME NEW w \in Workers, NEW r \in Requests, Receive(w, r) PROVE PostInv'
  <2>1. PICK c \in CallsOf(r) :
          pc' = [pc EXCEPT ![w] = EntryOf(c.op)] /\ call' = [call EXCEPT ![w] = c]
    BY <1>6 DEF Receive, Goto
  <2>2. IsEmpty(w) /\ columns' = columns /\ items' = items
    BY <1>6 DEF Receive, BeforeInsert
  <2>3. c.op \in PostOps => EntryOf(c.op) \in BeforeInsert
    BY DEF PostOps, EntryOf, BeforeInsert
  <2>4. PostOK(w)'
    BY <1>1, <2>1, <2>2, <2>3 DEF PostOps, BeforeInsert
  <2>5. \A v \in Workers \ {w} :
          pc'[v] = pc[v] /\ call'[v] = call[v] /\ ever'[v] = ever[v]
    BY <1>1, <1>6, <2>1 DEF Receive
  <2> QED
    BY <2>2, <2>4, <2>5
<1>7. CASE UNCHANGED vars
  BY <1>7 DEF vars, repoVars, obsVars
<1> QED
  BY <1>2, <1>3, <1>4, <1>5, <1>6, <1>7 DEF Next

\* A POST is answered with an object only if its row was stored during the
\* request, with any number of threads, failures and crashes
\* (BoardRepository.cpp:126-145 and 222-246).
THEOREM AcknowledgedPostsWereStored == Spec => []PostedRowsWereStored
<1>1. Init => PostInv
  BY DEF Init, PerWorker, NoCall, PostInv, PostOK, IsEmpty
<1> QED
  BY <1>1, PostInvIsEnough, InitTypes, NextTypes, NextKeepsPosts, PTL DEF Spec

-----------------------------------------------------------------------------
(***************************************************************************)
(* BoardExpectations, turned around: each expectation fails for the reason *)
(* that its comment gives and for no other.  Without that reason it holds. *)
(***************************************************************************)

\* Only the column that a call names is in its result, and a PUT that found
\* none has read no items.
ColumnsOK(w) ==
  LET c == call[w] IN
  /\ pc[w] \in {"idle", "getColumn", "putColumn"} => IsEmpty(w)
  /\ c.op \in {"getColumn", "putColumn"} => \A x \in columns[w] : x.id = c.column
  /\ c.op = "putColumn" =>
       /\ pc[w] = "getItems" => columns[w] # {}
       /\ pc[w] # "getItems" /\ columns[w] = {} => items[w] = {}

\* A call was asked for,
AskedOK(w) == call[w].op # "none" => \E r \in Requests : call[w] \in CallsOf(r)

\* has seen what is stored now,
SeenOK(w) ==
  pc[w] # "idle" =>
    StoredColumns \subseteq ever[w].columns /\ StoredItems \subseteq ever[w].items

\* and runs on a file that has the tables, unless that failed at the start.
CauseInv ==
  /\ ~up => \A w \in Workers : pc[w] = "idle"
  /\ up /\ ~Faults => TableNames \subseteq tables
  /\ \A w \in Workers : ColumnsOK(w) /\ AskedOK(w) /\ SeenOK(w)

\* With one thread, none is raced.
UnracedInv == \A w \in Workers : ~raced[w]

\* A statement drops no table.
LEMMA TablesStay == ASSUME [DatabaseNext]_dbVars PROVE tables \subseteq tables'
BY DEF DatabaseNext, dbVars, CreateTables, InsertColumn, UpdateColumn, DeleteColumn,
   InsertItem, UpdateItem, DeleteItem

\* A step keeps to the column that the call names.
LEMMA StepKeepsColumns ==
  ASSUME ProcessOK, NEW w \in Workers, RepositoryStep(w), ColumnsOK(w)
  PROVE  ColumnsOK(w)'
<1>1. /\ w \in DOMAIN pc /\ w \in DOMAIN columns /\ w \in DOMAIN items
      /\ call' = call /\ IsAt(pc[w], call[w].op)
      /\ pc'[w] \notin {"idle", "getColumn"}
  BY StepIsLocal, StepLeavesEntry DEF ProcessOK
<1> USE <1>1 DEF Goto, resultVars
<1>2. pc'[w] # "putColumn"
  BY DEF RepositoryStep, AfterInsert, getColumns, getColumn, getItems, selectItem,
     postColumn, putColumn, deleteColumn, putItem, deleteItem, ctime, strlen, truncate, measure,
     copy, insertItem, last_insert_rowid, timestamp, changesOfColumn, changesOfItem
<1>3. CASE call[w].op \notin {"getColumn", "putColumn"}
  BY <1>2, <1>3 DEF ColumnsOK
<1>4. CASE getColumn(w)
  BY <1>2, <1>4 DEF getColumn, ColumnsOK, IsAt, ColumnJson, jsonColumn, IsEmpty
<1>5. CASE getItems(w)
  BY <1>2, <1>5 DEF getItems, ColumnsOK
<1>6. CASE putColumn(w)
  BY <1>2, <1>6 DEF putColumn, ColumnsOK, IsEmpty
<1>7. CASE changesOfColumn(w)
  <2>1. /\ pc[w] = "changes" /\ items' = items
        /\ \/ /\ columns'[w] = {jsonColumn(call[w].column, call[w].text, call[w].position)}
              /\ pc'[w] = "getItems"
           \/ columns' = columns /\ pc'[w] = "reply"
    BY <1>7 DEF changesOfColumn
  <2>2. jsonColumn(call[w].column, call[w].text, call[w].position).id = call[w].column
    BY DEF jsonColumn
  <2> QED
    BY <1>2, <2>1, <2>2 DEF ColumnsOK
<1>8. CASE call[w].op \in {"getColumn", "putColumn"}
  <2>1. pc[w] \in {"idle", "reply", "getColumn", "putColumn", "getItems", "changes"}
    BY <1>8 DEF IsAt, PostOps
  <2>2. getColumn(w) \/ getItems(w) \/ putColumn(w) \/ changesOfColumn(w)
    BY <1>8, <2>1
       DEF RepositoryStep, getColumns, selectItem, postColumn, deleteColumn, putItem, deleteItem,
           ctime, strlen, truncate, measure, copy, insertItem, last_insert_rowid, timestamp,
           changesOfItem
  <2> QED
    BY <1>4, <1>5, <1>6, <1>7, <2>2
<1> QED
  BY <1>3, <1>8

\* No step of the service breaks the invariant.
LEMMA NextKeepsCauses == TypeOK /\ CauseInv /\ [Next]_vars => CauseInv'
<1> SUFFICES ASSUME TypeOK, CauseInv, [Next]_vars PROVE CauseInv'
  OBVIOUS
<1>1. /\ ProcessOK /\ DOMAIN pc = Workers /\ DOMAIN call = Workers
      /\ DOMAIN columns = Workers /\ DOMAIN items = Workers /\ DOMAIN ever = Workers
  BY TypeOKParts DEF ProcessOK, Observed
<1>2. tables \subseteq tables'
  BY NextIsStep, TablesStay
<1> USE DEF CauseInv
<1>3. CASE Start
  <2>1. /\ up' /\ (~Faults => TableNames \subseteq tables')
        /\ \A w \in Workers : pc'[w] = "idle"
    BY <1>3 DEF Start, CreateTables, repoVars
  <2>2. \A w \in Workers : ColumnsOK(w)' /\ AskedOK(w)'
    BY <1>3 DEF Start, repoVars, ColumnsOK, AskedOK, IsEmpty
  <2> QED
    BY <2>1, <2>2 DEF SeenOK
<1>4. CASE Crash
  <2>1. /\ ~up' /\ \A w \in Workers : pc'[w] = "idle" /\ call'[w] = NoCall
        /\ \A w \in Workers : columns'[w] = {} /\ items'[w] = {}
    BY <1>4 DEF Crash, PerWorker
  <2> QED
    BY <2>1 DEF ColumnsOK, AskedOK, SeenOK, IsEmpty, NoCall
<1>5. ASSUME NEW w \in Workers, Work(w) PROVE CauseInv'
  <2>1. up /\ up' /\ RepositoryStep(w) /\ call' = call
    BY <1>1, <1>5, StepIsLocal DEF Work
  <2>2. \A v \in Workers \ {w} : /\ pc'[v] = pc[v]
                                 /\ columns'[v] = columns[v] /\ items'[v] = items[v]
    BY <1>1, <2>1, OthersStay
  <2>3. ColumnsOK(w)'
    BY <1>1, <2>1, StepKeepsColumns
  <2>4. \A v \in Workers \ {w} : ColumnsOK(v)'
    BY <2>1, <2>2 DEF ColumnsOK, IsEmpty
  <2>5. \A v \in Workers : AskedOK(v)'
    BY <2>1 DEF AskedOK
  <2>6. pc[w] # "idle"
    BY <2>1 DEF RepositoryStep, getColumns, getColumn, getItems, selectItem, postColumn, putColumn,
       deleteColumn, putItem, deleteItem, ctime, strlen, truncate, measure, copy, insertItem,
       last_insert_rowid, timestamp, changesOfColumn, changesOfItem
  <2>7. \A v \in Workers : SeenOK(v)'
    BY <1>1, <1>5, <2>2, <2>6, WorkRemembers DEF SeenOK
  <2> QED
    BY <1>2, <2>1, <2>3, <2>4, <2>5, <2>7
<1>6. ASSUME NEW w \in Workers, Reply(w) PROVE CauseInv'
  <2>1. /\ columns'[w] = {} /\ items'[w] = {} /\ pc'[w] = "idle" /\ call'[w] = NoCall
        /\ up /\ up' /\ UNCHANGED dbVars
    BY <1>1, <1>6 DEF Reply, Cleared, Goto
  <2>2. \A v \in Workers \ {w} :
          /\ pc'[v] = pc[v] /\ call'[v] = call[v] /\ ever'[v] = ever[v]
          /\ columns'[v] = columns[v] /\ items'[v] = items[v]
    BY <1>1, <1>6 DEF Reply, Cleared, Goto
  <2>3. ColumnsOK(w)' /\ AskedOK(w)' /\ SeenOK(w)'
    BY <2>1 DEF ColumnsOK, AskedOK, SeenOK, IsEmpty, NoCall
  <2>4. \A v \in Workers \ {w} : ColumnsOK(v)' /\ AskedOK(v)' /\ SeenOK(v)'
    BY <2>1, <2>2, StoredStays DEF ColumnsOK, AskedOK, SeenOK, IsEmpty
  <2> QED
    BY <1>2, <2>1, <2>3, <2>4
<1>7. ASSUME NEW w \in Workers, NEW r \in Requests, Receive(w, r) PROVE CauseInv'
  <2>1. PICK c \in CallsOf(r) :
          pc' = [pc EXCEPT ![w] = EntryOf(c.op)] /\ call' = [call EXCEPT ![w] = c]
    BY <1>7 DEF Receive, Goto
  <2>2. /\ IsEmpty(w) /\ columns' = columns /\ items' = items
        /\ up /\ up' /\ UNCHANGED dbVars /\ ever' = [ever EXCEPT ![w] = Stored]
    BY <1>7 DEF Receive, ColumnsOK
  <2>3. pc'[w] = EntryOf(c.op) /\ call'[w] = c /\ ever'[w] = Stored
    BY <1>1, <2>1, <2>2
  <2>4. ColumnsOK(w)' /\ AskedOK(w)'
    BY <2>1, <2>2, <2>3 DEF ColumnsOK, AskedOK, IsEmpty, EntryOf
  <2>5. SeenOK(w)'
    BY <2>2, <2>3, StoredStays DEF SeenOK, Stored
  <2>6. \A v \in Workers \ {w} :
          pc'[v] = pc[v] /\ call'[v] = call[v] /\ ever'[v] = ever[v]
    BY <1>1, <2>1, <2>2
  <2>7. \A v \in Workers \ {w} : ColumnsOK(v)' /\ AskedOK(v)' /\ SeenOK(v)'
    BY <2>2, <2>6, StoredStays DEF ColumnsOK, AskedOK, SeenOK, IsEmpty
  <2> QED
    BY <1>2, <2>2, <2>4, <2>5, <2>7
<1>8. CASE UNCHANGED vars
  BY <1>8, StoredStays DEF vars, repoVars, obsVars, ColumnsOK, AskedOK, SeenOK, IsEmpty, dbVars
<1> QED
  BY <1>3, <1>4, <1>5, <1>6, <1>7, <1>8 DEF Next

\* The invariant holds at all times.
LEMMA CausesAreKnown == Spec => []CauseInv
<1>1. Init => CauseInv
  BY DEF Init, PerWorker, NoCall, CauseInv, ColumnsOK, AskedOK, SeenOK, IsEmpty
<1> QED
  BY <1>1, InitTypes, NextTypes, NextKeepsCauses, PTL DEF Spec

\* With one thread no request is raced.
LEMMA AloneIsUnraced ==
  ASSUME OneWorker PROVE Spec => []UnracedInv
<1>1. Init => UnracedInv
  BY DEF Init, PerWorker, UnracedInv
<1>2. UnracedInv /\ [Next]_vars => UnracedInv'
  <2> SUFFICES ASSUME UnracedInv, [Next]_vars, NEW v \in Workers PROVE ~raced'[v]
    BY DEF UnracedInv
  <2>1. CASE Start \/ UNCHANGED vars
    BY <2>1 DEF Start, vars, obsVars, UnracedInv
  <2>2. CASE Crash
    BY <2>2 DEF Crash, PerWorker
  <2>3. ASSUME NEW w \in Workers, Work(w) PROVE ~raced'[v]
    BY <2>3, OneWorker DEF Work, Observe, UnracedInv, OneWorker
  <2>4. ASSUME NEW w \in Workers, Reply(w) PROVE ~raced'[v]
    BY <2>4 DEF Reply, UnracedInv
  <2>5. ASSUME NEW w \in Workers, NEW r \in Requests, Receive(w, r) PROVE ~raced'[v]
    BY <2>5 DEF Receive, UnracedInv
  <2> QED
    BY <2>1, <2>2, <2>3, <2>4, <2>5 DEF Next
<1> QED
  BY <1>1, <1>2, PTL DEF Spec

\* A request that nobody raced shows the row it asked for.
LEMMA UnracedKeepsExpectations ==
  ASSUME CauseInv, UnracedInv, AcknowledgedIsStored
  PROVE  PostedColumnHasItsId /\ PutMissingColumnIsEmpty /\ PostedItemHasItsStamp
<1>1. ASSUME NEW w \in Workers, Answers(w), IsWrite(w), call[w].op # "putItem"
      PROVE  columns[w] \subseteq ever[w].columns /\ items[w] \subseteq ever[w].items
  <2>1. columns[w] \subseteq StoredColumns /\ items[w] \subseteq StoredItems
    BY <1>1 DEF AcknowledgedIsStored, UnracedInv
  <2>2. StoredColumns \subseteq ever[w].columns /\ StoredItems \subseteq ever[w].items
    BY <1>1 DEF CauseInv, SeenOK, Answers
  <2> QED
    BY <2>1, <2>2
<1>2. PostedColumnHasItsId
  BY <1>1 DEF PostedColumnHasItsId, IsWrite, ColumnWrites
<1>3. PutMissingColumnIsEmpty
  <2> SUFFICES ASSUME NEW w \in Workers, Answers(w), call[w].op = "putColumn",
                      \A x \in ever[w].columns : x.id # call[w].column
               PROVE  IsEmpty(w)
    BY DEF PutMissingColumnIsEmpty
  <2>1. columns[w] = {}
    BY <1>1 DEF CauseInv, ColumnsOK, IsWrite, ColumnWrites
  <2> QED
    BY <2>1 DEF CauseInv, ColumnsOK, Answers, IsEmpty
<1>4. PostedItemHasItsStamp
  BY <1>1 DEF PostedItemHasItsStamp, IsWrite, ItemWrites
<1> QED
  BY <1>2, <1>3, <1>4

\* With one thread, whatever fails or crashes, a POST is answered with the id
\* and the stamp it has stored, and a PUT of a column that does not exist with
\* "{}": the answers that rowid_race, stamp_race and changes_race find come of
\* the connection and the buffer that threads share, and of nothing else
\* (BoardRepository.cpp:139, 160 and 242).
THEOREM OneThreadKeepsExpectations ==
  ASSUME OneWorker
  PROVE  Spec => [](PostedColumnHasItsId /\ PutMissingColumnIsEmpty /\ PostedItemHasItsStamp)
BY CausesAreKnown, AloneIsUnraced, UnracedAnswersAreStored, UnracedKeepsExpectations, PTL

-----------------------------------------------------------------------------
\* The requests whose titles are no danger to the statement, and those whose
\* ids an int holds.
TitlesCompile ==
  \A r \in Requests : r.body.title.type = "String" => r.body.title.data \notin BreaksSql
IdsFit == \A r \in Requests : r.column \in -IntHalf .. IntHalf - 1

\* What a request hands to its call.
LEMMA CallsAreAsked ==
  ASSUME NEW r \in Requests, NEW c \in CallsOf(r), c.op # "none"
  PROVE  /\ c.column = Narrow(r.column)
         /\ c.op = "putItem" =>
              r.body.title.type = "String" /\ c.text = r.body.title.data
<1>1. c # NoCall
  BY DEF NoCall
<1>2. PICK op \in HandlersOf(r.route, r.method) :
        \E parsed \in ParsedBodies(op, r.body) : c \in CallsFor(op, r, parsed)
  BY <1>1 DEF CallsOf
<1>3. PICK parsed \in ParsedBodies(op, r.body) : c \in CallsFor(op, r, parsed)
  BY <1>2
<1>4. PICK model \in parsed :
        c = [op |-> op, column |-> Narrow(r.column), item |-> Narrow(r.item),
             text |-> model.text, position |-> model.position]
  BY <1>1, <1>3 DEF CallsFor
<1>5. ASSUME op = "putItem"
      PROVE  r.body.title.type = "String" /\ model.text = r.body.title.data
  <2>1. parsed = convertItemToModel(r.body) \/ parsed = {}
    BY <1>3, <1>5 DEF ParsedBodies, OutcomesOf, ColumnWrites, ItemWrites
  <2>2. /\ isValidItem(r.body)
        /\ model = [text |-> r.body.title.data, position |-> r.body.position.data]
    BY <1>4, <2>1 DEF convertItemToModel
  <2> QED
    BY <2>2 DEF isValidItem
<1> QED
  BY <1>4, <1>5

\* An id that an int holds stays what it is.
LEMMA NarrowKeeps ==
  ASSUME NEW id \in -IntHalf .. IntHalf - 1 PROVE Narrow(id) = id
<1>1. \A n \in Nat \ {0} : \A m \in 0 .. n - 1 : m % n = m
  OBVIOUS
<1>2. id + IntHalf \in 0 .. 2 * IntHalf - 1 /\ 2 * IntHalf \in Nat \ {0}
  BY IntHalfAssumption
<1>3. (id + IntHalf) % (2 * IntHalf) = id + IntHalf
  BY <1>1, <1>2
<1> QED
  BY <1>3, IntHalfAssumption DEF Narrow

\* If no title breaks its statement and the file does not fail, a PUT of an
\* item that nobody raced and that is answered with the item has stored it, for
\* any number of threads: what quoted_title finds comes of the concatenated
\* statement, and of nothing else (BoardRepository.cpp:252-268).
THEOREM CompilingPutsAreStored ==
  ASSUME Faults = FALSE, TitlesCompile
  PROVE  Spec => []AcknowledgedPutIsStored
<1>1. CauseInv /\ AcknowledgedIsStored => AcknowledgedPutIsStored
  <2> SUFFICES ASSUME CauseInv, AcknowledgedIsStored, NEW w \in Workers,
                      Answers(w), call[w].op = "putItem", ~raced[w]
               PROVE  items[w] \subseteq StoredItems
    BY DEF AcknowledgedPutIsStored
  <2>1. "item" \in tables
    BY DEF CauseInv, Answers, TableNames
  <2>2. call[w].text \notin BreaksSql
    BY CallsAreAsked, TitlesCompile DEF CauseInv, AskedOK, TitlesCompile
  <2> QED
    BY <2>1, <2>2, Faults = FALSE DEF AcknowledgedIsStored, IsWrite, ItemWrites, Compiles
<1> QED
  BY <1>1, CausesAreKnown, UnracedAnswersAreStored, PTL

\* If every id of a link fits an int, the column that a GET shows is the one it
\* names, for any number of threads: what wide_id finds comes of the handlers'
\* parameters, and of nothing else (Endpoint.cpp:50).
THEOREM FittingIdsAreShown ==
  ASSUME IdsFit PROVE Spec => []ShownColumnWasAskedFor
<1>1. CauseInv => ShownColumnWasAskedFor
  <2> SUFFICES ASSUME CauseInv, NEW w \in Workers, call[w].op = "getColumn",
                      NEW x \in columns[w]
               PROVE  \E r \in Requests : call[w] \in CallsOf(r) /\ r.column = x.id
    BY DEF ShownColumnWasAskedFor
  <2>1. PICK r \in Requests : call[w] \in CallsOf(r)
    BY DEF CauseInv, AskedOK
  <2>2. call[w].column = r.column
    BY <2>1, CallsAreAsked, NarrowKeeps, IdsFit DEF IdsFit
  <2> QED
    BY <2>1, <2>2 DEF CauseInv, ColumnsOK
<1> QED
  BY <1>1, CausesAreKnown, PTL
=============================================================================
