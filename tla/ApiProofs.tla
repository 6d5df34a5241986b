----------------------------- MODULE ApiProofs ------------------------------
(***************************************************************************)
(* One thread, and a file that does not fail: the service implements       *)
(* BoardApi, for any requests and any crashes.  A read collects what is    *)
(* stored, since nobody writes meanwhile; a write knows, at every look at  *)
(* a counter, at the buffer of ctime or at a row, whose they are.          *)
(***************************************************************************)
EXTENDS ServiceApi, StampProofs

\* The steps at which a call has collected nothing yet.
NothingYet ==
  {"idle", "getColumns", "getColumn", "postColumn", "putColumn", "deleteColumn", "putItem",
   "deleteItem", "ctime", "strlen", "truncate", "measure", "copy", "insertItem",
   "selectItem", "last_insert_rowid"}

\* The loop over columns has the items of those that it is through with.
LoopOK(w) ==
  LET c == call[w] IN
  /\ c.op \in {"getBoard", "getColumns"} =>
       /\ columns[w] = StoredColumns /\ todo[w] \subseteq DOMAIN column
       /\ items[w] = UNION {ItemsUnder(i) : i \in DOMAIN column \ todo[w]}
  /\ c.op \in {"getColumn", "getItems", "putColumn"} =>
       todo[w] = {c.column} /\ items[w] = {}
  /\ c.op = "getColumn" => c.column \in DOMAIN column /\ columns[w] = {ColumnJson(c.column)}
  /\ c.op = "getItems" => columns[w] = {}
  /\ c.op = "putColumn" => columns[w] = {jsonColumn(c.column, c.text, c.position)}

\* What a call has collected at each step.
ServedOK(w) ==
  LET c == call[w] IN
  /\ pc[w] \in NothingYet \/ (pc[w] = "changes" /\ c.op = "putColumn") => IsEmpty(w)
  /\ pc[w] = "timestamp" =>
       columns[w] = {} /\ items[w] = {jsonItem(c.column, lastRowid, c.text, c.position, 0)}
  /\ pc[w] = "changes" /\ c.op = "putItem" => columns[w] = {} /\ items[w] = Selected(c)
  /\ pc[w] = "getItems" => LoopOK(w)

\* The inductive invariant of ServesAtomically.
ServedInv ==
  /\ up => tables = TableNames
  /\ ~up => \A w \in Workers : pc[w] = "idle"
  /\ StampOK
  /\ \A w \in Workers : ServedOK(w)

-----------------------------------------------------------------------------
\* BoardApi turns requests into calls as BoardManager does.
LEMMA SameCalls ==
  ASSUME NEW r
  PROVE  Api!CallsOf(r) = CallsOf(r)
BY DEF Api!CallsOf, CallsOf, Api!CallsFor, CallsFor, Api!ParsedBodies, ParsedBodies,
       Api!HandlersOf, HandlersOf, Api!registerRoutes, registerRoutes, Api!NoCall, NoCall,
       Api!Narrow, Narrow, Api!ColumnWrites, ColumnWrites, Api!ItemWrites, ItemWrites,
       Api!OutcomesOf, OutcomesOf, Api!Undefined, Undefined,
       Api!convertColumnToModel, convertColumnToModel, Api!convertItemToModel,
       convertItemToModel, Api!isValidColumn, isValidColumn, Api!isValidItem, isValidItem

\* A step that neither settles an answer nor gives one.
LEMMA Stutters ==
  ASSUME OneWorker, NEW w \in Workers, UNCHANGED dbVars, call' = call,
         Stage(w)' = Stage(w), Answer(w)' = Answer(w)
  PROVE  UNCHANGED Api!apiVars
<1>1. [v \in Workers |-> Stage(v)]' = [v \in Workers |-> Stage(v)]
  BY DEF OneWorker
<1>2. [v \in Workers |-> Answer(v)]' = [v \in Workers |-> Answer(v)]
  BY DEF OneWorker
<1> QED
  BY <1>1, <1>2 DEF Api!apiVars, Api!dbVars, dbVars

\* A step that settles the answer of a call.
LEMMA Performs ==
  ASSUME OneWorker, NEW w \in Workers, call' = call,
         Stage(w) = "asked", Stage(w)' = "done",
         NEW a, a = Answer(w)',
         NEW c, c = call[w],
         \/ Api!Reads(c, a) \/ Api!Writes(c, a) \/ Api!Deletes(c, a)
         \/ Api!Refuses(c, a) \/ Api!Pretends(c, a)
  PROVE  Api!Perform(w)
<1>1. [v \in Workers |-> Stage(v)]' = [[v \in Workers |-> Stage(v)] EXCEPT ![w] = "done"]
  BY DEF OneWorker
<1>2. [v \in Workers |-> Answer(v)]' = [[v \in Workers |-> Answer(v)] EXCEPT ![w] = a]
  BY DEF OneWorker
<1>3. [v \in Workers |-> Answer(v)]'[w] = a
  BY <1>2
<1> QED
  BY <1>1, <1>2, <1>3
     DEF Api!Perform, Api!Reads, Api!Writes, Api!Deletes, Api!Refuses, Api!Pretends

-----------------------------------------------------------------------------
\* What BoardApi shows is made of rows as the answers of the code are.
LEMMA SameRows ==
  /\ \A i : Api!ColumnJson(i) = ColumnJson(i)
  /\ \A c : Api!ItemsUnder(c) = ItemsUnder(c)
  /\ \A S : Api!Shown(S) = [columns |-> {ColumnJson(i) : i \in S},
                            items |-> UNION {ItemsUnder(i) : i \in S}]
  /\ \A S : Api!Only(S) = [columns |-> {}, items |-> S]
  /\ Api!Nothing = Nothing
<1>1. \A i : Api!ColumnJson(i) = ColumnJson(i)
  BY DEF Api!ColumnJson, ColumnJson, Api!jsonColumn, jsonColumn
<1>2. \A c, i : Api!ItemJson(c, i) = ItemJson(c, i)
  BY DEF Api!ItemJson, ItemJson, Api!jsonItem, jsonItem
<1>3. \A c : Api!ItemsUnder(c) = ItemsUnder(c)
  BY <1>2 DEF Api!ItemsUnder, ItemsUnder, Api!ItemsOf, ItemsOf
<1>4. \A S : Api!Shown(S) = [columns |-> {ColumnJson(i) : i \in S},
                             items |-> UNION {ItemsUnder(i) : i \in S}]
  BY <1>1, <1>3 DEF Api!Shown
<1>5. Api!Nothing = Nothing /\ \A S : Api!Only(S) = [columns |-> {}, items |-> S]
  BY DEF Api!Nothing, Nothing, Api!Only
<1> QED
  BY <1>1, <1>3, <1>4, <1>5

\* What every step of the one thread begins with.
LEMMA Beginning ==
  ASSUME ProcessOK, ServedInv, up, Faults = FALSE, NEW w \in Workers
  PROVE  /\ w \in DOMAIN pc /\ w \in DOMAIN columns /\ w \in DOMAIN items
         /\ w \in DOMAIN todo /\ w \in DOMAIN length
         /\ IsAt(pc[w], call[w].op) /\ ServedOK(w)
         /\ \A table \in TableNames : Select(table, "ok") <=> UNCHANGED <<dbVars, connVars>>
         /\ \A table \in TableNames : ~Select(table, "error")
         /\ tables = TableNames
BY DEF ProcessOK, ServedInv, Select

\* getColumns answers at once if there is no column, or goes on to the items.
LEMMA GetColumnsServes ==
  ASSUME OneWorker, ProcessOK, ServedInv, up, Faults = FALSE, NEW w \in Workers, getColumns(w)
  PROVE  ServedOK(w)' /\ (Api!Perform(w) \/ UNCHANGED Api!apiVars)
<1>1. /\ pc[w] = "getColumns" /\ call[w].op \in {"getBoard", "getColumns"}
      /\ columns[w] = {} /\ items[w] = {}
      /\ w \in DOMAIN pc /\ w \in DOMAIN columns /\ w \in DOMAIN items /\ w \in DOMAIN todo
  BY Beginning DEF getColumns, IsAt, ServedOK, NothingYet, IsEmpty
<1>2. /\ UNCHANGED dbVars /\ call' = call /\ items' = items
      /\ columns'[w] = StoredColumns /\ todo'[w] = DOMAIN column
      /\ pc'[w] = IF DOMAIN column = {} THEN "reply" ELSE "getItems"
  BY <1>1, Beginning DEF getColumns, Goto, TableNames
<1>3. Stage(w) = "asked" /\ Answer(w) = Nothing
  BY <1>1 DEF Stage, Answer, Done
<1>4. CASE DOMAIN column = {}
  <2>1. Stage(w)' = "done" /\ Answer(w)' = [columns |-> StoredColumns, items |-> {}]
    BY <1>1, <1>2, <1>4 DEF Stage, Answer, Done
  <2>2. Answer(w)' = Api!Shown(DOMAIN column)
    BY <1>4, <2>1, SameRows DEF StoredColumns
  <2>3. \A c, a : c = call[w] /\ a = Answer(w)' => Api!Reads(c, a)
    BY <1>1, <1>2, <2>2 DEF Api!Reads, Api!dbVars, dbVars
  <2>4. Api!Perform(w)
    BY <1>2, <1>3, <2>1, <2>3, Performs
  <2> QED
    BY <1>2, <1>4, <2>4 DEF ServedOK, NothingYet
<1>5. CASE DOMAIN column # {}
  <2>1. Stage(w)' = "asked" /\ Answer(w)' = Nothing
    BY <1>1, <1>2, <1>5 DEF Stage, Answer, Done
  <2>2. UNCHANGED Api!apiVars
    BY <1>2, <1>3, <2>1, Stutters
  <2>3. StoredColumns' = StoredColumns /\ column' = column
    BY <1>2 DEF StoredColumns, ColumnJson, dbVars
  <2>4. LoopOK(w)'
    BY <1>1, <1>2, <2>3 DEF LoopOK
  <2> QED
    BY <1>2, <1>5, <2>2, <2>4 DEF ServedOK, NothingYet
<1> QED
  BY <1>4, <1>5

\* getColumn answers at once if there is no such column, or goes on to its items.
LEMMA GetColumnServes ==
  ASSUME OneWorker, ProcessOK, ServedInv, up, Faults = FALSE, NEW w \in Workers, getColumn(w)
  PROVE  ServedOK(w)' /\ (Api!Perform(w) \/ UNCHANGED Api!apiVars)
<1> DEFINE id == call[w].column
<1>1. /\ pc[w] = "getColumn" /\ call[w].op = "getColumn"
      /\ columns[w] = {} /\ items[w] = {}
      /\ w \in DOMAIN pc /\ w \in DOMAIN columns /\ w \in DOMAIN items /\ w \in DOMAIN todo
  BY Beginning DEF getColumn, IsAt, ServedOK, NothingYet, IsEmpty
<1>2. /\ UNCHANGED dbVars /\ call' = call /\ items' = items
      /\ id \in DOMAIN column =>
           /\ columns'[w] = {ColumnJson(id)} /\ todo'[w] = {id} /\ pc'[w] = "getItems"
      /\ id \notin DOMAIN column => columns' = columns /\ pc'[w] = "reply"
  BY <1>1, Beginning DEF getColumn, Goto, TableNames
<1>3. Stage(w) = "asked" /\ Answer(w) = Nothing
  BY <1>1 DEF Stage, Answer, Done
<1>4. CASE id \notin DOMAIN column
  <2>1. Stage(w)' = "done" /\ Answer(w)' = [columns |-> {}, items |-> {}]
    BY <1>1, <1>2, <1>4 DEF Stage, Answer, Done
  <2>2. {id} \cap DOMAIN column = {}
    BY <1>4
  <2>3. Answer(w)' = Api!Shown({id} \cap DOMAIN column)
    BY <2>1, <2>2, SameRows
  <2>4. \A c, a : c = call[w] /\ a = Answer(w)' => Api!Reads(c, a)
    BY <1>1, <1>2, <2>3 DEF Api!Reads, Api!dbVars, dbVars
  <2>5. Api!Perform(w)
    BY <1>2, <1>3, <2>1, <2>4, Performs
  <2> QED
    BY <1>2, <1>4, <2>5 DEF ServedOK, NothingYet
<1>5. CASE id \in DOMAIN column
  <2>1. Stage(w)' = "asked" /\ Answer(w)' = Nothing
    BY <1>1, <1>2, <1>5 DEF Stage, Answer, Done
  <2>2. UNCHANGED Api!apiVars
    BY <1>2, <1>3, <2>1, Stutters
  <2>3. ColumnJson(id)' = ColumnJson(id) /\ column' = column
    BY <1>2 DEF ColumnJson, dbVars
  <2>4. LoopOK(w)'
    BY <1>1, <1>2, <1>5, <2>3 DEF LoopOK
  <2> QED
    BY <1>2, <1>5, <2>2, <2>4 DEF ServedOK, NothingYet
<1> QED
  BY <1>4, <1>5

\* Each turn of the loop adds the items of one column; the last one answers.
LEMMA GetItemsServes ==
  ASSUME OneWorker, ProcessOK, ServedInv, up, Faults = FALSE, NEW w \in Workers, getItems(w)
  PROVE  ServedOK(w)' /\ (Api!Perform(w) \/ UNCHANGED Api!apiVars)
<1>1. /\ pc[w] = "getItems" /\ LoopOK(w)
      /\ call[w].op \in {"getBoard", "getColumns", "getColumn", "putColumn", "getItems"}
      /\ w \in DOMAIN pc /\ w \in DOMAIN items /\ w \in DOMAIN todo
  BY Beginning DEF getItems, IsAt, ServedOK
<1>2. PICK d \in todo[w] :
        /\ items'[w] = items[w] \cup ItemsUnder(d) /\ todo'[w] = todo[w] \ {d}
        /\ pc'[w] = IF todo[w] \ {d} = {} THEN "reply" ELSE "getItems"
        /\ UNCHANGED dbVars
  BY <1>1, Beginning DEF getItems, Goto, Rest, TableNames
<1>3. call' = call /\ columns' = columns
  BY DEF getItems
<1>4. ItemsUnder(d)' = ItemsUnder(d) /\ StoredColumns' = StoredColumns /\ column' = column
  BY <1>2 DEF ItemsUnder, ItemsOf, ItemJson, StoredColumns, ColumnJson, dbVars
<1>5. CASE call[w].op \in {"getBoard", "getColumns"}
  <2>1. /\ columns[w] = StoredColumns /\ todo[w] \subseteq DOMAIN column
        /\ items[w] = UNION {ItemsUnder(i) : i \in DOMAIN column \ todo[w]}
    BY <1>1, <1>5 DEF LoopOK
  <2>2. items'[w] = UNION {ItemsUnder(i) : i \in DOMAIN column \ todo'[w]}
    <3>1. DOMAIN column \ todo'[w] = (DOMAIN column \ todo[w]) \cup {d}
      BY <1>2, <2>1
    <3> QED
      BY <1>2, <2>1, <3>1
  <2>3. Stage(w) = "asked" /\ Answer(w) = Nothing
    BY <1>1, <1>5 DEF Stage, Answer, Done
  <2>4. CASE todo[w] \ {d} = {}
    <3>1. Stage(w)' = "done" /\ Answer(w)' = [columns |-> StoredColumns, items |-> items'[w]]
      BY <1>2, <1>3, <2>1, <2>4 DEF Stage, Answer, Done
    <3>2. items'[w] = UNION {ItemsUnder(i) : i \in DOMAIN column}
      BY <1>2, <2>2, <2>4
    <3>3. Answer(w)' = Api!Shown(DOMAIN column)
      BY <3>1, <3>2, SameRows DEF StoredColumns
    <3>4. \A c, a : c = call[w] /\ a = Answer(w)' => Api!Reads(c, a)
      BY <1>2, <1>5, <3>3 DEF Api!Reads, Api!dbVars, dbVars
    <3>5. Api!Perform(w)
      BY <1>3, <2>3, <3>1, <3>4, Performs
    <3> QED
      BY <1>2, <2>4, <3>5 DEF ServedOK, NothingYet
  <2>5. CASE todo[w] \ {d} # {}
    <3>1. Stage(w)' = "asked" /\ Answer(w)' = Nothing
      BY <1>2, <1>3, <1>5, <2>5 DEF Stage, Answer, Done
    <3>2. UNCHANGED Api!apiVars
      BY <1>2, <1>3, <2>3, <3>1, Stutters
    <3>3. \A i : ItemsUnder(i)' = ItemsUnder(i)
      BY <1>2 DEF ItemsUnder, ItemsOf, ItemJson, dbVars
    <3>4. LoopOK(w)'
      BY <1>2, <1>3, <1>4, <1>5, <2>1, <2>2, <3>3 DEF LoopOK
    <3> QED
      BY <1>2, <2>5, <3>2, <3>4 DEF ServedOK, NothingYet
  <2> QED
    BY <2>4, <2>5
<1>6. CASE call[w].op \in {"getColumn", "getItems", "putColumn"}
  <2>1. todo[w] = {call[w].column} /\ items[w] = {} /\ d = call[w].column
    BY <1>1, <1>2, <1>6 DEF LoopOK
  <2>2. /\ pc'[w] = "reply" /\ Stage(w)' = "done"
        /\ Answer(w)' = [columns |-> columns[w], items |-> ItemsUnder(call[w].column)]
    BY <1>2, <1>3, <2>1 DEF Stage, Answer, Done
  <2>3. CASE call[w].op = "getColumn"
    <3>1. /\ {call[w].column} \cap DOMAIN column = {call[w].column}
          /\ columns[w] = {ColumnJson(call[w].column)}
      BY <1>1, <2>3 DEF LoopOK
    <3>2. Answer(w)' = Api!Shown({call[w].column} \cap DOMAIN column)
      BY <2>2, <3>1, SameRows
    <3>3. \A c, a : c = call[w] /\ a = Answer(w)' => Api!Reads(c, a)
      BY <1>2, <2>3, <3>2 DEF Api!Reads, Api!dbVars, dbVars
    <3>4. Stage(w) = "asked"
      BY <1>1, <2>3 DEF Stage, Done
    <3> QED
      BY <1>3, <2>2, <3>3, <3>4, Performs DEF ServedOK, NothingYet
  <2>4. CASE call[w].op = "getItems"
    <3>1. Answer(w)' = Api!Only(Api!ItemsUnder(call[w].column))
      BY <1>1, <2>2, <2>4, SameRows DEF LoopOK
    <3>2. \A c, a : c = call[w] /\ a = Answer(w)' => Api!Reads(c, a)
      BY <1>2, <2>4, <3>1 DEF Api!Reads, Api!dbVars, dbVars
    <3>3. Stage(w) = "asked"
      BY <1>1, <2>4 DEF Stage, Done
    <3> QED
      BY <1>3, <2>2, <3>2, <3>3, Performs DEF ServedOK, NothingYet
  <2>5. CASE call[w].op = "putColumn"
    <3>1. Stage(w) = "done" /\ Answer(w) = AnswerToCome(w)
      BY <1>1, <2>5 DEF Stage, Answer, Done
    <3>2. AnswerToCome(w) = [columns |-> {jsonColumn(call[w].column, call[w].text, call[w].position)},
                             items |-> ItemsUnder(call[w].column)]
      BY <1>1, <2>5 DEF AnswerToCome
    <3>3. Answer(w)' = Answer(w)
      BY <1>1, <2>2, <2>5, <3>1, <3>2 DEF LoopOK
    <3>4. UNCHANGED Api!apiVars
      BY <1>2, <1>3, <2>2, <3>1, <3>3, Stutters
    <3> QED
      BY <2>2, <3>4 DEF ServedOK, NothingYet
  <2> QED
    BY <1>6, <2>3, <2>4, <2>5
<1> QED
  BY <1>1, <1>5, <1>6

\* The select of getItem answers; that of putItem reads what was promised.
LEMMA SelectItemServes ==
  ASSUME OneWorker, ProcessOK, ServedInv, up, Faults = FALSE, NEW w \in Workers, selectItem(w)
  PROVE  ServedOK(w)' /\ (Api!Perform(w) \/ UNCHANGED Api!apiVars)
<1> DEFINE found == Selected(call[w])
<1>1. /\ pc[w] = "selectItem" /\ call[w].op \in {"getItem", "putItem"}
      /\ columns[w] = {} /\ items[w] = {}
      /\ w \in DOMAIN pc /\ w \in DOMAIN items
  BY Beginning DEF selectItem, IsAt, ServedOK, NothingYet, IsEmpty
<1>2. /\ UNCHANGED <<dbVars, connVars>> /\ call' = call /\ columns' = columns
      /\ items'[w] = found
      /\ pc'[w] = IF call[w].op = "putItem" /\ found # {} THEN "changes" ELSE "reply"
  BY <1>1, Beginning DEF selectItem, Goto, TableNames
<1>3. Selected(call[w])' = found
  BY <1>2 DEF Selected, ItemsUnder, ItemsOf, ItemJson, dbVars
<1>4. CASE call[w].op = "getItem"
  <2>1. /\ pc'[w] = "reply" /\ Stage(w) = "asked" /\ Stage(w)' = "done"
        /\ Answer(w)' = [columns |-> {}, items |-> found]
    BY <1>1, <1>2, <1>4 DEF Stage, Answer, Done
  <2>2. Answer(w)' = Api!Only({x \in Api!ItemsUnder(call[w].column) : x.id = call[w].item})
    BY <2>1, SameRows DEF Selected
  <2>3. \A c, a : c = call[w] /\ a = Answer(w)' => Api!Reads(c, a)
    BY <1>2, <1>4, <2>2 DEF Api!Reads, Api!dbVars, dbVars
  <2> QED
    BY <1>2, <2>1, <2>3, Performs DEF ServedOK, NothingYet
<1>5. CASE call[w].op = "putItem"
  <2> DEFINE renamed == {[x EXCEPT !.title = call[w].text, !.position = call[w].position] : x \in found}
  <2>1. Stage(w) = "done" /\ Stage(w)' = "done"
    BY <1>1, <1>2, <1>5 DEF Stage, Done
  <2>2. Answer(w) = IF changes = 1 THEN [columns |-> {}, items |-> renamed] ELSE Nothing
    BY <1>1, <1>5 DEF Answer, Done, AnswerToCome
  <2>3. CASE found # {}
    <3>1. Answer(w)' = IF changes = 1 THEN [columns |-> {}, items |-> renamed] ELSE Nothing
      <4>1. pc'[w] = "changes" /\ changes' = changes /\ call'[w] = call[w]
        BY <1>1, <1>2, <1>5, <2>3 DEF connVars
      <4>2. Answer(w)' = AnswerToCome(w)'
        BY <4>1 DEF Answer, Done
      <4>3. AnswerToCome(w)' =
              IF changes' = 1
                THEN [columns |-> {},
                      items |-> {[x EXCEPT !.title = call'[w].text, !.position = call'[w].position] :
                                   x \in Selected(call[w])'}]
                ELSE Nothing
        BY <1>5, <4>1 DEF AnswerToCome, Nothing
      <4> QED
        BY <1>3, <4>1, <4>2, <4>3
    <3>2. UNCHANGED Api!apiVars
      BY <1>2, <2>1, <2>2, <3>1, Stutters
    <3>3. pc'[w] = "changes" /\ columns'[w] = {} /\ items'[w] = Selected(call[w])'
      BY <1>1, <1>2, <1>3, <1>5, <2>3
    <3> QED
      BY <1>2, <1>5, <3>2, <3>3 DEF ServedOK, NothingYet
  <2>4. CASE found = {}
    <3>1. Answer(w)' = Nothing /\ Answer(w) = Nothing
      BY <1>1, <1>2, <1>5, <2>2, <2>4 DEF Answer, Nothing
    <3> QED
      BY <1>2, <1>5, <2>1, <2>4, <3>1, Stutters DEF ServedOK, NothingYet
  <2> QED
    BY <2>3, <2>4
<1> QED
  BY <1>1, <1>4, <1>5

-----------------------------------------------------------------------------
\* The statements of BoardApi are those of the service.
LEMMA SameFile ==
  /\ \A j, p : Api!ColumnClash(j, p) <=> ColumnClash(j, p)
  /\ \A j, d, p : Api!ItemClash(j, d, p) <=> ItemClash(j, d, p)
  /\ \A j, d : Api!IsItemOf(j, d) <=> IsItemOf(j, d)
  /\ \A t, p : Api!InsertColumn(t, p) <=> InsertColumn(t, p)
  /\ \A j, t, p : Api!UpdateColumn(j, t, p) <=> UpdateColumn(j, t, p)
  /\ \A j : Api!DeleteColumn(j) <=> DeleteColumn(j)
  /\ \A t, x, p, d : Api!InsertItem(t, x, p, d) <=> InsertItem(t, x, p, d)
  /\ \A j, d, t, p : Api!UpdateItem(j, d, t, p) <=> UpdateItem(j, d, t, p)
  /\ \A j, d : Api!DeleteItem(j, d) <=> DeleteItem(j, d)
  /\ UNCHANGED Api!dbVars <=> UNCHANGED dbVars
<1>1. /\ \A j, p : Api!ColumnClash(j, p) <=> ColumnClash(j, p)
      /\ \A j, d, p : Api!ItemClash(j, d, p) <=> ItemClash(j, d, p)
      /\ \A j, d : Api!IsItemOf(j, d) <=> IsItemOf(j, d)
  BY DEF Api!ColumnClash, ColumnClash, Api!ItemClash, ItemClash, Api!IsItemOf, IsItemOf,
         Api!ItemsOf, ItemsOf
<1>2. /\ \A g, j, row : Api!Put(g, j, row) = Put(g, j, row)
      /\ \A g, S : Api!Restrict(g, S) = Restrict(g, S)
      /\ Api!NextItemId = NextItemId
  BY DEF Api!Put, Put, Api!Restrict, Restrict, Api!NextItemId, NextItemId
<1>3. \A t, p : Api!InsertColumn(t, p) <=> InsertColumn(t, p)
  BY <1>1, <1>2 DEF Api!InsertColumn, InsertColumn
<1>4. \A j, t, p : Api!UpdateColumn(j, t, p) <=> UpdateColumn(j, t, p)
  BY <1>1, <1>2 DEF Api!UpdateColumn, UpdateColumn
<1>5. \A j : Api!DeleteColumn(j) <=> DeleteColumn(j)
  BY <1>2 DEF Api!DeleteColumn, DeleteColumn
<1>6. \A t, x, p, d : Api!InsertItem(t, x, p, d) <=> InsertItem(t, x, p, d)
  BY <1>1, <1>2 DEF Api!InsertItem, InsertItem
<1>7. \A j, d, t, p : Api!UpdateItem(j, d, t, p) <=> UpdateItem(j, d, t, p)
  BY <1>1, <1>2 DEF Api!UpdateItem, UpdateItem
<1>8. \A j, d : Api!DeleteItem(j, d) <=> DeleteItem(j, d)
  BY <1>1, <1>2 DEF Api!DeleteItem, DeleteItem
<1>9. UNCHANGED Api!dbVars <=> UNCHANGED dbVars
  BY DEF Api!dbVars, dbVars
<1> QED
  BY <1>1, <1>3, <1>4, <1>5, <1>6, <1>7, <1>8, <1>9

\* And so are the rows that they leave.
LEMMA SameRowsAfter ==
  /\ \A j : Api!ColumnJson(j)' = ColumnJson(j)'
  /\ \A d, j : Api!ItemJson(d, j)' = ItemJson(d, j)'
  /\ \A d : Api!ItemsUnder(d)' = ItemsUnder(d)'
<1>1. \A j : Api!ColumnJson(j)' = ColumnJson(j)'
  BY DEF Api!ColumnJson, ColumnJson, Api!jsonColumn, jsonColumn
<1>2. \A d, j : Api!ItemJson(d, j)' = ItemJson(d, j)'
  BY DEF Api!ItemJson, ItemJson, Api!jsonItem, jsonItem
<1>3. \A d : Api!ItemsUnder(d)' = ItemsUnder(d)'
  BY <1>2 DEF Api!ItemsUnder, ItemsUnder, Api!ItemsOf, ItemsOf
<1> QED
  BY <1>1, <1>2, <1>3

\* A call that the file does not take, and whose answer is empty.
LEMMA Refused ==
  ASSUME OneWorker, NEW w \in Workers, call' = call, UNCHANGED dbVars,
         Stage(w) = "asked", Stage(w)' = "done", Answer(w)' = Nothing,
         NEW c, c = call[w], Api!Refusable(c)
  PROVE  Api!Perform(w)
<1>1. \A a : a = Answer(w)' => Api!Refuses(c, a)
  BY SameFile, SameRows DEF Api!Refuses
<1> QED
  BY <1>1, Performs

\* The insert of a column decides; its id is that of the row that it stored.
LEMMA PostColumnServes ==
  ASSUME OneWorker, ProcessOK, ServedInv, up, Faults = FALSE, NEW w \in Workers, postColumn(w)
  PROVE  ServedOK(w)' /\ Api!Perform(w) /\ tables' = tables
<1> DEFINE c == call[w]
<1>1. /\ pc[w] = "postColumn" /\ c.op = "postColumn" /\ w \in DOMAIN pc
      /\ columns[w] = {} /\ items[w] = {} /\ "column" \in tables
  BY Beginning DEF postColumn, IsAt, ServedOK, NothingYet, IsEmpty, TableNames
<1>2. PICK rc \in Results :
        ExecInsertColumn(c.text, c.position, rc) /\ pc'[w] = AfterInsert(rc)
  BY <1>1 DEF postColumn, Goto
<1>3. call' = call /\ columns' = columns /\ items' = items
  BY DEF postColumn, resultVars
<1>4. Stage(w) = "asked"
  BY <1>1 DEF Stage, Done
<1>5. CASE rc = "ok"
  <2>1. /\ InsertColumn(c.text, c.position) /\ c.text \notin BreaksSql
        /\ lastRowid' = columnSeq + 1 /\ pc'[w] = "last_insert_rowid" /\ tables' = tables
    BY <1>2, <1>5 DEF ExecInsertColumn, Compiles, AfterInsert, InsertColumn
  <2>2. /\ columnSeq' = lastRowid'
        /\ column'[columnSeq'] = [name |-> c.text, position |-> c.position]
    BY <2>1 DEF InsertColumn, Put
  <2>3. ColumnJson(columnSeq)' = jsonColumn(lastRowid', c.text, c.position)
    BY <2>2 DEF ColumnJson
  <2>4. /\ Stage(w)' = "done"
        /\ Answer(w)' = [columns |-> {jsonColumn(lastRowid', c.text, c.position)}, items |-> {}]
    BY <1>1, <1>3, <2>1 DEF Stage, Answer, Done, AnswerToCome
  <2>5. Api!ColumnJson(columnSeq)' = ColumnJson(columnSeq)'
    BY DEF Api!ColumnJson, ColumnJson, Api!jsonColumn, jsonColumn
  <2>6. \A d, a : d = c /\ a = Answer(w)' => Api!Writes(d, a)
    BY <1>1, <2>1, <2>3, <2>4, <2>5, SameFile DEF Api!Writes
  <2>7. Api!Perform(w)
    BY <1>3, <1>4, <2>4, <2>6, Performs
  <2> QED
    BY <1>1, <1>3, <2>1, <2>7 DEF ServedOK, NothingYet, IsEmpty
<1>6. CASE rc = "error"
  <2>1. /\ c.text \in BreaksSql \/ ColumnClash(0, c.position)
        /\ UNCHANGED dbVars /\ pc'[w] = "reply"
    BY <1>1, <1>2, <1>6
       DEF ExecInsertColumn, Compiles, AfterInsert, NotPrepared, Aborted, NotCommitted
  <2>2. Stage(w)' = "done" /\ Answer(w)' = Nothing
    BY <1>1, <1>3, <2>1 DEF Stage, Answer, Done, Nothing
  <2>3. \A d : d = c => Api!Refusable(d)
    BY <1>1, <2>1, SameFile DEF Api!Refusable
  <2>4. Api!Perform(w)
    BY <1>3, <1>4, <2>1, <2>2, <2>3, Refused
  <2> QED
    BY <2>1, <2>4 DEF ServedOK, NothingYet, dbVars
<1> QED
  BY <1>5, <1>6 DEF Results

\* The update of a column decides; one changed row is the one that was named.
LEMMA PutColumnServes ==
  ASSUME OneWorker, ProcessOK, ServedInv, up, Faults = FALSE, NEW w \in Workers, putColumn(w)
  PROVE  ServedOK(w)' /\ Api!Perform(w) /\ tables' = tables
<1> DEFINE c == call[w]
<1>1. /\ pc[w] = "putColumn" /\ c.op = "putColumn" /\ w \in DOMAIN pc
      /\ columns[w] = {} /\ items[w] = {} /\ "column" \in tables
  BY Beginning DEF putColumn, IsAt, ServedOK, NothingYet, IsEmpty, TableNames
<1>2. PICK rc \in Results :
        /\ ExecUpdateColumn(c.column, c.text, c.position, rc)
        /\ pc'[w] = IF rc = "ok" THEN "changes" ELSE "reply"
  BY <1>1 DEF putColumn, Goto
<1>3. call' = call /\ columns' = columns /\ items' = items
  BY DEF putColumn, resultVars
<1>4. Stage(w) = "asked"
  BY <1>1 DEF Stage, Done
<1>5. ServedOK(w)' /\ Stage(w)' = "done"
  BY <1>1, <1>2, <1>3 DEF ServedOK, NothingYet, IsEmpty, Stage, Done
<1>6. CASE rc = "ok" /\ UpdateColumn(c.column, c.text, c.position)
  <2>1. /\ c.text \notin BreaksSql /\ changes' = 1 /\ pc'[w] = "changes" /\ tables' = tables
    BY <1>2, <1>6 DEF ExecUpdateColumn, Compiles, MatchedNothing, UpdateColumn
  <2>2. column'[c.column] = [name |-> c.text, position |-> c.position]
    BY <1>6 DEF UpdateColumn, Put
  <2>3. Answer(w)' = [columns |-> {jsonColumn(c.column, c.text, c.position)},
                      items |-> ItemsUnder(c.column)']
    BY <1>1, <1>3, <2>1 DEF Answer, Done, AnswerToCome
  <2>4. \A d : d = c.column => ColumnJson(d)' = jsonColumn(c.column, c.text, c.position)
    BY <2>2 DEF ColumnJson
  <2>5. \A d, a : d = c /\ a = Answer(w)' => Api!Writes(d, a)
    <3> SUFFICES ASSUME NEW d, d = c, NEW a, a = Answer(w)' PROVE Api!Writes(d, a)
      OBVIOUS
    <3>1. Api!Shown({d.column})' = [columns |-> {ColumnJson(d.column)'},
                                    items |-> ItemsUnder(d.column)']
      BY SameRowsAfter DEF Api!Shown
    <3>2. a = Api!Shown({d.column})'
      BY <1>3, <2>3, <2>4, <3>1
    <3> QED
      BY <1>1, <1>6, <2>1, <3>2, SameFile DEF Api!Writes
  <2> QED
    BY <1>3, <1>4, <1>5, <2>1, <2>5, Performs
<1>7. CASE ~(rc = "ok" /\ UpdateColumn(c.column, c.text, c.position))
  <2>1. /\ \/ c.text \in BreaksSql \/ c.column \notin DOMAIN column
           \/ ColumnClash(c.column, c.position)
        /\ UNCHANGED dbVars /\ (rc = "ok" => changes' = 0)
    BY <1>1, <1>2, <1>7 DEF Results, ExecUpdateColumn, Compiles, NotPrepared, Aborted,
                            MatchedNothing
  <2>2. Answer(w)' = Nothing
    BY <1>1, <1>2, <1>3, <2>1 DEF Answer, Done, AnswerToCome, Nothing
  <2>3. \A d : d = c => Api!Refusable(d)
    BY <1>1, <2>1, SameFile DEF Api!Refusable
  <2>4. Api!Perform(w)
    BY <1>3, <1>4, <1>5, <2>1, <2>2, <2>3, Refused
  <2> QED
    BY <1>5, <2>1, <2>4 DEF dbVars
<1> QED
  BY <1>6, <1>7

\* A delete is answered in the same step, found or not.
LEMMA DeleteServes ==
  ASSUME OneWorker, ProcessOK, ServedInv, up, Faults = FALSE, NEW w \in Workers,
         deleteColumn(w) \/ deleteItem(w)
  PROVE  ServedOK(w)' /\ Api!Perform(w) /\ tables' = tables
<1> DEFINE c == call[w]
<1>1. /\ pc[w] \in {"deleteColumn", "deleteItem"} /\ c.op = pc[w] /\ w \in DOMAIN pc
      /\ columns[w] = {} /\ items[w] = {} /\ TableNames \subseteq tables
  BY Beginning DEF deleteColumn, deleteItem, IsAt, ServedOK, NothingYet, IsEmpty
<1>2. /\ pc'[w] = "reply" /\ call' = call /\ columns' = columns /\ items' = items
  BY <1>1 DEF deleteColumn, deleteItem, resultVars, Goto
<1>3. /\ Stage(w) = "asked" /\ Stage(w)' = "done" /\ Answer(w)' = Nothing /\ ServedOK(w)'
  BY <1>1, <1>2 DEF Stage, Done, Answer, Nothing, ServedOK, NothingYet
<1>4. CASE \/ c.op = "deleteColumn" /\ DeleteColumn(c.column)
           \/ c.op = "deleteItem" /\ DeleteItem(c.item, c.column)
  <2>1. \A d, a : d = c /\ a = Answer(w)' => Api!Deletes(d, a)
    BY <1>3, <1>4, SameFile, SameRows DEF Api!Deletes
  <2> QED
    BY <1>2, <1>3, <1>4, <2>1, Performs DEF DeleteColumn, DeleteItem
<1>5. CASE ~(\/ c.op = "deleteColumn" /\ DeleteColumn(c.column)
             \/ c.op = "deleteItem" /\ DeleteItem(c.item, c.column))
  <2>1. /\ \/ c.op = "deleteColumn" /\ c.column \notin DOMAIN column
           \/ c.op = "deleteItem" /\ ~IsItemOf(c.item, c.column)
        /\ UNCHANGED dbVars
    BY <1>1, <1>5 DEF deleteColumn, deleteItem, ExecDeleteColumn, ExecDeleteItem, ExecDelete,
                      TableNames
  <2>2. \A d : d = c => Api!Refusable(d)
    BY <2>1, SameFile DEF Api!Refusable
  <2> QED
    BY <1>2, <1>3, <2>1, <2>2, Refused DEF dbVars
<1> QED
  BY <1>4, <1>5

\* The update of an item decides.  If its text broke the statement, the answer
\* hangs on a counter that an earlier statement has left.
LEMMA PutItemServes ==
  ASSUME OneWorker, ProcessOK, ServedInv, up, Faults = FALSE, NEW w \in Workers, putItem(w)
  PROVE  ServedOK(w)' /\ Api!Perform(w) /\ tables' = tables
<1> DEFINE c == call[w]
           renamed(x) == [x EXCEPT !.title = c.text, !.position = c.position]
<1>1. /\ pc[w] = "putItem" /\ c.op = "putItem" /\ w \in DOMAIN pc
      /\ columns[w] = {} /\ items[w] = {} /\ "item" \in tables
  BY Beginning DEF putItem, IsAt, ServedOK, NothingYet, IsEmpty, TableNames
<1>2. PICK rc \in Results : ExecUpdateItem(c.item, c.column, c.text, c.position, rc)
  BY DEF putItem
<1>3. call' = call /\ columns' = columns /\ items' = items /\ pc'[w] = "selectItem"
  BY <1>1 DEF putItem, resultVars, Goto
<1>4. /\ Stage(w) = "asked" /\ Stage(w)' = "done" /\ ServedOK(w)'
      /\ Answer(w)' = AnswerToCome(w)'
  BY <1>1, <1>3 DEF Stage, Done, Answer, ServedOK, NothingYet, IsEmpty
<1>5. /\ changes' # 1 => Answer(w)' = Nothing
      /\ changes' = 1 =>
           Answer(w)' = [columns |-> {}, items |-> {renamed(x) : x \in Selected(c)'}]
  BY <1>1, <1>3, <1>4 DEF AnswerToCome
<1>6. \A x : x \in ItemsUnder(c.column) /\ x.id = c.item =>
        IsItemOf(c.item, c.column) /\ x = ItemJson(c.column, c.item)
  BY DEF ItemsUnder, IsItemOf, ItemJson, jsonItem
<1>7. CASE UpdateItem(c.item, c.column, c.text, c.position) /\ c.text \notin BreaksSql /\ changes' = 1
  <2>1. /\ c.item \in DOMAIN item'
        /\ item'[c.item].title = c.text /\ item'[c.item].position = c.position
        /\ item'[c.item].column_id = c.column
    BY <1>7 DEF UpdateItem, Put
  <2> DEFINE x == [column |-> c.column, id |-> c.item, title |-> c.text,
                   position |-> c.position, timestamp |-> item'[c.item].date]
  <2>2. \A d : d = c => ItemJson(d.column, d.item)' = x
    BY <2>1 DEF ItemJson, jsonItem
  <2>3. Selected(c)' = {x}
    <3>1. x \in Selected(c)'
      BY <1>3, <2>1 DEF Selected, ItemsUnder, ItemsOf, ItemJson, jsonItem
    <3>2. \A y \in Selected(c)' : y = x
      BY <1>3, <2>1 DEF Selected, ItemsUnder, ItemJson, jsonItem
    <3> QED
      BY <3>1, <3>2
  <2>4. renamed(x) = x
    <3>1. x = [x EXCEPT !.title = c.text]
      OBVIOUS
    <3>2. x = [x EXCEPT !.position = c.position]
      OBVIOUS
    <3> HIDE DEF x
    <3> QED
      BY <3>1, <3>2, Zenon
  <2>5. Answer(w)' = [columns |-> {}, items |-> {x}]
    BY <1>5, <1>7, <2>3, <2>4
  <2> HIDE DEF x
  <2>6. \A d, a : d = c /\ a = Answer(w)' => Api!Writes(d, a)
    <3> SUFFICES ASSUME NEW d, d = c, NEW a, a = Answer(w)' PROVE Api!Writes(d, a)
      OBVIOUS
    <3>1. Api!Only({Api!ItemJson(d.column, d.item)'}) = [columns |-> {}, items |-> {x}]
      BY <2>2, SameRowsAfter DEF Api!Only
    <3>2. a = Api!Only({Api!ItemJson(d.column, d.item)'})
      BY <2>5, <3>1
    <3> QED
      BY <1>1, <1>7, <3>2, SameFile DEF Api!Writes
  <2>7. tables' = tables
    BY <1>7 DEF UpdateItem
  <2> QED
    BY <1>3, <1>4, <2>6, <2>7, Performs
<1>8. CASE c.text \in BreaksSql /\ changes' = 1 /\ IsItemOf(c.item, c.column) /\ UNCHANGED dbVars
  <2>1. Selected(c)' = Selected(c)
    BY <1>3, <1>8 DEF Selected, ItemsUnder, ItemsOf, ItemJson, dbVars
  <2>2. Selected(c) = {ItemJson(c.column, c.item)}
    BY <1>6, <1>8 DEF Selected, ItemsUnder, IsItemOf, ItemJson, jsonItem
  <2>3. Answer(w)' = [columns |-> {}, items |-> {renamed(ItemJson(c.column, c.item))}]
    BY <1>5, <1>8, <2>1, <2>2
  <2>4. Api!ItemJson(c.column, c.item) = ItemJson(c.column, c.item)
    BY DEF Api!ItemJson, ItemJson, Api!jsonItem, jsonItem
  <2>5. \A d, a : d = c /\ a = Answer(w)' => Api!Pretends(d, a)
    BY <1>1, <1>8, <2>3, <2>4, SameFile, SameRows DEF Api!Pretends
  <2> QED
    BY <1>3, <1>4, <1>8, <2>5, Performs DEF dbVars
<1>9. CASE /\ UNCHANGED dbVars
           /\ \/ changes' # 1 /\ (c.text \in BreaksSql \/ ItemClash(c.item, c.column, c.position))
              \/ ~IsItemOf(c.item, c.column)
  <2>1. Answer(w)' = Nothing
    <3>1. CASE changes' # 1
      BY <1>5, <3>1
    <3>2. CASE ~IsItemOf(c.item, c.column) /\ changes' = 1
      <4>1. Selected(c)' = Selected(c)
        BY <1>3, <1>9 DEF Selected, ItemsUnder, ItemsOf, ItemJson, dbVars
      <4>2. Selected(c) = {}
        BY <1>6, <3>2 DEF Selected
      <4> QED
        BY <1>5, <3>2, <4>1, <4>2 DEF Nothing
    <3> QED
      BY <1>9, <3>1, <3>2
  <2>2. \A d : d = c => Api!Refusable(d)
    BY <1>1, <1>9, SameFile DEF Api!Refusable
  <2> QED
    BY <1>3, <1>4, <1>9, <2>1, <2>2, Refused DEF dbVars
<1>10. \/ UpdateItem(c.item, c.column, c.text, c.position) /\ c.text \notin BreaksSql /\ changes' = 1
       \/ UNCHANGED dbVars /\ c.text \in BreaksSql
       \/ UNCHANGED dbVars /\ changes' = 0 /\ ~IsItemOf(c.item, c.column)
       \/ UNCHANGED dbVars /\ changes' = 0 /\ ItemClash(c.item, c.column, c.position)
  BY <1>1, <1>2 DEF ExecUpdateItem, Compiles, NotPrepared, Aborted, MatchedNothing
<1> QED
  BY <1>7, <1>8, <1>9, <1>10

\* The steps before the insert of an item settle nothing.
LEMMA StampServes ==
  ASSUME OneWorker, ProcessOK, ServedInv, up, Faults = FALSE, NEW w \in Workers,
         ctime(w) \/ strlen(w) \/ truncate(w) \/ measure(w) \/ copy(w)
  PROVE  ServedOK(w)' /\ UNCHANGED Api!apiVars /\ tables' = tables
<1> DEFINE stamping == {"ctime", "strlen", "truncate", "measure", "copy", "insertItem"}
<1>1. /\ pc[w] \in stamping /\ w \in DOMAIN pc /\ columns[w] = {} /\ items[w] = {}
  BY Beginning DEF ctime, strlen, truncate, measure, copy, ServedOK, NothingYet, IsEmpty
<1>2. /\ pc'[w] \in stamping /\ UNCHANGED dbVars /\ call' = call /\ columns' = columns
      /\ items' = items
  BY <1>1 DEF ctime, strlen, truncate, measure, copy, resultVars, Goto
<1>3. ServedOK(w)'
  BY <1>1, <1>2 DEF ServedOK, NothingYet, IsEmpty
<1>4. /\ Stage(w) = "asked" /\ Stage(w)' = "asked"
      /\ Answer(w) = Nothing /\ Answer(w)' = Nothing
  BY <1>1, <1>2 DEF Stage, Answer, Done
<1> QED
  BY <1>2, <1>3, <1>4, Stutters DEF dbVars

\* The insert of an item decides; its stamp is still in the buffer.
LEMMA InsertItemServes ==
  ASSUME OneWorker, ProcessOK, ServedInv, up, Faults = FALSE, NEW w \in Workers, insertItem(w)
  PROVE  ServedOK(w)' /\ Api!Perform(w) /\ tables' = tables
<1> DEFINE c == call[w]
<1>1. /\ pc[w] = "insertItem" /\ c.op = "postItem" /\ w \in DOMAIN pc
      /\ columns[w] = {} /\ items[w] = {} /\ "item" \in tables
  BY Beginning DEF insertItem, IsAt, ServedOK, NothingYet, IsEmpty, TableNames
<1>2. length[w] = Newline - 1 /\ ctimeBuf = Newline - 1 /\ length[w] # Torn
  BY <1>1, NewlineAssumption DEF ServedInv, StampOK, Torn
<1>3. PICK rc \in Results :
        /\ ExecInsertItem(c.text, length[w], c.position, c.column, length[w] = Torn, rc)
        /\ pc'[w] = AfterInsert(rc)
  BY <1>1 DEF insertItem, Goto
<1>4. call' = call /\ columns' = columns /\ items' = items /\ ctimeBuf' = ctimeBuf
  BY DEF insertItem, resultVars
<1>5. Stage(w) = "asked"
  BY <1>1 DEF Stage, Done
<1>6. CASE rc = "ok"
  <2>1. /\ InsertItem(c.text, Newline - 1, c.position, c.column) /\ c.text \notin BreaksSql
        /\ lastRowid' = itemSeq + 1 /\ pc'[w] = "last_insert_rowid" /\ tables' = tables
    BY <1>2, <1>3, <1>6 DEF ExecInsertItem, Compiles, AfterInsert, InsertItem
  <2>2. /\ itemSeq' = lastRowid'
        /\ item'[itemSeq'] = [title |-> c.text, date |-> Newline - 1,
                              position |-> c.position, column_id |-> c.column]
    BY <2>1 DEF InsertItem, NextItemId, Put
  <2>3. \A d : d = c.column =>
          ItemJson(d, itemSeq)' = jsonItem(d, lastRowid', c.text, c.position, Newline - 1)
    BY <2>2 DEF ItemJson
  <2>4. /\ Stage(w)' = "done"
        /\ Answer(w)' = [columns |-> {}, items |->
                           {jsonItem(c.column, lastRowid', c.text, c.position, Newline - 1)}]
    BY <1>1, <1>2, <1>4, <2>1 DEF Stage, Answer, Done, AnswerToCome
  <2>5. \A d : Api!ItemJson(d, itemSeq)' = ItemJson(d, itemSeq)'
    BY DEF Api!ItemJson, ItemJson, Api!jsonItem, jsonItem
  <2>6. \A d, a : d = c /\ a = Answer(w)' => Api!Writes(d, a)
    <3> SUFFICES ASSUME NEW d, d = c, NEW a, a = Answer(w)' PROVE Api!Writes(d, a)
      OBVIOUS
    <3>1. a = Api!Only({Api!ItemJson(d.column, itemSeq)'})
      BY <2>3, <2>4, <2>5 DEF Api!Only
    <3> QED
      BY <1>1, <2>1, <3>1, SameFile DEF Api!Writes
  <2>7. Api!Perform(w)
    BY <1>4, <1>5, <2>4, <2>6, Performs
  <2> QED
    BY <1>1, <1>4, <2>1, <2>7 DEF ServedOK, NothingYet, IsEmpty
<1>7. CASE rc = "error"
  <2>1. /\ c.text \in BreaksSql \/ ItemClash(0, c.column, c.position)
        /\ UNCHANGED dbVars /\ pc'[w] = "reply"
    BY <1>1, <1>2, <1>3, <1>7
       DEF ExecInsertItem, Compiles, AfterInsert, NotPrepared, Aborted, NotCommitted
  <2>2. Stage(w)' = "done" /\ Answer(w)' = Nothing
    BY <1>1, <1>4, <2>1 DEF Stage, Answer, Done, Nothing
  <2>3. \A d : d = c => Api!Refusable(d)
    BY <1>1, <2>1, SameFile DEF Api!Refusable
  <2>4. Api!Perform(w)
    BY <1>4, <1>5, <2>1, <2>2, <2>3, Refused
  <2> QED
    BY <2>1, <2>4 DEF ServedOK, NothingYet, dbVars
<1> QED
  BY <1>3, <1>6, <1>7 DEF Results

\* After the insert: the id and the stamp that the answer gets are the promised.
LEMMA InsertedServes ==
  ASSUME OneWorker, ProcessOK, ServedInv, up, Faults = FALSE, NEW w \in Workers,
         last_insert_rowid(w) \/ timestamp(w)
  PROVE  ServedOK(w)' /\ UNCHANGED Api!apiVars /\ tables' = tables
<1> DEFINE c == call[w]
<1>1. /\ w \in DOMAIN pc /\ w \in DOMAIN columns /\ w \in DOMAIN items
      /\ IsAt(pc[w], c.op) /\ ServedOK(w)
  BY Beginning
<1>2. UNCHANGED <<dbVars, connVars>> /\ call' = call /\ ctimeBuf' = ctimeBuf
  BY DEF last_insert_rowid, timestamp
<1>3. lastRowid' = lastRowid /\ tables' = tables
  BY <1>2 DEF connVars, dbVars
<1>4. CASE last_insert_rowid(w) /\ c.op = "postColumn"
  <2>1. /\ pc[w] = "last_insert_rowid" /\ pc'[w] = "reply" /\ items[w] = {} /\ items' = items
        /\ columns'[w] = {jsonColumn(lastRowid, c.text, c.position)}
    BY <1>1, <1>4 DEF last_insert_rowid, Goto, ServedOK, NothingYet, IsEmpty
  <2>2. /\ Stage(w) = "done" /\ Stage(w)' = "done" /\ Answer(w)' = Answer(w)
    BY <1>4, <2>1 DEF Stage, Done, Answer, AnswerToCome
  <2> QED
    BY <1>2, <1>3, <2>1, <2>2, Stutters DEF ServedOK, NothingYet
<1>5. CASE last_insert_rowid(w) /\ c.op = "postItem"
  <2>1. /\ pc[w] = "last_insert_rowid" /\ pc'[w] = "timestamp"
        /\ columns[w] = {} /\ columns' = columns
        /\ items'[w] = {jsonItem(c.column, lastRowid, c.text, c.position, 0)}
    BY <1>1, <1>5 DEF last_insert_rowid, Goto, ServedOK, NothingYet, IsEmpty
  <2>2. /\ Stage(w) = "done" /\ Stage(w)' = "done" /\ Answer(w)' = Answer(w)
    BY <1>2, <1>3, <1>5, <2>1 DEF Stage, Done, Answer, AnswerToCome
  <2>3. ServedOK(w)'
    BY <1>2, <1>3, <2>1 DEF ServedOK, NothingYet
  <2> QED
    BY <1>2, <1>3, <2>2, <2>3, Stutters
<1>6. CASE timestamp(w)
  <2>1. /\ pc[w] = "timestamp" /\ pc'[w] = "reply" /\ c.op = "postItem"
        /\ columns[w] = {} /\ columns' = columns
        /\ items[w] = {jsonItem(c.column, lastRowid, c.text, c.position, 0)}
        /\ items'[w] = {[x EXCEPT !.timestamp = ctimeBuf] : x \in items[w]}
    BY <1>1, <1>6 DEF timestamp, Goto, ServedOK, IsAt, Stamp
  <2>2. items'[w] = {jsonItem(c.column, lastRowid, c.text, c.position, ctimeBuf)}
    BY <2>1 DEF jsonItem
  <2>3. /\ Stage(w) = "done" /\ Stage(w)' = "done" /\ Answer(w)' = Answer(w)
    BY <2>1, <2>2 DEF Stage, Done, Answer, AnswerToCome
  <2> QED
    BY <1>2, <1>3, <2>1, <2>3, Stutters DEF ServedOK, NothingYet
<1> QED
  BY <1>4, <1>5, <1>6 DEF last_insert_rowid

\* After an update: the counter is that of the call, so the answer is the promised.
LEMMA ChangesServes ==
  ASSUME OneWorker, ProcessOK, ServedInv, up, Faults = FALSE, NEW w \in Workers,
         changesOfColumn(w) \/ changesOfItem(w)
  PROVE  ServedOK(w)' /\ UNCHANGED Api!apiVars /\ tables' = tables
<1> DEFINE c == call[w]
<1>1. /\ w \in DOMAIN pc /\ w \in DOMAIN columns /\ w \in DOMAIN items /\ w \in DOMAIN todo
      /\ ServedOK(w) /\ pc[w] = "changes"
  BY Beginning DEF changesOfColumn, changesOfItem
<1>2. UNCHANGED <<dbVars, connVars>> /\ call' = call
  BY DEF changesOfColumn, changesOfItem
<1>3. changes' = changes /\ tables' = tables /\ Stage(w) = "done"
  BY <1>1, <1>2 DEF connVars, dbVars, Stage, Done
<1>4. CASE changesOfColumn(w) /\ Matched
  <2>1. /\ c.op = "putColumn" /\ pc'[w] = "getItems" /\ items[w] = {} /\ items' = items
        /\ columns'[w] = {jsonColumn(c.column, c.text, c.position)} /\ todo'[w] = {c.column}
    BY <1>1, <1>4 DEF changesOfColumn, Goto, ServedOK, IsEmpty
  <2>2. ItemsUnder(c.column)' = ItemsUnder(c.column)
    BY <1>2 DEF ItemsUnder, ItemsOf, ItemJson, dbVars
  <2>3. Stage(w)' = "done" /\ Answer(w)' = Answer(w)
    BY <1>1, <1>2, <1>4, <2>1, <2>2 DEF Stage, Done, Answer, AnswerToCome, Matched
  <2>4. ServedOK(w)'
    BY <1>2, <2>1 DEF ServedOK, NothingYet, LoopOK
  <2> QED
    BY <1>2, <1>3, <2>3, <2>4, Stutters
<1>5. CASE changesOfColumn(w) /\ ~Matched
  <2>1. /\ c.op = "putColumn" /\ pc'[w] = "reply" /\ items[w] = {} /\ items' = items
        /\ columns[w] = {} /\ columns' = columns
    BY <1>1, <1>5 DEF changesOfColumn, Goto, ServedOK, IsEmpty
  <2>2. Stage(w)' = "done" /\ Answer(w)' = Answer(w)
    BY <1>1, <1>5, <2>1 DEF Stage, Done, Answer, AnswerToCome, Matched, Nothing
  <2> QED
    BY <1>2, <1>3, <2>1, <2>2, Stutters DEF ServedOK, NothingYet
<1>6. CASE changesOfItem(w)
  <2>1. /\ c.op = "putItem" /\ pc'[w] = "reply" /\ items[w] = Selected(c)
        /\ columns[w] = {} /\ columns' = columns
        /\ items'[w] = {jsonItem(c.column, c.item, c.text, c.position, x.timestamp) :
                          x \in IF Matched THEN Selected(c) ELSE {}}
    BY <1>1, <1>6 DEF changesOfItem, Goto, ServedOK
  <2>2. ASSUME NEW x \in Selected(c)
        PROVE  [x EXCEPT !.title = c.text, !.position = c.position]
                 = jsonItem(c.column, c.item, c.text, c.position, x.timestamp)
    <3>1. PICK i \in DOMAIN item :
            x = [column |-> c.column, id |-> i, title |-> item[i].title,
                 position |-> item[i].position, timestamp |-> item[i].date]
      BY DEF Selected, ItemsUnder, ItemsOf, ItemJson, jsonItem
    <3>2. i = c.item /\ x.timestamp = item[i].date
      BY <3>1 DEF Selected
    <3>3. x = [column |-> c.column, id |-> c.item, title |-> item[i].title,
               position |-> item[i].position, timestamp |-> x.timestamp]
      BY <3>1, <3>2
    <3> DEFINE y == [column |-> c.column, id |-> c.item, title |-> c.text,
                     position |-> item[i].position, timestamp |-> x.timestamp]
    <3>4. /\ y = [x EXCEPT !.title = c.text]
          /\ [y EXCEPT !.position = c.position]
               = [column |-> c.column, id |-> c.item, title |-> c.text,
                  position |-> c.position, timestamp |-> x.timestamp]
      BY <3>3
    <3>5. [x EXCEPT !.title = c.text, !.position = c.position]
            = [y EXCEPT !.position = c.position]
      <4> HIDE DEF y
      <4> QED
        BY <3>4, Zenon
    <3>6. [x EXCEPT !.title = c.text, !.position = c.position]
            = [column |-> c.column, id |-> c.item, title |-> c.text,
               position |-> c.position, timestamp |-> x.timestamp]
      BY <3>4, <3>5
    <3> QED
      BY <3>6 DEF jsonItem
  <2>3. Answer(w) = AnswerToCome(w) /\ Stage(w)' = "done"
    BY <1>1, <2>1 DEF Stage, Done, Answer
  <2>4. CASE Matched
    <3>1. Answer(w) = [columns |-> {}, items |->
            {[x EXCEPT !.title = c.text, !.position = c.position] : x \in Selected(c)}]
      BY <1>1, <2>1, <2>3, <2>4 DEF AnswerToCome, Matched
    <3>2. items'[w] = {[x EXCEPT !.title = c.text, !.position = c.position] : x \in Selected(c)}
      <4>1. items'[w] = {jsonItem(c.column, c.item, c.text, c.position, x.timestamp) :
                          x \in Selected(c)}
        BY <2>1, <2>4
      <4> QED
        BY <2>2, <4>1, Zenon
    <3>3. Answer(w)' = Answer(w)
      BY <2>1, <3>1, <3>2 DEF Answer
    <3> QED
      BY <1>2, <1>3, <2>1, <2>3, <3>3, Stutters DEF ServedOK, NothingYet
  <2>5. CASE ~Matched
    <3>1. Answer(w)' = Nothing /\ Answer(w) = Nothing
      BY <1>1, <2>1, <2>3, <2>5 DEF Answer, AnswerToCome, Matched, Nothing
    <3> QED
      BY <1>2, <1>3, <2>1, <2>3, <3>1, Stutters DEF ServedOK, NothingYet
  <2> QED
    BY <2>4, <2>5
<1> QED
  BY <1>4, <1>5, <1>6

-----------------------------------------------------------------------------
\* Every step of the repository is one request done as a whole, or no step of
\* BoardApi, and it collects what the answer needs.
LEMMA WorkServes ==
  ASSUME OneWorker, ProcessOK, ServedInv, Faults = FALSE, NEW w \in Workers, Work(w)
  PROVE  ServedInv' /\ (Api!Perform(w) \/ UNCHANGED Api!apiVars)
<1>1. up /\ up' = up /\ RepositoryStep(w)
  BY DEF Work
<1>2. ServedOK(w)' /\ (Api!Perform(w) \/ UNCHANGED Api!apiVars) /\ tables' = tables
  <2>1. CASE getColumns(w) \/ getColumn(w) \/ getItems(w) \/ selectItem(w)
    <3>1. tables' = tables
      BY <2>1 DEF getColumns, getColumn, getItems, selectItem, Select, dbVars
    <3> QED
      BY <1>1, <2>1, <3>1, GetColumnsServes, GetColumnServes, GetItemsServes, SelectItemServes
  <2>2. CASE postColumn(w) \/ putColumn(w) \/ deleteColumn(w) \/ deleteItem(w) \/ putItem(w)
    BY <1>1, <2>2, PostColumnServes, PutColumnServes, DeleteServes, PutItemServes
  <2>3. CASE ctime(w) \/ strlen(w) \/ truncate(w) \/ measure(w) \/ copy(w) \/ insertItem(w)
    BY <1>1, <2>3, StampServes, InsertItemServes
  <2>4. CASE \/ last_insert_rowid(w) \/ timestamp(w)
             \/ changesOfColumn(w) \/ changesOfItem(w)
    BY <1>1, <2>4, InsertedServes, ChangesServes
  <2> QED
    BY <1>1, <2>1, <2>2, <2>3, <2>4 DEF RepositoryStep
<1>3. StampOK'
  BY <1>1, WorkKeepsStamp DEF ServedInv
<1>4. \A v \in Workers : ServedOK(v)'
  BY <1>2 DEF OneWorker
<1> QED
  BY <1>1, <1>2, <1>3, <1>4 DEF ServedInv

\* A request is asked as BoardApi asks it, and begins with nothing collected.
LEMMA ReceiveServes ==
  ASSUME OneWorker, ProcessOK, ServedInv, NEW w \in Workers, NEW r \in Requests, Receive(w, r)
  PROVE  ServedInv' /\ Api!Ask(w)
<1>1. PICK c \in CallsOf(r) :
        /\ call' = [call EXCEPT ![w] = c] /\ pc' = [pc EXCEPT ![w] = EntryOf(c.op)]
        /\ todo' = [todo EXCEPT ![w] = IF c.op = "getItems" THEN {c.column} ELSE {}]
  BY DEF Receive, Goto
<1>2. /\ up /\ up' = up /\ pc[w] = "idle" /\ columns' = columns /\ items' = items
      /\ UNCHANGED dbVars /\ columns[w] = {} /\ items[w] = {}
  BY DEF Receive, ServedInv, ServedOK, NothingYet, IsEmpty
<1>3. /\ pc'[w] = EntryOf(c.op) /\ call'[w] = c /\ c.op \in Ops \cup {"none"}
      /\ todo'[w] = IF c.op = "getItems" THEN {c.column} ELSE {}
  BY <1>1, CallsAreTyped DEF ProcessOK, Calls
<1>4. /\ c.op = "none" => pc'[w] = "reply"
      /\ c.op = "getItems" => pc'[w] = "getItems"
      /\ c.op \notin {"none", "getItems"} =>
           pc'[w] \in {"getColumns", "selectItem", "ctime", "postColumn", "putColumn",
                       "putItem", "getColumn", "deleteColumn", "deleteItem"}
      /\ pc'[w] = "selectItem" => c.op = "getItem"
  BY <1>3 DEF EntryOf, Ops, ColumnWrites, ItemWrites
<1>5. pc'[w] # "idle" /\ Stage(w) = "idle" /\ Answer(w) = Nothing
  BY <1>2, <1>4 DEF Stage, Answer, Done
<1>6. Stage(w)' = IF c.op = "none" THEN "done" ELSE "asked"
  BY <1>3, <1>4, <1>5 DEF Stage, Done
<1>7. Answer(w)' = Nothing
  BY <1>2, <1>3, <1>4 DEF Answer, Done, Nothing
<1>8. ServedOK(w)'
  BY <1>2, <1>3, <1>4 DEF ServedOK, LoopOK, NothingYet, IsEmpty
<1>9. ServedInv'
  <2>1. StampOK' /\ \A v \in Workers : ServedOK(v)'
    BY <1>4, <1>8 DEF OneWorker, StampOK
  <2> QED
    BY <1>2, <2>1 DEF ServedInv, dbVars
<1>10. Api!Ask(w)
  <2>1. c \in Api!CallsOf(r)
    BY SameCalls
  <2>2. [v \in Workers |-> Stage(v)]'
          = [[v \in Workers |-> Stage(v)] EXCEPT ![w] = IF c.op = "none" THEN "done" ELSE "asked"]
    BY <1>6 DEF OneWorker
  <2>3. [v \in Workers |-> Answer(v)]' = [v \in Workers |-> Answer(v)]
    BY <1>5, <1>7 DEF OneWorker
  <2>4. UNCHANGED Api!dbVars /\ [v \in Workers |-> Stage(v)][w] = "idle"
    BY <1>2, <1>5 DEF Api!dbVars, dbVars
  <2> QED
    BY <1>1, <2>1, <2>2, <2>3, <2>4 DEF Api!Ask
<1> QED
  BY <1>9, <1>10

\* The answer that is sent is the one that BoardApi has settled.
LEMMA ReplyServes ==
  ASSUME OneWorker, ProcessOK, ServedInv, NEW w \in Workers, Reply(w)
  PROVE  ServedInv' /\ Api!Respond(w)
<1>1. /\ up /\ up' = up /\ pc[w] = "reply" /\ pc'[w] = "idle" /\ UNCHANGED dbVars
      /\ columns'[w] = {} /\ items'[w] = {} /\ call' = [call EXCEPT ![w] = NoCall]
  BY DEF Reply, Goto, Cleared, ProcessOK
<1>2. /\ Stage(w) = "done" /\ Stage(w)' = "idle" /\ Answer(w)' = Nothing
  BY <1>1 DEF Stage, Answer, Done
<1>3. ServedInv'
  <2>1. StampOK' /\ \A v \in Workers : ServedOK(v)'
    BY <1>1 DEF OneWorker, StampOK, ServedOK, NothingYet, IsEmpty
  <2> QED
    BY <1>1, <2>1 DEF ServedInv, dbVars
<1>4. /\ [v \in Workers |-> Stage(v)]' = [[v \in Workers |-> Stage(v)] EXCEPT ![w] = "idle"]
      /\ [v \in Workers |-> Answer(v)]' = [[v \in Workers |-> Answer(v)] EXCEPT ![w] = Nothing]
      /\ [v \in Workers |-> Stage(v)][w] = "done"
  BY <1>2 DEF OneWorker
<1>5. Api!Respond(w)
  BY <1>1, <1>4 DEF Api!Respond, Api!dbVars, dbVars, Api!NoCall, NoCall, Api!Nothing, Nothing
<1> QED
  BY <1>3, <1>5

\* The process that dies forgets what it was asked, and keeps the file.
LEMMA CrashServes ==
  ASSUME Crash
  PROVE  ServedInv' /\ Api!Die
<1>1. /\ up' = FALSE /\ UNCHANGED dbVars /\ call' = [w \in Workers |-> NoCall]
      /\ \A w \in Workers : pc'[w] = "idle" /\ columns'[w] = {} /\ items'[w] = {}
  BY DEF Crash, PerWorker
<1>2. \A w \in Workers : Stage(w)' = "idle" /\ Answer(w)' = Nothing
  BY <1>1 DEF Stage, Answer, Done
<1>3. ServedInv'
  BY <1>1 DEF ServedInv, StampOK, ServedOK, NothingYet, IsEmpty
<1>4. /\ [w \in Workers |-> Stage(w)]' = [w \in Workers |-> "idle"]
      /\ [w \in Workers |-> Answer(w)]' = [w \in Workers |-> Nothing]
  BY <1>2
<1>5. Api!Die
  BY <1>1, <1>4 DEF Api!Die, Api!dbVars, dbVars, Api!NoCall, NoCall, Api!Nothing, Nothing
<1> QED
  BY <1>3, <1>5

\* The start creates both tables if no statement fails; nobody is served yet.
LEMMA StartServes ==
  ASSUME FileOK, ServedInv, Faults = FALSE, Start
  PROVE  ServedInv' /\ Api!Open
<1>1. /\ tables' = TableNames /\ Api!CreateTables(TableNames)
      /\ UNCHANGED <<repoVars, connVars>>
  BY DEF Start, CreateTables, Api!CreateTables, FileOK
<1>2. /\ pc' = pc /\ call' = call /\ columns' = columns /\ items' = items
      /\ up' /\ \A w \in Workers : pc[w] = "idle"
  BY <1>1 DEF Start, ServedInv, repoVars
<1>3. \A w \in Workers :
        Stage(w) = "idle" /\ Stage(w)' = "idle" /\ Answer(w) = Nothing /\ Answer(w)' = Nothing
  BY <1>2 DEF Stage, Answer, Done
<1>4. ServedInv'
  BY <1>1, <1>2 DEF ServedInv, StampOK, ServedOK, NothingYet, IsEmpty
<1>5. /\ [w \in Workers |-> Stage(w)]' = [w \in Workers |-> Stage(w)]
      /\ [w \in Workers |-> Answer(w)]' = [w \in Workers |-> Answer(w)]
  BY <1>3
<1>6. Api!Open
  BY <1>1, <1>2, <1>5 DEF Api!Open, Api!TableNames, TableNames
<1> QED
  BY <1>4, <1>6

\* When nothing happens, nothing happens in BoardApi.
LEMMA StillServes ==
  ASSUME ServedInv, UNCHANGED vars
  PROVE  ServedInv' /\ UNCHANGED Api!apiVars
<1> USE DEF vars, dbVars, connVars, repoVars
<1>1. ServedInv'
  BY DEF ServedInv, StampOK, ServedOK, IsEmpty, LoopOK, StoredColumns, ColumnJson, ItemsUnder,
     ItemsOf, ItemJson, Selected
<1>2. \A w \in Workers : Stage(w)' = Stage(w) /\ Answer(w)' = Answer(w)
  BY DEF Stage, Answer, Done, AnswerToCome, ItemsUnder, ItemsOf, ItemJson, Selected
<1>3. /\ [w \in Workers |-> Stage(w)]' = [w \in Workers |-> Stage(w)]
      /\ [w \in Workers |-> Answer(w)]' = [w \in Workers |-> Answer(w)]
  BY <1>2
<1> QED
  BY <1>1, <1>3 DEF Api!apiVars, Api!dbVars

\* Every step of the service with one thread is a step of BoardApi or none.
LEMMA NextServes ==
  ASSUME OneWorker, Faults = FALSE
  PROVE  TypeOK /\ ServedInv /\ [Next]_vars => ServedInv' /\ [Api!ApiNext]_Api!apiVars
<1> SUFFICES ASSUME TypeOK, ServedInv, [Next]_vars
             PROVE  ServedInv' /\ [Api!ApiNext]_Api!apiVars
  OBVIOUS
<1>1. FileOK /\ ProcessOK
  BY TypeOKParts, FileOKIsDatabaseInv
<1>2. CASE Start
  BY <1>1, <1>2, StartServes DEF Api!ApiNext
<1>3. CASE Crash
  BY <1>3, CrashServes DEF Api!ApiNext
<1>4. ASSUME NEW w \in Workers, Work(w) PROVE ServedInv' /\ [Api!ApiNext]_Api!apiVars
  BY <1>1, <1>4, WorkServes DEF Api!ApiNext
<1>5. ASSUME NEW w \in Workers, Reply(w) PROVE ServedInv' /\ [Api!ApiNext]_Api!apiVars
  BY <1>1, <1>5, ReplyServes DEF Api!ApiNext
<1>6. ASSUME NEW w \in Workers, NEW r \in Requests, Receive(w, r)
      PROVE  ServedInv' /\ [Api!ApiNext]_Api!apiVars
  BY <1>1, <1>6, ReceiveServes DEF Api!ApiNext
<1>7. CASE UNCHANGED vars
  BY <1>7, StillServes
<1> QED
  BY <1>2, <1>3, <1>4, <1>5, <1>6, <1>7 DEF Next

\* The service starts as BoardApi does, on any file that was left behind.
LEMMA InitServes == Init => ServedInv /\ Api!ApiInit
<1> SUFFICES ASSUME Init PROVE ServedInv /\ Api!ApiInit
  OBVIOUS
<1>1. /\ up = FALSE /\ DatabaseInit /\ call = [w \in Workers |-> NoCall]
      /\ \A w \in Workers : pc[w] = "idle" /\ columns[w] = {} /\ items[w] = {}
  BY DEF Init, PerWorker
<1>2. \A w \in Workers : Stage(w) = "idle" /\ Answer(w) = Nothing
  BY <1>1 DEF Stage, Answer, Done
<1>3. ServedInv
  BY <1>1 DEF ServedInv, StampOK, ServedOK, NothingYet, IsEmpty
<1>4. Api!ApiInit
  BY <1>1, <1>2 DEF Api!ApiInit, Api!DatabaseInit, DatabaseInit, Api!NoCall, NoCall,
     Api!Nothing, Nothing
<1> QED
  BY <1>3, <1>4

\* With one thread and a file that does not fail, every request behaves as if
\* it were done in one step, for any requests, any seeds and any crashes
\* (BoardManager.cpp and BoardRepository.cpp as a whole).
THEOREM OneThreadServesAtomically ==
  ASSUME OneWorker, Faults = FALSE PROVE Spec => ServesAtomically
BY InitTypes, NextTypes, InitServes, NextServes, PTL DEF Spec, ServesAtomically, Api!ApiSpec
=============================================================================
