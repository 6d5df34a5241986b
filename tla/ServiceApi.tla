----------------------------- MODULE ServiceApi -----------------------------
(***************************************************************************)
(* With one thread, BoardService serves each request in one step of        *)
(* BoardApi: at its last select if it reads, at its one statement if it    *)
(* writes.  From then on the answer is settled, although the code has      *)
(* still to look at a counter, at ctime's buffer or at the row again.      *)
(* With several threads it serves them as SharedApi says.                  *)
(***************************************************************************)
EXTENDS BoardService

\* The request has had its effect.
Done(w) ==
  \/ pc[w] \in {"reply", "last_insert_rowid", "timestamp", "changes"}
  \/ pc[w] = "selectItem" /\ call[w].op = "putItem"
  \/ pc[w] = "getItems" /\ call[w].op = "putColumn"

Stage(w) == IF pc[w] = "idle" THEN "idle" ELSE IF Done(w) THEN "done" ELSE "asked"

\* The answer to come of a call that is not at "reply" yet.
AnswerToCome(w) ==
  LET c == call[w] IN
  IF c.op = "postColumn"
    THEN [columns |-> {jsonColumn(lastRowid, c.text, c.position)}, items |-> {}]
  ELSE IF c.op = "postItem"
    THEN [columns |-> {},
          items |-> {jsonItem(c.column, lastRowid, c.text, c.position, ctimeBuf)}]
  ELSE IF pc[w] # "getItems" /\ ~(changes = 1) THEN Nothing
  ELSE IF c.op = "putColumn"
    THEN [columns |-> {jsonColumn(c.column, c.text, c.position)},
          items |-> ItemsUnder(c.column)]
  ELSE [columns |-> {},
        items |-> {[x EXCEPT !.title = c.text, !.position = c.position] : x \in Selected(c)}]

Answer(w) ==
  IF pc[w] = "reply" THEN [columns |-> columns[w], items |-> items[w]]
  ELSE IF Done(w) THEN AnswerToCome(w)
  ELSE Nothing

Api ==
  INSTANCE BoardApi WITH stage  <- [w \in Workers |-> Stage(w)],
                         answer <- [w \in Workers |-> Answer(w)]

\* Served by one thread, with no fault of the file, every request behaves as
\* if it were done in one step, whatever the process dies between
\* (BoardManager.cpp and BoardRepository.cpp as a whole).
ServesAtomically == Api!ApiSpec

-----------------------------------------------------------------------------
\* For SharedApi an answer is settled only when the code has all of it.
SharedStage(w) ==
  IF pc[w] = "idle" THEN "idle"
  ELSE IF pc[w] = "reply" THEN "done"
  ELSE IF Done(w) THEN "written"
  ELSE "asked"

SharedAnswer(w) ==
  IF pc[w] = "reply" THEN [columns |-> columns[w], items |-> items[w]] ELSE Nothing

Shared ==
  INSTANCE SharedApi WITH stage  <- [w \in Workers |-> SharedStage(w)],
                          answer <- [w \in Workers |-> SharedAnswer(w)]

\* Served by any number of threads, whatever fails and wherever the process
\* dies, a request changes the file at most once and by its own statement, a
\* read shows what lasted and nothing that never was, and what a POST or PUT
\* is answered differs from what it stored in no more than the id, the stamp
\* and the count of changed rows (BoardManager.cpp, BoardRepository.cpp).
ServesConcurrently == Shared!SharedSpec
=============================================================================
