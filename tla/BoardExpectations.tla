------------------------- MODULE BoardExpectations -------------------------
(***************************************************************************)
(* What the tests of the repository say of the service, and the code does  *)
(* not keep when several threads serve requests, or on inputs that the     *)
(* tests leave out.  Each is the property of a run in which TLC finds a    *)
(* violation; ReferentialIntegrity of BoardDatabase is another.            *)
(***************************************************************************)
EXTENDS BoardService

\* test_service.py:83-86: the column with the id that POST answers is the
\* column it answers.  The id is read after the insert, from the connection
\* that all threads share.
PostedColumnHasItsId ==
  \A w \in Workers :
    Answers(w) /\ call[w].op = "postColumn" => columns[w] \subseteq ever[w].columns

\* test_service.py:149-150: PUT of a column that does not exist is answered
\* "{}", here even if no column of that id exists at any moment.  The number
\* of changed rows is read after the update, as the id is.
PutMissingColumnIsEmpty ==
  \A w \in Workers :
    /\ Answers(w) /\ call[w].op = "putColumn"
    /\ \A x \in ever[w].columns : x.id # call[w].column
    => IsEmpty(w)

\* test_service.py:198-199: the item stored is the item POST answers, here
\* its time stamp.  The answer reads the buffer of ctime again.
PostedItemHasItsStamp ==
  \A w \in Workers :
    Answers(w) /\ call[w].op = "postItem" =>
      \A x \in items[w] : \E y \in ever[w].items :
        /\ y.column = x.column /\ y.title = x.title /\ y.position = x.position
        /\ y.timestamp = x.timestamp

\* test_service.py:240-250: a PUT that is answered with the item has stored
\* it.  With an apostrophe in the title no update runs, and the number of
\* changed rows is that of the last statement that did.
AcknowledgedPutIsStored ==
  \A w \in Workers :
    Answers(w) /\ call[w].op = "putItem" /\ ~raced[w] => items[w] \subseteq StoredItems

\* test_service.py:110-113: an id that no column has is answered "{}": what
\* is shown has the id that the URL names, at its full width.
ShownColumnWasAskedFor ==
  \A w \in Workers :
    Answers(w) /\ call[w].op = "getColumn" =>
      \A x \in columns[w] : \E r \in Requests : call[w] \in CallsOf(r) /\ r.column = x.id
=============================================================================
