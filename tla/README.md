# A TLA+ model of the kanban board service

The repository is a small REST service in C++ (`src/kanban-board-service/`), its
tests, three vendored libraries, and the shell of a web application. This
directory models the service: what its answers and its database file promise,
one thread or many, when statements fail and when the process dies; and, below
it, the connections of the web server and their deadlines.

Paths below are relative to `src/kanban-board-service/`.

## The system

| part | state | operations | talks to |
|---|---|---|---|
| `src/Service.cpp` | none | starts the parts, then `multithreaded().run()` | all |
| `src/Api/Endpoint.cpp` | none | eleven (route, method) handlers; each ends in `res.end()` | BoardManager, called on the server's threads |
| `src/Core/BoardManager.cpp` | none | one function per handler: parse the body, one repository call, make the answer | JsonParser, BoardRepository |
| `src/Api/Parser/JsonParser.cpp` | none | accepts or rejects a body, makes JSON of columns and items | rapidjson |
| `src/Core/Model/` | plain values | getters and setters | |
| `src/Repository/SQLite/BoardRepository.cpp` | **one** `sqlite3 *database` for all threads; the buffer of `ctime` | `initialize`, then eleven functions of one to n+1 SQL statements | SQLite |
| SQLite (`extern/sqlite`) | the file `kanban-board.db`; per connection, the last insert id and the number of changed rows | `sqlite3_exec` and two look-ups | the disk |
| Crow (`extern/crowcpp`) | a pool of threads; per thread an `io_service`, a queue of timers and the connections given to it | accepts, reads requests, calls handlers, writes answers, closes what is silent for too long | Endpoint, asio |
| web application (`../kanban-board-app`) | none | a static page that sends no request | |

No part has a lock of its own. Every thread runs handlers straight down to the
one SQLite connection, which locks itself for the length of one call and no
longer. That is where all the difficulty is:

* A read of the board is one select for the columns and one more for the items
  of each column, with other threads writing in between and no transaction
  around it (`BoardRepository.cpp:86-94`, `116`, `162`).
* A write looks at the connection again *after* its statement: for the new id
  (`139`, `240`) or for the number of changed rows (`160`, `268`). Both belong to
  whoever ran a statement last.
* The time stamp of an item is in the static buffer of `ctime`, which is filled,
  measured, cut, measured, copied and, after the insert, read again (`227`, `228`,
  `233`, `242`).
* Errors are logged (`289-295`) and often passed over (`62-66`, `182`, `195`,
  `257-265`).
* The process may die at any time and start again on the same file.

Above the handlers, Crow runs callbacks: one `io_service` per thread, and every
connection stays on one thread. Nothing there is concurrent, but much is
outstanding at once: a connection may have a read, a write and a deadline in
hand, each with a callback that holds a bare `this`, and deletes itself when two
flags say that it is idle (`http_connection.h:536`). Clients go, reset, or stop in
the middle of a request; the deadline closes a socket under a read or a write;
the keys of deadlines are counted in an `int` that wraps
(`dumb_timer_queue.h:28`).

What makes each part right:

* **file**: rows keep unique positions and unique, never reused ids; items stay
  in their column; every change is one whole statement;
* **reads**: an answer shows only what was stored during the request, leaves
  out nothing that was there throughout, and shows no item twice;
* **writes**: an acknowledged POST was stored; a thread that was not raced gets
  the answer it would get alone, and `{}` means that nothing was changed;
* **threads**: every handler comes to its `res.end()`;
* **requests as a whole**: with one thread, each is as good as one atomic step,
  whatever the process dies between; with several, each still changes the file
  at most once, reads are regular, and an acknowledgement errs in no more than
  an id, a stamp or a count of rows;
* **connections**: no callback reaches a deleted object; a deadline runs
  whenever the thread waits for a client, and closes no other connection than its
  own; an answer is made for its request; what is closed is deleted, but for
  the objects that three known paths of the code leave behind.

The places in the code where each could go wrong, with the properties that
watch them, are the `hazards` of `PROJECT.json`.

## The modules

| module | models | state |
|---|---|---|
| `BoardDatabase` | the schema of `initialize` and the SQL statements, each atomic | `tables`, `column`, `item`, and the two AUTOINCREMENT sequences |
| `SqliteConnection` | `sqlite3_exec` with its ways to fail, and what the connection remembers | `lastRowid`, `changes` |
| `JsonParser` | which bodies are accepted, what they mean, the fields of the answers | |
| `Endpoint` | the table of routes, the narrowing of an id to `int` | |
| `BoardManager` | from a request to a repository call, or to `{}` without one | |
| `BoardModel` | the `Board`, `Column` and `Item` of an answer, and those that the file holds | |
| `BoardRepository` | every function as a program of atomic steps, per thread | `pc`, `call`, `todo`, `columns`, `items`, `length` per thread, `ctimeBuf` |
| `BoardService` | start, threads, requests, answers, death; the properties | `up`, and three observers |
| `BoardApi` | the abstract service: every request one atomic step between being asked and being answered | `stage`, `call`, `answer` per thread, and the file |
| `SharedApi` | the same for several threads, faults and crashes: a statement and its acknowledgement are two steps, and reads are regular | as `BoardApi`, and `ever`, `always` |
| `ServiceApi` | the refinement mappings from `BoardService` to both | |
| `BoardExpectations` | what the tests say and the code does not keep | |
| `TimerQueue` | `dumb_timer_queue.h`, as functions on a queue | |
| `Connection` | `http_connection.h` on one thread of `http_server.h`, with the clients | `timers`, `object`, `sock`, `client` |
| `Deadlines` | the abstract deadlines: a set of connections | `open`, `armed` |
| `MCBoardService`, `MCConnection` | values of the constants for TLC | |
| `BoardDatabase_proofs`, `BoardService_proofs`, `ReadProofs`, `WriterProofs`, `StampProofs`, `ApiProofs`, `SharedProofs`, `ConnectionProofs` | theorems | |

The two halves meet at the handler. In `Connection` a handler is one step, in
`BoardService` it is a thread's way from `Receive` to `Reply`; nothing else is shared.

`BoardApi` is the abstract specification of the whole service, as one client sees
it. `ServiceApi` says when a request takes effect: a read at its last select, a
write at its statement. From there the answer is settled, although the code still
looks at a counter, at the `ctime` buffer and at the rows, and `AnswerToCome` says what it
will be. With two threads the service does not implement `BoardApi`, as the runs
that find violations show.

`SharedApi` is what it implements then. A read may answer any one board (no id
and no place twice) that lies between what lasted through the request and what
was there at some moment of it; where statements fail, only the second bound
stands. A write runs its own statement, at most once, and is answered later: by
the row it asked for under an id that was seen in some table meanwhile (or that
was taken by an insert that did not commit), with a stamp that may be another's;
or by `{}`. A POST that is answered with an object was stored (`Acknowledge`
follows `Write`, whose statement a POST must have run). What the clause for each
write allows is thus the precise extent of the races that the runs
`rowid_race`, `changes_race` and `stamp_race` find.

`BoardDatabase` plays two parts. It is the storage under the service, and its
`DatabaseSpec` is the abstract specification of the file: any statement, at any
time, whole or not at all. The service is shown to implement it.

How the state corresponds:

* A table is a partial function from row id to row. `order by position` needs
  no sequence, since positions are unique where the code sorts by them; the
  order shows in `IsNext` (which column the loop of `getColumns` reads next) and
  `IsPrefix` (which rows came before a select failed).
* `pc[w]` is the next step of thread `w`. A step is one `sqlite3_exec`, one
  look at a counter of the connection, or one touch of the `ctime` buffer;
  everything else a handler does is local and belongs to the step before it.
* An answer is `columns[w]` and `items[w]`; an item says under which column
  object it stands.
* A text in the `ctime` buffer is its length. `strlen` and the store it is
  used in are two steps, and so are the two passes (`measure`, `copy`) of
  `std::string(timestamp)`; a copy that met the end of the text early has a NUL
  inside and is `Torn`. `ctime` fills the buffer at once: a text half written over
  an older one, which has the same length or one between the two, is not told
  apart, and neither is the second it shows. A store at index -1 is outside the
  buffer and is modelled as leaving its text alone.
* A text is a name; `BreaksSql` holds those with an apostrophe, which, being
  concatenated, make a statement that does not compile. (One that would compile
  to something else is not modelled.)
* A body is what rapidjson makes of it. One whose root is no object is undefined
  behaviour under the empty `RAPIDJSON_ASSERT`: it may be taken as the members
  say, be rejected, or kill the process.
* An id is an integer of a smaller word, `-IntHalf .. IntHalf-1`, and `Narrow`
  wraps as the conversion to `int` does.
* `sqlite3_exec` fails in three ways that differ in what the connection
  remembers: before anything ran, when run and undone, and at the commit. The
  first keeps the counters of an *earlier* statement.
* A callback of Crow runs to its end and is one step, handler included. `object`
  holds the fields of `Connection` that outlive a callback; `sock` what asio has in
  hand, and whose answer is in `res` as it is written (`out`).
* Of asio the model takes that an operation is done as it is asked for, and then
  its callback is queued, or else as its callback runs (`ReadAtOnce`, `Outcomes`);
  that queued callbacks run in their order, and before I/O that was not possible
  as they were queued (a read that is done is `behind` the write that was queued
  before it); that the callbacks of operations which a deadline has aborted run
  before the next tick, a second later; and that a closed socket, or one that was
  reset, has no `remote_endpoint()`.
* `async_write` is an operation made of others: each piece (64 KB at most) is one I/O,
  asked for in the callback of the piece before (`writePiece`). So the read that
  `do_read` asks for meanwhile may call back between two pieces, and even between
  the last one and the callback of `do_write`. How many pieces an answer has is left open.
* The kinds of requests are what `handle()` and the router tell apart, and their
  combinations: a method that the router does not know, or no `Host`, with or without
  the wish to close (`foreignClose`, `noHostClose`).
* Timers expire in the order in which they were added, so a tick removes some
  first ones, and time is nothing else. Places in the queue are counted modulo
  `KeyRange`, where the code has 2^32. `KeyRange >= 2 * MaxTimers` is the only thing
  used of it: a key that has fired must look too far off to be queued.
* A client sends when it has the answer to the request before, as browsers and the
  tests do.
* `ever`, `always` and `raced` are observers: what was stored at some moment, or
  at all moments, of the request in progress, and whether another thread wrote
  meanwhile. No action reads them.

Definitions introduced by the comment "A mistake" or "Mistakes" are not part of
the model. Each is an operation with a plausible bug, kept beside the right one
to show that a property notices it (`mutants` in `PROJECT.json`).

## What TLC checks

The runs of the service use `MCBoardService`. Its bounds are `Workers`; `MaxInserts`,
which stops POSTs when so many rows were ever inserted; `Newline`, the length of
`ctime`'s text (25, or 2 or 3 where only its last characters matter); `IntHalf`,
half the range of an id (4); two positions and a handful of texts; and the set
of requests clients may send, each any number of times. Those of the connections
use `MCConnection`: two connections, of which one client sends whatever there is
(`AllKinds`) and goes as it likes, and the other sends parts of a request and never
ends it; `MaxTimers = 3` timers in the queue and `KeyRange = 6` keys.

| run | question | result |
|---|---|---|
| `single` | one thread, every route, good and bad bodies, crashes, an empty file or one in use: is each request as good as one step (`BoardApi`)? do answers, file and time stamps agree, and does every request end? | holds, 17 thousand states |
| `faults` | the same with any statement failing: does the file still change by whole statements, are ids never reused, do answers stay true? is the service still a `SharedApi`? | holds, 34 thousand |
| `readers` | two threads, board and column reads against writes to what they read: is each answer one board between what lasted and what was there (`SharedApi`)? does every step bring its request nearer to its end, and none set another's back (`RequestsAdvance`)? | holds, 197 thousand up to symmetry |
| `writers` | two writers at once: is each answered for its own statement, as far as `SharedApi` says, and does every request end? | holds, 223 thousand |
| `connections` | two connections of one thread with silent, broken, malformed and good clients: is no object deleted while a callback is outstanding, and which are never? are deadlines kept, answers not mixed up, silent clients dropped? | holds, 170 thousand |
| `orphans` | foreign key | **violated**: it is declared and never enforced |
| `rowid_race` | the id in the answer to a POST | **violated** with two threads |
| `changes_race` | `{}` for a PUT of a missing column | **violated** with two threads |
| `stamp_race` | the time stamp in the answer to a POST | **violated** with two threads |
| `quoted_title` | an acknowledged PUT is stored | **violated** with one thread: the title has an apostrophe |
| `wide_id` | the column shown is the one the URL names | **violated** with one thread: the id is beyond `int` |
| `never_completed` | an answer left for later comes, or the connection is closed | **violated**: for a method that the parser knows and the router does not |

Why the bounds are enough. Two threads show every race here, because each hazard
is one thread's step between two of another's. `readers` starts from two columns
stored in the reverse of their position order, each with an item, and leaves room
for an insert: deletion of an item of a column that was read, followed by an
insert into one that was not, is in it (the mutant that reuses ids needs just
that). `MaxInserts` leaves two or three inserts beyond the rows of the seeds, one
for each thread. `IntHalf = 4` has an id that exists, ids that do not, and one
that wraps; the code never computes with ids. `single` uses the real length 25,
the others what is left of the text after two threads cut it.

For the connections, two show every interplay there is, since they share only the
queue and the tick, and the one that sends parts is enough to have its deadline
set, set anew and expired beside all that the other does: a timer of one before,
between or after those of the other, cancelled or run, with keys that wrap after
six timers and so many times over. Three timers are one for each connection and one that was cancelled and not yet removed; a
thread at that bound starts no deadline before its next tick.

**Liveness and fairness.** `FairSpec` assumes weak fairness of each thread that is
within a request: the operating system runs it, and no call waits for another
thread for ever, since SQLite holds its mutex for one call. No fairness is
assumed of clients, of failures or of crashes; a crash ends the requests it
interrupts. `EveryRequestEnds` is then about the loop over columns and about
handlers that return on every path. Its safety half is proved for any number of
threads and columns: `RequestsAdvance` and `LoopHasNext`.

`FairSpec` of `Connection` assumes that the thread runs what can run: each callback
whose operation is done or has failed, a posted `start()`, and the tick. It assumes
nothing of clients: they need not send, go, or take an answer. A piece of an answer
that has gone out calls back, into the next piece or into `do_write` (one fairness for
both, as it is one callback in the queue).
`SilentClientsAreDropped` is then about deadlines that are set anew after each
part of a request, and `ClosedConnectionsAreDeleted` about the two flags of
`check_destroy`.

**Objects that leak.** `ClosedConnectionsAreDeleted` leaves out objects that are
`Abandoned` or `Missed`, and `ObjectsAreHeld` says that there are no others which
nothing calls back any more. `Abandoned`: `remote_endpoint()` throws
(`http_connection.h:302`), or the router returns without an answer; `is_reading` is set and no read
is outstanding. `Missed`: the client leaves while an answer goes out in pieces.

1. A piece is done and its callback queued; the new read finds the end of the
   stream and is queued behind it.
2. The callback of the piece sends the last one, at once: the callback of `do_write` is
   queued behind that of the read.
3. The read's callback (479-486) closes the socket and clears `is_reading`;
   `check_destroy` leaves the object, since `is_writing` is still set.
4. The callback of `do_write` (516-527) has no error and nothing to close: it clears `is_writing`
   and does not call `check_destroy`. Both flags are down, and nobody looks again.

No line of the repository promises that these objects go, so they are no findings
but exceptions, stated as narrowly as they hold: `ObjectsAreHeld` requires of each
what brought it about.

Deadlock is checked in the runs of the service: one that is up can always take
another request or finish one. (Where `MaxInserts` stops the POSTs, the other
requests of the set remain.) It is not checked in those of the connections, where
both may be abandoned, and then nothing is left to do.

## What is proved

TLAPS proves the following for every value of the constants that satisfies
their assumptions; in particular for any number of threads, requests, columns
and items, with failures and crashes. The assumptions are about the width of
integers (`IdsAssumption`, `PositionsAssumption`), the files the service is started on
(`SeedsAssumption`), the length of `ctime`'s text (`NewlineAssumption`) and the
Boolean switches. Of requests they say only what Crow and rapidjson say of any
(`RequestsAssumption`): the ids of a link are integers, and a member of a body has
the type that it is tagged with. That every call that reaches the repository has
a legal operation, ids of an `int` and a parsed text and position is proved of
the routes, of `Narrow` and of the parser (`CallsAreTyped`).

*The file* (`BoardDatabase_proofs`). `DatabaseInv` is inductive: a new id is above
the sequence, so it is in no row, and a statement that would break a unique
constraint is refused. From it: `PositionsAreUnique`, `IdsAreNeverReused`,
`ItemsStayInTheirColumn`. Lemmas give one step per statement. `FileOK` is
`DatabaseInv` with its record opened up.

*The service* (`BoardService_proofs`).

* `ServiceIsTyped`: `TypeOK` is inductive. Its part that needs care says at which
  steps which calls can be (`IsAt`), so that what a write puts into a statement
  is known to be a parsed text and position.
* `ServiceImplementsDatabase`: every step is one statement of `DatabaseSpec` or
  leaves the file alone. The refinement mapping is the identity, since the
  service extends the module; what has to be shown is that arguments are legal
  and that failing statements, steps between statements, and crashes change
  nothing. So the theorems on the file hold of the service.
* `NoItemIsShownTwice`: by itself not inductive, since the next select might show
  an item that an earlier one has shown. `ReadingOK` is the strengthening: what a
  read has collected is of columns it will not read again, with ids not above
  the sequence, and an item still stored is where it was read. It is inductive
  *because* ids are never reused and items keep their column, the two action
  properties of the file. Without AUTOINCREMENT the theorem is false.
* `ReadsShowWhatWasStored`: every read adds rows that are stored as it reads them.

*Complete reads* (`ReadProofs`). `BoardsMissNothing` is `ReadsMissNothing` for any number
of threads. `LoopInv` says that an item that has lasted and is not in the answer
yet is of a column that the loop has still to come to. Where a select fails
although the disk does not, there is no table, and nothing to leave out.

*Why requests end* (`ReadProofs`). `RequestsComeCloser` is `RequestsAdvance`: the steps of all
handlers have one order (`Course`), and a step goes forward in it or takes one
column from the loop. `LoopsGoOn` says that the loop is finite and that its next
column, the first by position of those that are left, always exists. The second
needs that no two columns of the result have one id, so that the positions
order them, and a least element of a finite set, which comes of the library's
well-founded order of its subsets (an induction could not be instantiated). What
is left of `EveryRequestEnds` is that a thread is run, which is the fairness
assumed, and that a statement comes back, ok or not.

*Writes that were not raced* (`WriterProofs`). `UnracedAnswersAreStored` and
`UnracedRefusalsChangeNothing` are `AcknowledgedIsStored` and
`EmptyAnswerChangedNothing`. `WriteInv` says, for each step of a write, what a thread
that no other has disturbed may rely on: that the buffer holds what it has put
there, that the counters are those of its own statement, that the row is stored,
or that nothing was changed since it began. Each step of another thread either
leaves this alone or sets `raced`, which is the reason for the list `Disturbing`.
`AcknowledgedPostsWereStored`, in the same module, is `PostedRowsWereStored`, raced or
not: `PostInv` follows a POST from an empty result before its insert to a row in
`ever` after it. It says nothing of the id, and cannot: that is the finding of
`rowid_race`.

*What the findings come of* (`WriterProofs`). Five runs find an expectation of the tests
violated, and each names a cause. That there is no other cause is proved, for
each, from its absence. With one thread (`OneWorker`), a POST is answered with the id
and the stamp that it stored, and a PUT of a column that never was with `{}`, whatever
fails or crashes (`OneThreadKeepsExpectations`). With any number of threads, an
acknowledged PUT that was not raced is stored if no title breaks its statement and
the file does not fail (`CompilingPutsAreStored`), and a GET shows the column it names
if every id fits an `int` (`FittingIdsAreShown`). The hypotheses are not void:
`single` has one thread, and `writers` only titles that compile and ids that fit. `CauseInv` is what they need
beyond `WriteInv`: that a call was asked for by a request, keeps to the column it
names, and has noted in `ever` what is stored now.

*The stamp* (`StampProofs`). With one thread, all stored time stamps are whole, if
those of the seeds are: `StampInv` says what the buffer and the measured length
are at each step between `ctime` and the insert.

*Requests as a whole* (`ApiProofs`). `OneThreadServesAtomically` is `ServesAtomically`: with
one thread and no fault of the file, the service implements `BoardApi`, whatever is
asked, whatever file it finds and wherever it dies. The mapping gives a thread the
answer that is settled although the code has still to look for it (`AnswerToCome`).
`ServedInv` is what that needs: the tables exist while the process runs, the buffer
of `ctime` is the call's own (`StampOK`), and `ServedOK` says for every step what the
call has collected, among it that the loop over columns has the items of exactly
those it is through with. There is one lemma per step of the repository; each step
either settles the answer, as a `Perform`, or is no step of `BoardApi`. Neither
assumption can go: threads race (`stamp_race`, `rowid_race`, `changes_race`), and a
PUT whose select fails answers "{}" although it has written.

*Requests of several threads* (`SharedProofs`). `ThreadsServeConcurrently` is
`ServesConcurrently`: without those two assumptions the service implements `SharedApi`.
A call takes effect in a single statement, so a step is at most one of `Serve`,
`Write` and `Acknowledge`; what has to be shown is that the answer the code has
put together step by step is one that `SharedApi` allows. `SharedInv` keeps, for each
thread and through every step of the others, what has been collected so far:
within the loop over columns (`LoopOK`) it is a board without the items of the
columns still to come, which holds because items keep their column, ids are
never reused, and `ReadingOK` bounds what is still to be read; and the id that the connection
remembers is one of `NewIds`, since any insert of another thread adds its row to `ever` as
it moves the counter (`RowidStaysNew`). There is one lemma per step of the repository, and one that
carries a thread over the steps of the others (`OthersAreServed`).

*The connections* (`ConnectionProofs`), for any number of connections on the thread,
any clients, and any `KeyRange` at least twice `MaxTimers` (`MaxTimersAssumption`,
`KeyRangeAssumption`, `NullAssumption`, `NothingAssumption`, `KindsAssumption`,
`EndsAssumption`). `ConnectionInv` has two halves. `LifeOf` relates the flags of an
object to what asio has in hand for it: a read is outstanding exactly while a
deadline is set, a write never without `is_writing`, and before the last piece of
an answer has gone out the client has not sent its next request; once it has, the
callback of the write is ahead of the read that brings one, so `res` is free by then.
`QueueOK` relates keys to places: the key of an open connection leads to its own
timer, and that of one whose deadline has fired is at least `MaxTimers` places off.
The second part is what makes it inductive. It survives a tick because no key is
left behind for longer than one: by `Settled` the thread has run the callbacks that
the last tick aborted, and with them `cancel_deadline_timer`. Each action has the
shape of one of four lemmas (`Arms`, `Disarms`, `DisarmsAndDestroys`, `Stands`), which
keep the invariant and are steps of `Deadlines`. From it:
`ObjectsOutliveCallbacks`, `WaitsAreWatched`, `AnswersAreNotStale`, and
`QueueKeepsDeadlines`, the refinement.

`OnlyTheseAreLeftBehind` is the other side of `ObjectsOutliveCallbacks`: an object that runs
is held by a read or a write, or was abandoned in one of the two known ways, or was
missed because its client left before it had the whole answer. It needs that the
flags tell the truth the other way round (`HeldInv`): `is_writing` never without a
write; no read on a connection that is to stay (`Unread`) only after its socket was
closed, and if its answer is all out then, only because the client had left. Where a
callback ends with `is_reading` and no read, the exception or the router is the reason.

Only model-checked: liveness (`EveryRequestEnds`, `SilentClientsAreDropped`,
`ClosedConnectionsAreDeleted`), which is out of the prover's reach.

## Not modelled

* The text of JSON and SQL, status codes, logging, the title of the board.
* A text that turns a statement into another that compiles.
* Ids of rows beyond `int` (`stoi` of more than 2^31 rows).
* Two processes on one file.
* Of Crow: requests that are pipelined, and `Expect: 100-continue`, where two writes
  share buffers and a flag; the choice of a thread for an accepted connection; SSL;
  HTTP/1.0, which differs in the default of `close` alone; an accept that fails.
* Clients that send a request again when it was not answered: nothing in the
  repository does, and a repeated POST is for the file one more POST.
* `createDummyData`, which is never called, and the web application, which has no
  behaviour.

## Plan

Done: the modules, runs and proofs above. What could still be added:

1. Pipelined requests, with the bytes of two writes in one stream.
