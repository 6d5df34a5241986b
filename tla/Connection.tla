----------------------------- MODULE Connection -----------------------------
(***************************************************************************)
(* crow/http_connection.h on one thread of http_server.h: the connections  *)
(* of the thread, its queue of deadlines, and their clients.  A callback   *)
(* runs to its end, the handler of a request with it (to Endpoint and      *)
(* below, see BoardService), so each is one step.                          *)
(*                                                                         *)
(* A client sends a request when it has the answer to the one before; it   *)
(* may send a request in parts, be silent, not read, or go.  Of asio, the  *)
(* model takes that I/O is done as it is asked for, or else as its         *)
(* callback runs; that callbacks whose I/O is done are queued in that      *)
(* order, and come before I/O that was not possible then; and that         *)
(* async_write is one I/O for each piece of an answer that the socket      *)
(* takes at a time, asked for in the callback of the piece before.         *)
(***************************************************************************)
EXTENDS TimerQueue

CONSTANTS
  Kinds,      \* what each client sends: sets of AllKinds
  Ends,       \* the ways in which each client may go: sets of AllEnds
  Nothing,    \* no request, no answer
  MaxTimers   \* bound: no timer is added to a queue of so many

\* The requests after which the client wants the connection closed, those with
\* a method that http_parser knows and routing.h does not, and those of
\* HTTP/1.1 without Host, which never come to the router.
Closing == {"close", "foreignClose", "noHostClose"}
Foreign == {"foreign", "foreignClose"}
NoHost  == {"noHost", "noHostClose"}
ToAnswer == {"keepAlive"} \cup Closing \cup Foreign \cup NoHost

\* "upgrade": to another protocol than h2c.  "part": bytes that do not end a
\* request.
AllKinds == ToAnswer \cup {"upgrade", "part", "malformed"}

AllEnds == {"left", "reset"}

ASSUME NothingAssumption   == Nothing \notin AllKinds \cup {"made", "empty"}
ASSUME KindsAssumption     == Kinds \in [Conns -> SUBSET AllKinds]
ASSUME EndsAssumption      == Ends \in [Conns -> SUBSET AllEnds]
ASSUME MaxTimersAssumption == MaxTimers \in Nat /\ KeyRange >= 2 * MaxTimers

VARIABLES
  timers,  \* timer_queue of the thread
  object,  \* the Connection objects, NoObject where there is none
  sock,    \* their sockets, and the operations that asio has in hand
  client   \* the other ends

vars == <<timers, object, sock, client>>

NoObject ==
  [life |-> "none", key |-> NoKey, is_reading |-> FALSE, is_writing |-> FALSE,
   close_connection |-> FALSE, completed |-> FALSE, later |-> FALSE]
NewObject == [NoObject EXCEPT !.life = "posted"]

NoSocket  == [open |-> FALSE, read |-> "none", write |-> "none", out |-> Nothing]
NewClient == [sent |-> Nothing, awaits |-> FALSE, peer |-> "there"]

Init ==
  /\ timers = NewQueue
  /\ object = [c \in Conns |-> NoObject]
  /\ sock = [c \in Conns |-> NoSocket]
  /\ client = [c \in Conns |-> NewClient]

-----------------------------------------------------------------------------
\* Clients, and the network.
Send(c, k) ==
  /\ sock[c].open /\ client[c].peer = "there"
  /\ client[c].sent = Nothing /\ ~client[c].awaits
  /\ client' = [client EXCEPT ![c].sent = k, ![c].awaits = k # "part"]
  /\ UNCHANGED <<timers, object, sock>>

Leave(c) ==
  /\ sock[c].open /\ client[c].peer = "there"
  /\ \E p \in Ends[c] : client' = [client EXCEPT ![c].peer = p]
  /\ UNCHANGED <<timers, object, sock>>

\* The callback of a piece of the answer that was written is in asio's queue.
WriteQueued(c) == sock[c].write \in {"piece", "sent"}

\* A read that finds something before its callback runs, which is then queued,
\* behind that of a write if there is one.
ReadAtOnce(c) ==
  /\ sock[c].open /\ sock[c].read = "waiting"
  /\ client[c].sent # Nothing \/ client[c].peer # "there"
  /\ sock' = [sock EXCEPT ![c].read = IF WriteQueued(c) THEN "behind" ELSE "done"]
  /\ UNCHANGED <<timers, object, client>>

-----------------------------------------------------------------------------
\* do_accept, on another thread, and its is.post of start().
Accept(c) ==
  /\ object[c].life = "none"
  /\ object' = [object EXCEPT ![c] = NewObject]
  /\ sock' = [sock EXCEPT ![c].open = TRUE]
  /\ client' = [client EXCEPT ![c] = NewClient]
  /\ UNCHANGED timers

\* What start_deadline() and cancel_deadline_timer() leave of o and the queue.
Deadlined(c, o) == [o EXCEPT !.key = keyOfNext(cancel(timers, o.key))]
Undeadlined(o)  == [o EXCEPT !.key = NoKey]
cancel_deadline_timer(c) == timers' = cancel(timers, object[c].key)

\* A mistake: the deadline is not set anew.
start_deadlineOnce(c) == cancel_deadline_timer(c)
start_deadline(c) ==
  Len(timers.dq) < MaxTimers /\ timers' = add(cancel(timers, object[c].key), c)

\* check_destroy(): what is left of the object o, of its socket s, and of the
\* other end cl, which matters to nobody when the object is gone.
\* A mistake: IdleUnread does not look at is_writing.
IdleUnread(o) == ~o.is_reading
Idle(o)       == ~o.is_reading /\ ~o.is_writing
check_destroy(c, o, s, cl) ==
  /\ object' = [object EXCEPT ![c] = IF Idle(o) THEN NoObject ELSE o]
  /\ sock'   = [sock EXCEPT ![c] = IF Idle(o) THEN [s EXCEPT !.open = FALSE] ELSE s]
  /\ client' = [client EXCEPT ![c] = IF Idle(o) THEN NewClient ELSE cl]

start(c) ==
  /\ object[c].life = "posted"
  /\ start_deadline(c)
  /\ object' = [object EXCEPT ![c] = Deadlined(c, [@ EXCEPT !.life = "running",
                                                            !.is_reading = TRUE])]
  /\ sock' = [sock EXCEPT ![c].read = "waiting"]
  /\ UNCHANGED client

\* The callback of do_read may run: with data, or with an error.
CallsBack(c) ==
  sock[c].read = "done" \/ (sock[c].read = "waiting" /\ ~WriteQueued(c))
HasData(c) ==
  CallsBack(c) /\ client[c].sent # Nothing /\ (sock[c].open \/ sock[c].read = "done")
HasError(c) ==
  /\ CallsBack(c)
  /\ \/ ~sock[c].open /\ sock[c].read = "waiting"
     \/ client[c].peer # "there" /\ client[c].sent = Nothing
     \/ client[c].peer = "reset" /\ sock[c].read = "waiting"
Kind(c)  == client[c].sent
Taken(c) == [client[c] EXCEPT !.sent = Nothing]

\* error_while_reading
readError(c) ==
  /\ \/ HasError(c)
     \/ HasData(c) /\ Kind(c) = "malformed"
     \/ HasData(c) /\ Kind(c) \in {"part", "upgrade"} /\ ~sock[c].open
  /\ cancel_deadline_timer(c)
  /\ check_destroy(c, [Undeadlined(object[c]) EXCEPT !.is_reading = FALSE],
                      [sock[c] EXCEPT !.open = FALSE, !.read = "none"], Taken(c))

\* feed() comes to the end of no request.
readPart(c) ==
  /\ HasData(c) /\ Kind(c) = "part" /\ sock[c].open
  /\ start_deadline(c)
  /\ object' = [object EXCEPT ![c] = Deadlined(c, @)]
  /\ sock' = [sock EXCEPT ![c].read = "waiting"]
  /\ client' = [client EXCEPT ![c] = Taken(c)]

\* res is what an earlier request left, if that is still being written: then
\* no handler is called.
Stale(c) == object[c].completed /\ Kind(c) \notin NoHost

\* handle() of a request to answer logs adaptor_.remote_endpoint(), which
\* throws on a socket that is closed or was reset.
RemoteKnown(c) == sock[c].open /\ client[c].peer # "reset"

\* The request is dropped, without an answer, and the connection with it: it
\* asked for another protocol, or the router returned without res.end().
readDropped(c) ==
  /\ HasData(c) /\ sock[c].open
  /\ Kind(c) = "upgrade" \/ (Kind(c) = "foreignClose" /\ RemoteKnown(c) /\ ~Stale(c))
  /\ cancel_deadline_timer(c)
  /\ check_destroy(c, [Undeadlined(object[c]) EXCEPT !.is_reading = FALSE,
                                                     !.close_connection = TRUE],
                      [sock[c] EXCEPT !.read = "none"], Taken(c))

-----------------------------------------------------------------------------
Answerable(c) == HasData(c) /\ Kind(c) \in ToAnswer

\* Nothing catches the exception below run(), so is_reading stays and no read
\* is asked for again.
handleThrows(c) ==
  /\ Answerable(c) /\ ~RemoteKnown(c)
  /\ cancel_deadline_timer(c)
  /\ object' = [object EXCEPT ![c] = [Undeadlined(@) EXCEPT
                  !.close_connection = object[c].close_connection \/ Kind(c) \in Closing]]
  /\ sock' = [sock EXCEPT ![c].read = "none"]
  /\ client' = [client EXCEPT ![c] = Taken(c)]

\* The router returns without res.end(), and with the deadline cancelled.
handleForeign(c) ==
  /\ Answerable(c) /\ RemoteKnown(c) /\ Kind(c) = "foreign" /\ ~Stale(c)
  /\ cancel_deadline_timer(c)
  /\ object' = [object EXCEPT ![c] = [Undeadlined(@) EXCEPT !.later = TRUE]]
  /\ sock' = [sock EXCEPT ![c].read = "none"]
  /\ client' = [client EXCEPT ![c] = Taken(c)]

\* The next piece of an answer waits until the socket takes it, or has gone out
\* at once, the last one or not.
Outcomes == {"waiting", "piece", "sent"}

\* complete_request() and do_write(): s, with what is written, an answer that
\* was made for the request or one without a body.
do_write(c, s, outcome) ==
  [s EXCEPT !.write = outcome, !.out = IF Stale(c) THEN "empty" ELSE "made"]

\* The handler ends in res.end(), and the callback of do_read goes on.
handle(c) ==
  /\ Answerable(c) /\ RemoteKnown(c) /\ (Kind(c) \notin Foreign \/ Stale(c))
  /\ \E outcome \in Outcomes :
       LET closes == Kind(c) \in Closing
           s == do_write(c, sock[c], outcome)
           o == [object[c] EXCEPT !.is_writing = TRUE, !.is_reading = ~closes,
                                  !.close_connection = closes,
                                  !.completed = Kind(c) \notin NoHost]
       IN
       /\ IF closes THEN cancel_deadline_timer(c) ELSE start_deadline(c)
       /\ object' = [object EXCEPT ![c] = IF closes THEN Undeadlined(o) ELSE Deadlined(c, o)]
       /\ sock' = [sock EXCEPT ![c] = [s EXCEPT !.read = IF closes THEN "none" ELSE "waiting"]]
       /\ client' = [client EXCEPT ![c].sent = Nothing, ![c].awaits = outcome # "sent"]

-----------------------------------------------------------------------------
\* Mistakes: the callback of do_write does not clear res, or not its flag.
writtenUncleared(o) == [o EXCEPT !.is_writing = FALSE]
writtenStill(o)     == [o EXCEPT !.completed = FALSE]
written(o)          == [o EXCEPT !.is_writing = FALSE, !.completed = FALSE]

\* The callback of the write is out of the queue: the read's is next, if done.
Unqueued(s)  == [s EXCEPT !.read = IF @ = "behind" THEN "done" ELSE @]
Unwritten(s) == [Unqueued(s) EXCEPT !.write = "none", !.out = Nothing]

\* The callback of a piece of the answer may run: that piece has gone out.
WriteCallsBack(c, piece) ==
  \/ sock[c].write = piece /\ sock[c].read # "done"
  \/ sock[c].write = "waiting" /\ RemoteKnown(c)

\* Inside async_write: the next piece is asked for, which fails, as its own
\* callback runs, when the socket is closed or reset.
writePiece(c) ==
  /\ WriteCallsBack(c, "piece")
  /\ \E outcome \in IF RemoteKnown(c) THEN Outcomes ELSE {"waiting"} :
       /\ sock' = [sock EXCEPT ![c] = [Unqueued(@) EXCEPT !.write = outcome]]
       /\ client' = [client EXCEPT ![c].awaits = outcome # "sent"]
  /\ UNCHANGED <<timers, object>>

\* The callback of do_write, after which it is as if cl was there.
afterWrite(c, s, cl) ==
  /\ check_destroy(c, written(object[c]), s, cl)
  /\ timers' = IF Idle(written(object[c])) THEN cancel(timers, object[c].key) ELSE timers

writeDone(c) ==
  LET s == Unwritten(sock[c])  cl == [client[c] EXCEPT !.awaits = FALSE] IN
  /\ WriteCallsBack(c, "sent")
  /\ IF object[c].close_connection
       THEN afterWrite(c, [s EXCEPT !.open = FALSE], cl)
       ELSE /\ object' = [object EXCEPT ![c] = written(@)]
            /\ sock' = [sock EXCEPT ![c] = s]
            /\ client' = [client EXCEPT ![c] = IF sock[c].write = "sent" THEN @ ELSE cl]
            /\ UNCHANGED timers

writeError(c) ==
  /\ sock[c].write = "waiting" /\ (~sock[c].open \/ client[c].peer # "there")
  /\ afterWrite(c, Unwritten(sock[c]), client[c])

\* A thread runs the callbacks of operations that a deadline has aborted
\* before it looks at the clock again, a second later.
Settled ==
  \A c \in Conns : object[c].key # NoKey /\ ~sock[c].open =>
    sock[c].read = "none" /\ sock[c].write = "none"

\* The handler of the tick in http_server.h: process(), and the callbacks of
\* start_deadline for those that expired.
tick ==
  /\ Settled
  /\ \E n \in 1 .. Len(timers.dq) :
       /\ timers' = process(timers, n)
       /\ sock' = [c \in Conns |-> IF c \in Expired(timers, n)
                                     THEN [sock[c] EXCEPT !.open = FALSE] ELSE sock[c]]
  /\ UNCHANGED <<object, client>>

-----------------------------------------------------------------------------
ReadCallback(c) ==
  \/ readError(c) \/ readPart(c) \/ readDropped(c)
  \/ handleThrows(c) \/ handleForeign(c) \/ handle(c)

Next ==
  \/ tick
  \/ \E c \in Conns :
       \/ Accept(c) \/ start(c) \/ ReadCallback(c)
       \/ writePiece(c) \/ writeDone(c) \/ writeError(c)
       \/ ReadAtOnce(c) \/ Leave(c) \/ \E k \in Kinds[c] : Send(c, k)

Spec == Init /\ [][Next]_vars

\* The thread runs every callback that can run, and ticks.  A client need not
\* take its answer.
Fairness ==
  /\ WF_vars(tick)
  /\ \A c \in Conns :
       /\ WF_vars(start(c)) /\ WF_vars(ReadCallback(c)) /\ WF_vars(writeError(c))
       /\ WF_vars(WriteQueued(c) /\ (writePiece(c) \/ writeDone(c)))

FairSpec == Spec /\ Fairness

-----------------------------------------------------------------------------
Objects ==
  [life : {"none", "posted", "running"}, key : Keys \cup {NoKey},
   is_reading : BOOLEAN, is_writing : BOOLEAN, close_connection : BOOLEAN,
   completed : BOOLEAN, later : BOOLEAN]

Sockets ==
  [open : BOOLEAN, read : {"none", "waiting", "behind", "done"},
   write : {"none"} \cup Outcomes, out : {Nothing, "made", "empty"}]

Peers ==
  [sent : AllKinds \cup {Nothing}, awaits : BOOLEAN, peer : {"there"} \cup AllEnds]

TypeOK ==
  /\ timers \in Queues
  /\ object \in [Conns -> Objects]
  /\ sock \in [Conns -> Sockets]
  /\ client \in [Conns -> Peers]

\* "delete this" comes when nothing will call the object back any more: no
\* read, no write, no deadline (check_destroy, ~Connection).
DeletedWhenIdle ==
  \A c \in Conns : object[c].life = "none" =>
    sock[c].read = "none" /\ sock[c].write = "none" /\ c \notin Running(timers)

\* Whenever the thread waits for a client, for a request or to take an answer
\* after which the connection stays, a deadline of that connection runs, so
\* that the wait ends (start_deadline, http_connection.h:552).
DeadlineWatches ==
  \A c \in Conns :
    sock[c].open /\ (sock[c].read # "none" \/
                     (sock[c].write = "waiting" /\ ~object[c].close_connection))
    => c \in Running(timers)

\* What is written was made for the request it answers, not left in res by an
\* answer before: a client may have that one and send its next request before
\* the callback of the write has cleared res (http_connection.h:317, 517).
AnswersAreMade == \A c \in Conns : sock[c].out # "empty"

\* The sockets and deadlines are those of Deadlines, whose set is here a queue
\* of places and keys: no key ever cancels what is not its own, and nothing
\* expires for a connection that ended its deadline.
Abstract ==
  INSTANCE Deadlines WITH open  <- {c \in Conns : sock[c].open},
                          armed <- Running(timers)
DeadlinesAreKept == Abstract!DeadlinesSpec

\* A connection whose client stays silent is closed (the purpose of the
\* deadline), or the client has sent something.
SilentClientsAreDropped ==
  \A c \in Conns :
    (sock[c].open /\ sock[c].read # "none" /\ client[c].sent = Nothing)
      ~> (~sock[c].open \/ client[c].sent # Nothing)

\* handle() has thrown, or has left the answer to a later that does not come.
Abandoned(c) == object[c].is_reading /\ sock[c].read = "none"

\* The last piece of the answer had gone out when a read found that the client
\* had left: the callback of the write, which came after the socket was closed,
\* had no error and did not call check_destroy.
Missed(c) == Idle(object[c]) /\ ~sock[c].open /\ client[c].peer = "left"

\* Which objects are left behind.  One that runs is held by a read or a write,
\* whose callback will come; or it was abandoned, which with an open socket and
\* a client that did not reset it befalls only a request that was left for
\* later; or it was missed, which befalls only a client that left before it had
\* the whole answer.  (is_reading and is_writing in check_destroy.)
ObjectsAreHeld ==
  \A c \in Conns :
    object[c].life = "running" /\ sock[c].read = "none" /\ sock[c].write = "none" =>
      (Abandoned(c) /\ (object[c].later \/ ~RemoteKnown(c))) \/ Missed(c)

\* A connection whose socket is closed is deleted, once for all the callbacks
\* that are outstanding, unless it was abandoned or missed.
ClosedConnectionsAreDeleted ==
  \A c \in Conns :
    (object[c].life = "running" /\ ~sock[c].open)
      ~> (object[c].life = "none" \/ Abandoned(c) \/ Missed(c))

\* http_connection.h:503, the comment: an answer that is not there when the
\* handler returns comes later, or the connection is closed.
LeftForLaterIsCompleted ==
  \A c \in Conns : object[c].later ~> (~client[c].awaits \/ ~sock[c].open)
=============================================================================
