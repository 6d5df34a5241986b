----------------------------- MODULE TimerQueue -----------------------------
(***************************************************************************)
(* crow/dumb_timer_queue.h: the timers of one thread.  All run for the     *)
(* same time, so they expire in the order in which they were added, and    *)
(* the key of a timer is its place in the line of all that ever were.      *)
(* Places are counted in an int: here modulo KeyRange, 2^32 in the code.   *)
(*                                                                         *)
(* A timer stands for its callback, that is for the connection it closes;  *)
(* the time it was added is left out.                                      *)
(***************************************************************************)
EXTENDS Integers, Sequences

CONSTANTS
  Conns,     \* the connections, as the owners of timers
  NoTimer,   \* a callback that is nullptr: the timer was cancelled
  NoKey,     \* a key whose queue is nullptr: nothing to cancel
  KeyRange   \* the number of keys

ASSUME KeyRangeAssumption == KeyRange \in Nat \ {0}

Keys   == 0 .. KeyRange - 1

ASSUME NullAssumption == NoTimer \notin Conns /\ NoKey \notin Keys

Queues == [dq : Seq(Conns \cup {NoTimer}), step : Keys]

NewQueue == [dq |-> <<>>, step |-> 0]

\* A mistake: the key is the index in the queue of today.
indexUnshifted(q, key) == key
\* (unsigned int)(k.second - self->step_)
index(q, key) == (key - q.step) % KeyRange

\* The key of a timer that has left the queue is too far off to be in it.
cancel(q, key) ==
  IF key # NoKey /\ index(q, key) < Len(q.dq)
    THEN [q EXCEPT !.dq[index(q, key) + 1] = NoTimer]
    ELSE q

\* A mistake: the place is not wrapped.
keyUnwrapped(q) == q.step + Len(q.dq)
add(q, c)       == [q EXCEPT !.dq = Append(@, c)]
keyOfNext(q)    == (q.step + Len(q.dq)) % KeyRange

\* process: the first n timers have run for the time of a tick.  Each that was
\* not cancelled is called before it is removed.
Expired(q, n) == {q.dq[i] : i \in 1 .. n} \ {NoTimer}
Without(q, n) ==
  [dq |-> SubSeq(q.dq, n + 1, Len(q.dq)), step |-> (q.step + n) % KeyRange]

\* A mistake: the timer that is still to run is removed before the break.
processOneMore(q, n) == Without(q, n + 1)
process(q, n)        == Without(q, n)

Running(q) == {q.dq[i] : i \in DOMAIN q.dq} \ {NoTimer}
=============================================================================
