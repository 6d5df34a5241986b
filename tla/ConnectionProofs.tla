-------------------------- MODULE ConnectionProofs --------------------------
(***************************************************************************)
(* The safety of the connections of one thread, for any number of them,    *)
(* any clients and any range of keys: no callback outlives its object, a   *)
(* deadline runs whenever the thread waits for a client, and the queue of  *)
(* timers with its wrapping keys does what Deadlines asks for.             *)
(***************************************************************************)
EXTENDS Connection, SequenceTheorems, TLAPS

Place(c) == index(timers, object[c].key)

\* What the flags of an object say of its socket, and of its client.
LifeOf(o, s, p) ==
  /\ o.life = "none" => ~s.open
  /\ o.life = "posted" => s.open /\ ~o.close_connection
  /\ o.life # "running" => s.read = "none" /\ s.write = "none"
  /\ s.read # "none" => o.is_reading /\ ~o.close_connection
  /\ s.read # "none" <=> o.key # NoKey
  /\ s.write # "none" => o.is_writing
  /\ s.write \in {"waiting", "piece"} => p.sent = Nothing /\ p.awaits
  /\ s.open /\ s.write \in {"waiting", "piece"} /\ ~o.close_connection => s.read # "none"
  /\ s.read \in {"behind", "done"} => p.sent # Nothing \/ p.peer # "there"
  /\ s.read = "behind" => s.write \in {"piece", "sent"}
  /\ s.read = "done" /\ s.write = "sent" => p.sent = Nothing /\ p.peer = "left"
  /\ o.completed => s.write # "none"
  /\ s.out # "empty"

LifeOK(c) == LifeOf(object[c], sock[c], client[c])

\* A key leads to the timer of its own connection, or so far behind the end
\* that it will not be in the queue before it is gone.
KeyOK(c) ==
  object[c].key # NoKey =>
    \/ Place(c) < Len(timers.dq) /\ timers.dq[Place(c) + 1] = c
    \/ Place(c) >= MaxTimers /\ ~sock[c].open

\* A timer is known by the key of its connection, whose socket is open.
TimerOK(i) ==
  \A c \in Conns : timers.dq[i] = c =>
    object[c].key # NoKey /\ Place(c) = i - 1 /\ sock[c].open

QueueOK ==
  /\ Len(timers.dq) <= MaxTimers
  /\ \A c \in Conns : KeyOK(c)
  /\ \A i \in DOMAIN timers.dq : TimerOK(i)

\* The inductive invariant of the theorems below.
ConnectionInv == TypeOK /\ (\A c \in Conns : LifeOK(c)) /\ QueueOK

-----------------------------------------------------------------------------
\* Differences and sums of places, modulo KeyRange.
LEMMA Differences ==
  ASSUME NEW a \in Keys, NEW b \in Keys
  PROVE  (a - b) % KeyRange = IF a >= b THEN a - b ELSE a - b + KeyRange
BY KeyRangeAssumption DEF Keys

LEMMA Sums ==
  ASSUME NEW a \in Keys, NEW n \in 0 .. KeyRange
  PROVE  (a + n) % KeyRange = IF a + n < KeyRange THEN a + n ELSE a + n - KeyRange
BY KeyRangeAssumption DEF Keys

LEMMA Remainders ==
  ASSUME NEW a \in Int
  PROVE  a % KeyRange \in Keys
BY KeyRangeAssumption DEF Keys

LEMMA IndexIsKey ==
  ASSUME NEW q \in Queues, NEW key \in Keys
  PROVE  index(q, key) \in Keys
<1>1. key - q.step \in Int
  BY DEF Queues, Keys
<1> QED
  BY <1>1, Remainders DEF index

\* The types of the queue and of what its entries may be.
LEMMA QueueTypes ==
  ASSUME ConnectionInv
  PROVE  /\ timers \in Queues /\ timers.dq \in Seq(Conns \cup {NoTimer})
         /\ timers.step \in Keys /\ Len(timers.dq) \in 0 .. MaxTimers
         /\ DOMAIN timers.dq = 1 .. Len(timers.dq)
         /\ \A i \in DOMAIN timers.dq : timers.dq[i] \in Conns \cup {NoTimer}
         /\ \A c \in Conns : object[c].key \in Keys \cup {NoKey}
         /\ MaxTimers \in Nat /\ KeyRange \in Nat \ {0} /\ 2 * MaxTimers <= KeyRange
<1>1. timers \in Queues /\ timers.dq \in Seq(Conns \cup {NoTimer}) /\ timers.step \in Keys
  BY DEF ConnectionInv, TypeOK, Queues
<1>2. /\ Len(timers.dq) \in Nat /\ DOMAIN timers.dq = 1 .. Len(timers.dq)
      /\ \A i \in DOMAIN timers.dq : timers.dq[i] \in Conns \cup {NoTimer}
  BY <1>1, LenProperties, ElementOfSeq
<1>3. MaxTimers \in Nat /\ KeyRange \in Nat \ {0} /\ 2 * MaxTimers <= KeyRange
  BY MaxTimersAssumption, KeyRangeAssumption
<1>4. \A c \in Conns : object[c].key \in Keys \cup {NoKey}
  BY DEF ConnectionInv, TypeOK, Objects
<1>5. Len(timers.dq) <= MaxTimers
  BY DEF ConnectionInv, QueueOK
<1> QED
  BY <1>1, <1>2, <1>3, <1>4, <1>5

\* cancel takes the timer of c out of the queue, if there is one, and no other.
LEMMA Cancelled ==
  ASSUME ConnectionInv, NEW c \in Conns, NEW q, q = cancel(timers, object[c].key)
  PROVE  /\ q \in Queues /\ q.step = timers.step
         /\ Len(q.dq) = Len(timers.dq) /\ DOMAIN q.dq = DOMAIN timers.dq
         /\ \A i \in DOMAIN q.dq :
              q.dq[i] = IF timers.dq[i] = c THEN NoTimer ELSE timers.dq[i]
<1> USE QueueTypes
<1>0. /\ KeyOK(c) /\ \A i \in DOMAIN timers.dq : TimerOK(i)
      /\ c # NoTimer /\ (object[c].key # NoKey => object[c].key \in Keys)
  BY NullAssumption DEF ConnectionInv, QueueOK
<1>1. CASE object[c].key # NoKey /\ Place(c) < Len(timers.dq)
  <2>1. Place(c) \in Keys
    BY <1>0, <1>1, IndexIsKey DEF Place
  <2>2. Place(c) + 1 \in 1 .. Len(timers.dq) /\ timers.dq[Place(c) + 1] = c
    BY <1>0, <1>1, <2>1 DEF KeyOK, Keys
  <2>3. q = [timers EXCEPT !.dq[Place(c) + 1] = NoTimer]
    BY <1>1 DEF cancel, Place
  <2>4. q.dq = [timers.dq EXCEPT ![Place(c) + 1] = NoTimer] /\ q.step = timers.step
        /\ q = [dq |-> q.dq, step |-> q.step]
    BY <2>3 DEF Queues
  <2>5. /\ q.dq \in Seq(Conns \cup {NoTimer}) /\ Len(q.dq) = Len(timers.dq)
        /\ \A i \in 1 .. Len(timers.dq) :
             q.dq[i] = IF i = Place(c) + 1 THEN NoTimer ELSE timers.dq[i]
    BY <2>2, <2>4, ExceptSeq
  <2>6. DOMAIN q.dq = 1 .. Len(timers.dq)
    BY <2>5, LenProperties
  <2>7. \A i \in 1 .. Len(timers.dq) : timers.dq[i] = c => i = Place(c) + 1
    BY <1>0, <2>1 DEF TimerOK, Keys
  <2>8. \A i \in DOMAIN q.dq : q.dq[i] = IF timers.dq[i] = c THEN NoTimer ELSE timers.dq[i]
    BY <2>2, <2>5, <2>6, <2>7
  <2> QED
    BY <2>4, <2>5, <2>6, <2>8 DEF Queues
<1>2. CASE ~(object[c].key # NoKey /\ Place(c) < Len(timers.dq))
  <2>1. q = timers
    BY <1>2 DEF cancel, Place
  <2>2. \A i \in DOMAIN timers.dq : timers.dq[i] # c
    BY <1>0, <1>2 DEF TimerOK
  <2> QED
    BY <2>1, <2>2
<1> QED
  BY <1>1, <1>2

\* The connections whose timer runs.
LEMMA RunningIs ==
  ASSUME NEW q \in Queues
  PROVE  /\ Running(q) \subseteq Conns
         /\ \A c \in Conns : c \in Running(q) <=> \E i \in DOMAIN q.dq : q.dq[i] = c
<1>1. q.dq \in Seq(Conns \cup {NoTimer})
  BY DEF Queues
<1>2. \A i \in DOMAIN q.dq : q.dq[i] \in Conns \cup {NoTimer}
  BY <1>1, LenProperties, ElementOfSeq
<1> QED
  BY <1>2, NullAssumption DEF Running

\* Of the other connections, an action of c leaves what the queue depends on.
Others(c) ==
  \A d \in Conns \ {c} : object'[d].key = object[d].key /\ sock'[d].open = sock[d].open

\* c ends its deadline.
LEMMA QueueAfterCancel ==
  ASSUME ConnectionInv, NEW c \in Conns, Others(c),
         timers' = cancel(timers, object[c].key), object'[c].key = NoKey
  PROVE  QueueOK' /\ Running(timers') = Running(timers) \ {c} /\ timers' \in Queues
<1> USE QueueTypes
<1>1. /\ timers' \in Queues /\ timers'.step = timers.step
      /\ Len(timers'.dq) = Len(timers.dq) /\ DOMAIN timers'.dq = DOMAIN timers.dq
      /\ \A i \in DOMAIN timers'.dq :
           timers'.dq[i] = IF timers.dq[i] = c THEN NoTimer ELSE timers.dq[i]
  BY Cancelled
<1>2. \A d \in Conns : KeyOK(d)'
  <2> SUFFICES ASSUME NEW d \in Conns, object'[d].key # NoKey
               PROVE  \/ Place(d)' < Len(timers'.dq) /\ timers'.dq[Place(d)' + 1] = d
                      \/ Place(d)' >= MaxTimers /\ ~sock'[d].open
    BY DEF KeyOK
  <2>1. d # c /\ object'[d].key = object[d].key /\ sock'[d].open = sock[d].open
    BY DEF Others
  <2>2. Place(d)' = Place(d) /\ Place(d) \in Keys
    BY <1>1, <2>1, IndexIsKey DEF Place, index
  <2>3. \/ Place(d) < Len(timers.dq) /\ timers.dq[Place(d) + 1] = d
        \/ Place(d) >= MaxTimers /\ ~sock[d].open
    BY <2>1 DEF ConnectionInv, QueueOK, KeyOK
  <2>4. Place(d) < Len(timers.dq) => Place(d) + 1 \in DOMAIN timers'.dq
    BY <1>1, <2>2 DEF Keys
  <2> QED
    BY <1>1, <2>1, <2>2, <2>3, <2>4
<1>3. \A i \in DOMAIN timers'.dq : TimerOK(i)'
  <2> SUFFICES ASSUME NEW i \in DOMAIN timers'.dq, NEW d \in Conns, timers'.dq[i] = d
               PROVE  object'[d].key # NoKey /\ Place(d)' = i - 1 /\ sock'[d].open
    BY DEF TimerOK
  <2>1. timers.dq[i] = d /\ d # c
    BY <1>1, NullAssumption
  <2>2. object[d].key # NoKey /\ Place(d) = i - 1 /\ sock[d].open
    BY <1>1, <2>1 DEF ConnectionInv, QueueOK, TimerOK
  <2>3. object'[d].key = object[d].key /\ sock'[d].open = sock[d].open
    BY <2>1 DEF Others
  <2>4. Place(d)' = Place(d)
    BY <1>1, <2>3 DEF Place, index
  <2> QED
    BY <2>2, <2>3, <2>4
<1>4. Running(timers') = Running(timers) \ {c}
  BY <1>1, NullAssumption DEF Running
<1> QED
  BY <1>1, <1>2, <1>3, <1>4 DEF QueueOK

\* The key of a new deadline.
LEMMA NextKey ==
  ASSUME ConnectionInv, NEW c \in Conns
  PROVE  keyOfNext(cancel(timers, object[c].key)) \in Keys
<1> DEFINE q == cancel(timers, object[c].key)
<1>1. q.step \in Keys /\ Len(q.dq) \in 0 .. KeyRange
  BY Cancelled, QueueTypes
<1> HIDE DEF q
<1>2. q.step + Len(q.dq) \in Int
  BY <1>1 DEF Keys
<1> QED
  BY <1>2, Remainders DEF keyOfNext, q

\* c sets its deadline, anew or for the first time.
LEMMA QueueAfterStart ==
  ASSUME ConnectionInv, NEW c \in Conns, Others(c), start_deadline(c),
         object'[c].key = keyOfNext(cancel(timers, object[c].key)), sock'[c].open
  PROVE  QueueOK' /\ Running(timers') = Running(timers) \cup {c} /\ timers' \in Queues
<1> USE QueueTypes
<1> DEFINE q == cancel(timers, object[c].key)
           n == Len(timers.dq)
<1>1. /\ q \in Queues /\ q.step = timers.step
      /\ Len(q.dq) = n /\ DOMAIN q.dq = DOMAIN timers.dq
      /\ \A i \in DOMAIN q.dq :
           q.dq[i] = IF timers.dq[i] = c THEN NoTimer ELSE timers.dq[i]
  BY Cancelled
<1>2. n < MaxTimers /\ timers' = add(q, c)
  BY DEF start_deadline
<1> HIDE DEF q
<1>3. /\ timers'.dq = Append(q.dq, c) /\ timers'.step = timers.step
      /\ timers' = [dq |-> timers'.dq, step |-> timers'.step]
  BY <1>1, <1>2 DEF add, Queues
<1>4. /\ timers'.dq \in Seq(Conns \cup {NoTimer}) /\ Len(timers'.dq) = n + 1
      /\ \A i \in 1 .. n : timers'.dq[i] = q.dq[i]
      /\ timers'.dq[n + 1] = c
  BY <1>1, <1>3, AppendProperties DEF Queues
<1>5. DOMAIN timers'.dq = 1 .. n + 1
  BY <1>4, LenProperties
<1>6. timers' \in Queues
  BY <1>1, <1>3, <1>4 DEF Queues
<1>7. object'[c].key \in Keys /\ Place(c)' = n
  <2>1. object'[c].key = (timers.step + n) % KeyRange
    BY <1>1 DEF keyOfNext, q
  <2>2. object'[c].key = IF timers.step + n < KeyRange
                           THEN timers.step + n ELSE timers.step + n - KeyRange
    BY <2>1, Sums
  <2>3. object'[c].key \in Keys
    BY <2>2, <1>2 DEF Keys
  <2>4. Place(c)' = (object'[c].key - timers.step) % KeyRange
    BY <1>3 DEF Place, index
  <2>5. Place(c)' = IF object'[c].key >= timers.step THEN object'[c].key - timers.step
                    ELSE object'[c].key - timers.step + KeyRange
    BY <2>3, <2>4, Differences
  <2>6. n \in Nat /\ n < KeyRange /\ timers.step \in 0 .. KeyRange - 1
    BY <1>2 DEF Keys
  <2> HIDE DEF n
  <2> QED
    BY <2>2, <2>3, <2>5, <2>6
<1>8. \A d \in Conns : KeyOK(d)'
  <2> SUFFICES ASSUME NEW d \in Conns, object'[d].key # NoKey
               PROVE  \/ Place(d)' < Len(timers'.dq) /\ timers'.dq[Place(d)' + 1] = d
                      \/ Place(d)' >= MaxTimers /\ ~sock'[d].open
    BY DEF KeyOK
  <2>1. CASE d = c
    BY <1>4, <1>7, <2>1
  <2>2. CASE d # c
    <3>1. object'[d].key = object[d].key /\ sock'[d].open = sock[d].open
      BY <2>2 DEF Others
    <3>2. Place(d)' = Place(d) /\ Place(d) \in Keys
      BY <1>3, <3>1, IndexIsKey DEF Place, index
    <3>3. \/ Place(d) < n /\ timers.dq[Place(d) + 1] = d
          \/ Place(d) >= MaxTimers /\ ~sock[d].open
      BY <3>1 DEF ConnectionInv, QueueOK, KeyOK
    <3>4. Place(d) < n => Place(d) + 1 \in 1 .. n
      BY <3>2 DEF Keys
    <3>5. CASE Place(d) < n
      <4>1. q.dq[Place(d) + 1] = d /\ timers'.dq[Place(d) + 1] = q.dq[Place(d) + 1]
        <5>1. PICK i \in 1 .. n : i = Place(d) + 1
          BY <3>4, <3>5
        <5>2. timers.dq[i] = d
          BY <3>2, <3>3, <3>5, <5>1 DEF Keys
        <5>3. q.dq[i] = d /\ timers'.dq[i] = q.dq[i]
          BY <1>1, <1>4, <2>2, <5>2
        <5> QED
          BY <5>1, <5>3
      <4>2. Place(d) < n + 1
        BY <3>2, <3>5 DEF Keys
      <4> QED
        BY <1>4, <3>2, <4>1, <4>2
    <3>6. CASE ~(Place(d) < n)
      BY <3>1, <3>2, <3>3, <3>6
    <3> QED
      BY <3>5, <3>6
  <2> QED
    BY <2>1, <2>2
<1>9. \A i \in DOMAIN timers'.dq : TimerOK(i)'
  <2> SUFFICES ASSUME NEW i \in DOMAIN timers'.dq, NEW d \in Conns, timers'.dq[i] = d
               PROVE  object'[d].key # NoKey /\ Place(d)' = i - 1 /\ sock'[d].open
    BY DEF TimerOK
  <2>1. CASE i = n + 1
    <3>1. object'[c].key # NoKey
      BY <1>7, NullAssumption
    <3> QED
      BY <1>4, <1>7, <2>1, <3>1
  <2>2. CASE i \in 1 .. n
    <3>1. timers.dq[i] = d /\ d # c
      BY <1>1, <1>4, <2>2, NullAssumption
    <3>2. object[d].key # NoKey /\ Place(d) = i - 1 /\ sock[d].open
      BY <2>2, <3>1 DEF ConnectionInv, QueueOK, TimerOK
    <3>3. object'[d].key = object[d].key /\ sock'[d].open = sock[d].open
      BY <3>1 DEF Others
    <3>4. Place(d)' = Place(d)
      BY <1>3, <3>3 DEF Place, index
    <3> QED
      BY <3>2, <3>3, <3>4
  <2>3. i = n + 1 \/ i \in 1 .. n
    BY <1>5
  <2> QED
    BY <2>1, <2>2, <2>3
<1>10. Running(timers') = Running(timers) \cup {c}
  <2>1. ASSUME NEW d \in Conns
        PROVE  d \in Running(timers') <=> d \in Running(timers) \cup {c}
    <3>1. CASE d = c
      <4>1. n + 1 \in DOMAIN timers'.dq /\ timers'.dq[n + 1] = d
        BY <1>4, <1>5, <3>1
      <4> QED
        BY <1>6, <3>1, <4>1, RunningIs
    <3>2. CASE d # c
      <4>1. \A i \in 1 .. n : timers'.dq[i] = d <=> timers.dq[i] = d
        BY <1>1, <1>4, <3>2, NullAssumption
      <4>2. (\E i \in 1 .. n + 1 : timers'.dq[i] = d) <=> \E i \in 1 .. n : timers.dq[i] = d
        <5>1. \A i : i \in 1 .. n + 1 <=> i \in 1 .. n \/ i = n + 1
          OBVIOUS
        <5> HIDE DEF n
        <5> QED
          BY <1>4, <3>2, <4>1, <5>1
      <4> HIDE DEF n
      <4>3. d \in Running(timers') <=> \E i \in 1 .. n + 1 : timers'.dq[i] = d
        BY <1>5, <1>6, RunningIs
      <4>4. d \in Running(timers) <=> \E i \in 1 .. n : timers.dq[i] = d
        BY RunningIs DEF n
      <4> QED
        BY <3>2, <4>2, <4>3, <4>4
    <3> QED
      BY <3>1, <3>2
  <2> QED
    BY <1>6, <2>1, RunningIs
<1> QED
  BY <1>2, <1>4, <1>6, <1>8, <1>9, <1>10 DEF QueueOK

\* No deadline starts or ends, and no socket under one closes.
LEMMA QueueStays ==
  ASSUME ConnectionInv, UNCHANGED timers,
         \A d \in Conns : /\ object'[d].key = object[d].key
                          /\ sock'[d].open = sock[d].open \/ object[d].key = NoKey
  PROVE  QueueOK' /\ timers' \in Queues
<1> USE QueueTypes
<1>1. \A d \in Conns : Place(d)' = Place(d)
  BY DEF Place, index
<1>2. \A d \in Conns : KeyOK(d)'
  BY <1>1 DEF ConnectionInv, QueueOK, KeyOK
<1>3. \A i \in DOMAIN timers'.dq : TimerOK(i)'
  BY <1>1 DEF ConnectionInv, QueueOK, TimerOK
<1> QED
  BY <1>2, <1>3 DEF QueueOK, ConnectionInv

\* The place of a key, after n more timers have left the queue.
LEMMA Shifted ==
  ASSUME NEW k \in 0 .. KeyRange - 1, NEW s \in 0 .. KeyRange - 1, NEW n \in 0 .. KeyRange,
         NEW t, t = IF s + n < KeyRange THEN s + n ELSE s + n - KeyRange,
         NEW p, p = IF k >= s THEN k - s ELSE k - s + KeyRange,
         NEW q, q = IF k >= t THEN k - t ELSE k - t + KeyRange
  PROVE  q = IF p >= n THEN p - n ELSE p - n + KeyRange
BY KeyRangeAssumption

\* The first n timers run out.
LEMMA QueueAfterTick ==
  ASSUME ConnectionInv, Settled, NEW n \in 1 .. Len(timers.dq),
         timers' = process(timers, n), UNCHANGED object,
         sock' = [c \in Conns |-> IF c \in Expired(timers, n)
                                    THEN [sock[c] EXCEPT !.open = FALSE] ELSE sock[c]]
  PROVE  /\ QueueOK' /\ timers' \in Queues
         /\ Expired(timers, n) \subseteq Running(timers)
         /\ Running(timers') = Running(timers) \ Expired(timers, n)
<1> DEFINE m == Len(timers.dq)
<1>0. /\ timers \in Queues /\ timers.step \in 0 .. KeyRange - 1
      /\ m \in 0 .. MaxTimers /\ n \in 1 .. m /\ DOMAIN timers.dq = 1 .. m
      /\ \A i \in 1 .. m : timers.dq[i] \in Conns \cup {NoTimer}
      /\ \A c \in Conns : object[c].key \in Keys \cup {NoKey}
      /\ MaxTimers \in Nat /\ KeyRange \in Nat \ {0} /\ 2 * MaxTimers <= KeyRange
  BY QueueTypes DEF Keys
<1>00. /\ Len(timers.dq) = m
       /\ process(timers, n) = [dq |-> SubSeq(timers.dq, n + 1, m),
                                step |-> (timers.step + n) % KeyRange]
  BY DEF process, Without
<1> HIDE DEF m
<1>1. /\ timers'.dq = SubSeq(timers.dq, n + 1, m)
      /\ timers'.step = (timers.step + n) % KeyRange
      /\ timers' = [dq |-> timers'.dq, step |-> timers'.step]
  BY <1>00
<1>2. /\ timers'.dq \in Seq(Conns \cup {NoTimer}) /\ Len(timers'.dq) = m - n
      /\ \A i \in 1 .. m - n : timers'.dq[i] = timers.dq[n + i]
  <2>1. \A i \in n + 1 .. m : timers.dq[i] \in Conns \cup {NoTimer}
    BY <1>0
  <2>2. /\ SubSeq(timers.dq, n + 1, m) \in Seq(Conns \cup {NoTimer})
        /\ Len(SubSeq(timers.dq, n + 1, m)) = IF n + 1 <= m THEN m - (n + 1) + 1 ELSE 0
        /\ \A i \in 1 .. m - (n + 1) + 1 :
             SubSeq(timers.dq, n + 1, m)[i] = timers.dq[n + 1 + i - 1]
    BY <1>0, <2>1, SubSeqProperties
  <2> QED
    <3>1. /\ m - (n + 1) + 1 = m - n
          /\ Len(timers'.dq) = IF n + 1 <= m THEN m - (n + 1) + 1 ELSE 0
      BY <1>0, <1>1, <2>2
    <3>2. Len(timers'.dq) = m - n
      BY <1>0, <3>1
    <3>3. ASSUME NEW i \in 1 .. m - n
          PROVE  timers'.dq[i] = timers.dq[n + i]
      <4>1. i \in 1 .. m - (n + 1) + 1 /\ n + 1 + i - 1 = n + i
        BY <1>0
      <4>2. timers'.dq[i] = timers.dq[n + 1 + i - 1]
        BY <1>1, <2>2, <4>1
      <4> QED
        BY <4>1, <4>2
    <3> QED
      BY <1>1, <2>2, <3>2, <3>3
<1>3. DOMAIN timers'.dq = 1 .. m - n
  BY <1>0, <1>2, LenProperties
<1>4. timers'.step = IF timers.step + n < KeyRange
                       THEN timers.step + n ELSE timers.step + n - KeyRange
  <2>1. n \in 0 .. KeyRange /\ timers.step \in Keys
    BY <1>0 DEF Keys
  <2> QED
    BY <1>1, <2>1, Sums
<1>5. timers'.step \in Keys /\ timers' \in Queues
  <2>1. timers'.step \in 0 .. KeyRange - 1
    BY <1>0, <1>4
  <2> QED
    BY <1>1, <1>2, <2>1 DEF Keys, Queues
<1>6. ASSUME NEW d \in Conns, object[d].key # NoKey
      PROVE  /\ Place(d) \in 0 .. m - 1 /\ timers.dq[Place(d) + 1] = d
             /\ Place(d)' = IF Place(d) >= n THEN Place(d) - n ELSE Place(d) - n + KeyRange
  <2>1. sock[d].open
    BY <1>6 DEF Settled, ConnectionInv, LifeOK, LifeOf
  <2>2. Place(d) < m /\ timers.dq[Place(d) + 1] = d
    <3>1. KeyOK(d)
      BY DEF ConnectionInv, QueueOK
    <3> QED
      BY <1>6, <1>00, <2>1, <3>1 DEF KeyOK
  <2>3. object[d].key \in Keys /\ Place(d) \in Keys
    BY <1>0, <1>6, IndexIsKey DEF Place
  <2>4. Place(d) = IF object[d].key >= timers.step THEN object[d].key - timers.step
                   ELSE object[d].key - timers.step + KeyRange
    <3>1. timers.step \in Keys
      BY <1>0 DEF Keys
    <3> QED
      BY <2>3, <3>1, Differences DEF Place, index
  <2>5. Place(d)' = IF object[d].key >= timers'.step THEN object[d].key - timers'.step
                    ELSE object[d].key - timers'.step + KeyRange
    BY <1>5, <2>3, Differences DEF Place, index
  <2>6. Place(d) \in 0 .. m - 1
    BY <1>0, <2>2, <2>3 DEF Keys
  <2>7. Place(d)' = IF Place(d) >= n THEN Place(d) - n ELSE Place(d) - n + KeyRange
    <3>1. /\ object[d].key \in 0 .. KeyRange - 1 /\ timers.step \in 0 .. KeyRange - 1
          /\ n \in 0 .. KeyRange
      BY <1>0, <2>3 DEF Keys
    <3> HIDE DEF Place
    <3> QED
      BY <1>4, <2>4, <2>5, <3>1, Shifted
  <2> QED
    BY <2>2, <2>6, <2>7
<1>7. \A d \in Conns : sock'[d].open <=> sock[d].open /\ d \notin Expired(timers, n)
  BY DEF ConnectionInv, TypeOK, Sockets
<1>8. \A d \in Conns : KeyOK(d)'
  <2> SUFFICES ASSUME NEW d \in Conns, object[d].key # NoKey
               PROVE  \/ Place(d)' < Len(timers'.dq) /\ timers'.dq[Place(d)' + 1] = d
                      \/ Place(d)' >= MaxTimers /\ ~sock'[d].open
    BY DEF KeyOK
  <2>1. /\ Place(d) \in 0 .. m - 1 /\ timers.dq[Place(d) + 1] = d
        /\ Place(d)' = IF Place(d) >= n THEN Place(d) - n ELSE Place(d) - n + KeyRange
    BY <1>6
  <2>2. CASE Place(d) >= n
    <3>1. Place(d)' = Place(d) - n /\ Place(d)' + 1 \in 1 .. m - n
      BY <1>0, <2>1, <2>2
    <3>2. timers'.dq[Place(d)' + 1] = timers.dq[n + (Place(d)' + 1)]
      BY <1>2, <3>1
    <3>3. n + (Place(d)' + 1) = Place(d) + 1
      BY <1>0, <2>1, <3>1
    <3>4. timers'.dq[Place(d)' + 1] = d
      BY <2>1, <3>2, <3>3
    <3>5. Place(d)' < m - n
      BY <1>0, <2>1, <3>1
    <3> QED
      BY <1>2, <3>4, <3>5
  <2>3. CASE Place(d) < n
    <3>1. Place(d)' >= MaxTimers
      BY <1>0, <2>1, <2>3
    <3>2. d \in Expired(timers, n)
      <4>1. Place(d) + 1 \in 1 .. n
        BY <1>0, <2>1, <2>3
      <4> QED
        BY <2>1, <4>1, NullAssumption DEF Expired
    <3> QED
      BY <1>7, <3>1, <3>2
  <2> QED
    BY <1>0, <2>1, <2>2, <2>3
<1>9. ASSUME NEW i \in 1 .. m, NEW d \in Conns, timers.dq[i] = d
      PROVE  object[d].key # NoKey /\ Place(d) = i - 1 /\ sock[d].open
  BY <1>0, <1>9 DEF ConnectionInv, QueueOK, TimerOK
<1>10. \A d \in Conns : d \in Expired(timers, n) <=> \E i \in 1 .. n : timers.dq[i] = d
  BY NullAssumption DEF Expired
<1>11. \A i \in DOMAIN timers'.dq : TimerOK(i)'
  <2> SUFFICES ASSUME NEW i \in DOMAIN timers'.dq, NEW d \in Conns, timers'.dq[i] = d
               PROVE  object'[d].key # NoKey /\ Place(d)' = i - 1 /\ sock'[d].open
    BY DEF TimerOK
  <2>1. i \in 1 .. m - n /\ n + i \in 1 .. m
    BY <1>0, <1>3
  <2>2. timers.dq[n + i] = d
    BY <1>2, <2>1
  <2>3. object[d].key # NoKey /\ Place(d) = (n + i) - 1 /\ sock[d].open
    BY <1>9, <2>1, <2>2
  <2>4. Place(d)' = i - 1
    BY <1>0, <1>6, <2>1, <2>3
  <2>5. ~\E j \in 1 .. n : timers.dq[j] = d
    <3>1. \A j \in 1 .. n : j \in 1 .. m /\ j - 1 # (n + i) - 1
      BY <1>0, <2>1
    <3> QED
      BY <1>9, <2>3, <3>1
  <2>6. d \notin Expired(timers, n)
    BY <1>10, <2>5
  <2> QED
    BY <1>7, <2>3, <2>4, <2>6
<1>12. ASSUME NEW d \in Conns
       PROVE  d \in Running(timers') <=> d \in Running(timers) \ Expired(timers, n)
  <2>1. (\E i \in 1 .. m - n : timers'.dq[i] = d) <=> \E i \in n + 1 .. m : timers.dq[i] = d
    <3>1. ASSUME NEW i \in n + 1 .. m, timers.dq[i] = d
          PROVE  \E j \in 1 .. m - n : timers'.dq[j] = d
      <4>1. i - n \in 1 .. m - n /\ n + (i - n) = i
        BY <1>0
      <4> QED
        BY <1>2, <3>1, <4>1
    <3>2. ASSUME NEW i \in 1 .. m - n, timers'.dq[i] = d
          PROVE  \E j \in n + 1 .. m : timers.dq[j] = d
      <4>1. n + i \in n + 1 .. m
        BY <1>0
      <4> QED
        BY <1>2, <3>2, <4>1
    <3> QED
      BY <3>1, <3>2
  <2>2. ASSUME NEW i \in n + 1 .. m, timers.dq[i] = d, NEW j \in 1 .. n, timers.dq[j] = d
        PROVE  FALSE
    <3>1. i \in 1 .. m /\ j \in 1 .. m /\ i - 1 # j - 1
      BY <1>0
    <3> QED
      BY <1>9, <2>2, <3>1
  <2>3. \A i : i \in 1 .. m <=> i \in 1 .. n \/ i \in n + 1 .. m
    BY <1>0
  <2>4. (\E i \in n + 1 .. m : timers.dq[i] = d)
          <=> (\E i \in 1 .. m : timers.dq[i] = d) /\ ~\E i \in 1 .. n : timers.dq[i] = d
    BY <2>2, <2>3
  <2>5. d \in Running(timers') <=> \E i \in 1 .. m - n : timers'.dq[i] = d
    BY <1>3, <1>5, RunningIs
  <2>6. d \in Running(timers) <=> \E i \in 1 .. m : timers.dq[i] = d
    BY <1>0, RunningIs
  <2> QED
    BY <1>10, <2>1, <2>4, <2>5, <2>6
<1>13. Expired(timers, n) \subseteq Running(timers)
  <2>1. 1 .. n \subseteq DOMAIN timers.dq
    BY <1>0
  <2> QED
    BY <2>1 DEF Expired, Running
<1>14. Running(timers') = Running(timers) \ Expired(timers, n)
  BY <1>0, <1>5, <1>12, RunningIs
<1>15. Len(timers'.dq) <= MaxTimers
  BY <1>0, <1>2
<1> QED
  BY <1>5, <1>8, <1>11, <1>13, <1>14, <1>15 DEF QueueOK

-----------------------------------------------------------------------------
\* An action of one connection, that leaves it in order.
LEMMA OneConnection ==
  ASSUME ConnectionInv, NEW c \in Conns, timers' \in Queues, QueueOK',
         NEW o \in Objects, NEW s \in Sockets, NEW p \in Peers, LifeOf(o, s, p),
         object' = [object EXCEPT ![c] = o], sock' = [sock EXCEPT ![c] = s],
         client' = [client EXCEPT ![c] = p]
  PROVE  ConnectionInv'
<1>1. TypeOK'
  BY DEF ConnectionInv, TypeOK
<1>2. ASSUME NEW d \in Conns PROVE LifeOK(d)'
  <2>1. object'[c] = o /\ sock'[c] = s /\ client'[c] = p
    BY DEF ConnectionInv, TypeOK
  <2>2. d # c => object'[d] = object[d] /\ sock'[d] = sock[d] /\ client'[d] = client[d]
    BY DEF ConnectionInv, TypeOK
  <2> QED
    BY <2>1, <2>2 DEF ConnectionInv, LifeOK
<1> QED
  BY <1>1, <1>2 DEF ConnectionInv

\* The parts of the invariant that concern one connection.
LEMMA PartsOf ==
  ASSUME ConnectionInv, NEW c \in Conns
  PROVE  /\ object \in [Conns -> Objects] /\ sock \in [Conns -> Sockets]
         /\ client \in [Conns -> Peers]
         /\ object[c] \in Objects /\ sock[c] \in Sockets /\ client[c] \in Peers
         /\ LifeOf(object[c], sock[c], client[c])
         /\ object[c].key = NoKey => c \notin Running(timers)
<1>1. object[c].key = NoKey => c \notin Running(timers)
  <2>1. timers \in Queues /\ \A i \in DOMAIN timers.dq : TimerOK(i)
    BY DEF ConnectionInv, TypeOK, QueueOK
  <2> QED
    BY <2>1, RunningIs DEF TimerOK
<1> QED
  BY <1>1 DEF ConnectionInv, TypeOK, LifeOK

\* check_destroy leaves in order what it finds in order.
LEMMA DestroyKeeps ==
  ASSUME ConnectionInv, NEW c \in Conns, timers' \in Queues, QueueOK',
         NEW o \in Objects, NEW s \in Sockets, NEW p \in Peers, LifeOf(o, s, p),
         check_destroy(c, o, s, p)
  PROVE  /\ ConnectionInv'
         /\ {d \in Conns : sock[d].open}' =
              {d \in Conns \ {c} : sock[d].open} \cup (IF s.open /\ ~Idle(o) THEN {c} ELSE {})
<1>0. object \in [Conns -> Objects] /\ sock \in [Conns -> Sockets] /\ client \in [Conns -> Peers]
  BY PartsOf
<1>1. CASE Idle(o)
  <2> DEFINE t == [s EXCEPT !.open = FALSE]
  <2>1. /\ object' = [object EXCEPT ![c] = NoObject] /\ sock' = [sock EXCEPT ![c] = t]
        /\ client' = [client EXCEPT ![c] = NewClient]
    BY <1>1 DEF check_destroy
  <2>2. NoObject \in Objects /\ t \in Sockets /\ NewClient \in Peers
    BY DEF NoObject, NewClient, Objects, Sockets, Peers
  <2>3. ~t.open /\ t.read = s.read /\ t.write = s.write /\ t.out = s.out
    BY DEF Sockets
  <2> HIDE DEF t
  <2>4. LifeOf(NoObject, t, NewClient)
    BY <1>1, <2>3 DEF LifeOf, Idle, NoObject, NewClient
  <2>5. ConnectionInv'
    BY <2>1, <2>2, <2>4, OneConnection
  <2> QED
    BY <1>0, <1>1, <2>1, <2>2, <2>3, <2>5
<1>2. CASE ~Idle(o)
  <2>1. /\ object' = [object EXCEPT ![c] = o] /\ sock' = [sock EXCEPT ![c] = s]
        /\ client' = [client EXCEPT ![c] = p]
    BY <1>2 DEF check_destroy
  <2>2. ConnectionInv'
    BY <2>1, OneConnection
  <2> QED
    BY <1>0, <1>2, <2>1, <2>2
<1> QED
  BY <1>1, <1>2

-----------------------------------------------------------------------------
\* The shapes of the actions: c sets its deadline, ends it, or does neither.
LEMMA Arms ==
  ASSUME ConnectionInv, NEW c \in Conns, start_deadline(c),
         NEW o \in Objects, NEW s \in Sockets, NEW p \in Peers, LifeOf(o, s, p),
         object' = [object EXCEPT ![c] = o], sock' = [sock EXCEPT ![c] = s],
         client' = [client EXCEPT ![c] = p],
         o.key = keyOfNext(cancel(timers, object[c].key)), s.open, sock[c].open
  PROVE  ConnectionInv' /\ Abstract!Arm(c)
<1>1. object \in [Conns -> Objects] /\ sock \in [Conns -> Sockets]
  BY PartsOf
<1>2. Others(c) /\ object'[c].key = o.key /\ sock'[c].open
  BY <1>1 DEF Others
<1>3. QueueOK' /\ timers' \in Queues /\ Running(timers') = Running(timers) \cup {c}
  BY <1>2, QueueAfterStart
<1>4. ConnectionInv'
  BY <1>3, OneConnection
<1>5. \A d \in Conns : sock'[d].open <=> sock[d].open
  BY <1>1
<1> QED
  BY <1>3, <1>4, <1>5 DEF Abstract!Arm

LEMMA Disarms ==
  ASSUME ConnectionInv, NEW c \in Conns, cancel_deadline_timer(c),
         NEW o \in Objects, NEW s \in Sockets, NEW p \in Peers, LifeOf(o, s, p),
         object' = [object EXCEPT ![c] = o], sock' = [sock EXCEPT ![c] = s],
         client' = [client EXCEPT ![c] = p],
         o.key = NoKey, s.open = sock[c].open
  PROVE  ConnectionInv' /\ Abstract!Disarm(c)
<1>1. object \in [Conns -> Objects] /\ sock \in [Conns -> Sockets]
  BY PartsOf
<1>2. Others(c) /\ object'[c].key = NoKey
  BY <1>1 DEF Others
<1>3. QueueOK' /\ timers' \in Queues /\ Running(timers') = Running(timers) \ {c}
  BY <1>2, QueueAfterCancel DEF cancel_deadline_timer
<1>4. ConnectionInv'
  BY <1>3, OneConnection
<1>5. \A d \in Conns : sock'[d].open <=> sock[d].open
  BY <1>1
<1> QED
  BY <1>3, <1>4, <1>5 DEF Abstract!Disarm

LEMMA DisarmsAndDestroys ==
  ASSUME ConnectionInv, NEW c \in Conns, cancel_deadline_timer(c),
         NEW o \in Objects, NEW s \in Sockets, NEW p \in Peers, LifeOf(o, s, p),
         check_destroy(c, o, s, p), o.key = NoKey, s.open => sock[c].open
  PROVE  ConnectionInv' /\ Abstract!Disarm(c)
<1>1. object \in [Conns -> Objects] /\ sock \in [Conns -> Sockets]
  BY PartsOf
<1>2. object'[c].key = NoKey /\ Others(c)
  BY <1>1 DEF check_destroy, Others, NoObject
<1>3. QueueOK' /\ timers' \in Queues /\ Running(timers') = Running(timers) \ {c}
  BY <1>2, QueueAfterCancel DEF cancel_deadline_timer
<1>4. /\ ConnectionInv'
      /\ {d \in Conns : sock[d].open}' =
           {d \in Conns \ {c} : sock[d].open} \cup (IF s.open /\ ~Idle(o) THEN {c} ELSE {})
  BY <1>3, DestroyKeeps
<1> QED
  BY <1>3, <1>4 DEF Abstract!Disarm

LEMMA Stands ==
  ASSUME ConnectionInv, NEW c \in Conns, UNCHANGED timers,
         NEW o \in Objects, NEW s \in Sockets, NEW p \in Peers, LifeOf(o, s, p),
         object' = [object EXCEPT ![c] = o], sock' = [sock EXCEPT ![c] = s],
         client' = [client EXCEPT ![c] = p],
         o.key = object[c].key, s.open = sock[c].open
  PROVE  ConnectionInv' /\ UNCHANGED Abstract!deadlineVars
<1>1. object \in [Conns -> Objects] /\ sock \in [Conns -> Sockets]
  BY PartsOf
<1>2. \A d \in Conns : object'[d].key = object[d].key /\ sock'[d].open = sock[d].open
  BY <1>1
<1>3. QueueOK' /\ timers' \in Queues
  BY <1>2, QueueStays
<1>4. ConnectionInv'
  BY <1>3, OneConnection
<1> QED
  BY <1>2, <1>4 DEF Abstract!deadlineVars

-----------------------------------------------------------------------------
\* The actions keep the invariant, and are steps of Deadlines.
LEMMA SendKeeps ==
  ASSUME ConnectionInv, NEW c \in Conns, NEW k \in Kinds[c], Send(c, k)
  PROVE  ConnectionInv' /\ UNCHANGED Abstract!deadlineVars
<1> DEFINE p == [client[c] EXCEPT !.sent = k, !.awaits = k # "part"]
<1>1. /\ object \in [Conns -> Objects] /\ sock \in [Conns -> Sockets]
      /\ client \in [Conns -> Peers]
      /\ object[c] \in Objects /\ sock[c] \in Sockets /\ client[c] \in Peers
      /\ LifeOf(object[c], sock[c], client[c])
  BY PartsOf
<1>2. /\ object' = [object EXCEPT ![c] = object[c]] /\ sock' = [sock EXCEPT ![c] = sock[c]]
      /\ client' = [client EXCEPT ![c] = p]
  BY <1>1 DEF Send, Peers
<1>3. p \in Peers
  BY <1>1, KindsAssumption DEF Peers
<1>4. LifeOf(object[c], sock[c], p)
  <2>1. /\ p.sent = k /\ k # Nothing /\ client[c].peer = "there"
        /\ client[c].sent = Nothing /\ ~client[c].awaits
    BY <1>1, KindsAssumption, NothingAssumption DEF Send, Peers
  <2> HIDE DEF p
  <2> QED
    BY <1>1, <2>1 DEF LifeOf
<1>5. UNCHANGED timers
  BY DEF Send
<1> HIDE DEF p
<1> QED
  BY <1>1, <1>2, <1>3, <1>4, <1>5, Stands

LEMMA LeaveKeeps ==
  ASSUME ConnectionInv, NEW c \in Conns, Leave(c)
  PROVE  ConnectionInv' /\ UNCHANGED Abstract!deadlineVars
<1>1. /\ object \in [Conns -> Objects] /\ sock \in [Conns -> Sockets]
      /\ client \in [Conns -> Peers]
      /\ object[c] \in Objects /\ sock[c] \in Sockets /\ client[c] \in Peers
      /\ LifeOf(object[c], sock[c], client[c])
  BY PartsOf
<1>2. PICK e \in AllEnds : client' = [client EXCEPT ![c].peer = e]
  BY EndsAssumption DEF Leave
<1> DEFINE p == [client[c] EXCEPT !.peer = e]
<1>3. /\ object' = [object EXCEPT ![c] = object[c]] /\ sock' = [sock EXCEPT ![c] = sock[c]]
      /\ client' = [client EXCEPT ![c] = p]
  BY <1>1, <1>2 DEF Leave, Peers
<1>4. /\ p \in Peers /\ p.sent = client[c].sent /\ p.awaits = client[c].awaits
      /\ p.peer # "there" /\ client[c].peer = "there"
  BY <1>1 DEF Peers, Leave, AllEnds
<1> HIDE DEF p
<1>5. LifeOf(object[c], sock[c], p)
  BY <1>1, <1>4 DEF LifeOf
<1>6. UNCHANGED timers
  BY DEF Leave
<1> QED
  BY <1>1, <1>3, <1>4, <1>5, <1>6, Stands

LEMMA ReadAtOnceKeeps ==
  ASSUME ConnectionInv, NEW c \in Conns, ReadAtOnce(c)
  PROVE  ConnectionInv' /\ UNCHANGED Abstract!deadlineVars
<1> DEFINE s == [sock[c] EXCEPT !.read = IF WriteQueued(c) THEN "behind" ELSE "done"]
<1>1. /\ object \in [Conns -> Objects] /\ sock \in [Conns -> Sockets]
      /\ client \in [Conns -> Peers]
      /\ object[c] \in Objects /\ sock[c] \in Sockets /\ client[c] \in Peers
      /\ LifeOf(object[c], sock[c], client[c])
  BY PartsOf
<1>2. /\ object' = [object EXCEPT ![c] = object[c]] /\ sock' = [sock EXCEPT ![c] = s]
      /\ client' = [client EXCEPT ![c] = client[c]]
  BY <1>1 DEF ReadAtOnce, Sockets
<1>3. /\ s \in Sockets /\ s.open = sock[c].open
      /\ s.read = IF WriteQueued(c) THEN "behind" ELSE "done"
      /\ s.write = sock[c].write /\ s.out = sock[c].out
  BY <1>1 DEF Sockets
<1> HIDE DEF s
<1>4. LifeOf(object[c], s, client[c])
  BY <1>1, <1>3 DEF LifeOf, ReadAtOnce, WriteQueued
<1>5. UNCHANGED timers
  BY DEF ReadAtOnce
<1> QED
  BY <1>1, <1>2, <1>3, <1>4, <1>5, Stands

LEMMA AcceptKeeps ==
  ASSUME ConnectionInv, NEW c \in Conns, Accept(c)
  PROVE  ConnectionInv' /\ Abstract!Accepted(c)
<1> DEFINE s == [sock[c] EXCEPT !.open = TRUE]
<1>1. /\ object \in [Conns -> Objects] /\ sock \in [Conns -> Sockets]
      /\ client \in [Conns -> Peers]
      /\ object[c] \in Objects /\ sock[c] \in Sockets /\ client[c] \in Peers
      /\ LifeOf(object[c], sock[c], client[c])
  BY PartsOf
<1>2. /\ object' = [object EXCEPT ![c] = NewObject] /\ sock' = [sock EXCEPT ![c] = s]
      /\ client' = [client EXCEPT ![c] = NewClient]
  BY <1>1 DEF Accept, Sockets
<1>3. NewObject \in Objects /\ s \in Sockets /\ NewClient \in Peers
  BY <1>1 DEF NewObject, NoObject, NewClient, Objects, Sockets, Peers
<1>4. /\ s.read = sock[c].read /\ s.open /\ s.write = sock[c].write /\ s.out = sock[c].out
      /\ object[c].life = "none"
  BY <1>1 DEF Sockets, Accept
<1>5. /\ NewObject.life = "posted" /\ NewObject.key = NoKey /\ ~NewObject.is_reading
      /\ ~NewObject.is_writing /\ ~NewObject.close_connection /\ ~NewObject.completed
  BY DEF NewObject, NoObject
<1> HIDE DEF s
<1>6. LifeOf(NewObject, s, NewClient) /\ object[c].key = NoKey /\ ~sock[c].open
  BY <1>1, <1>4, <1>5 DEF LifeOf
<1>7. QueueOK' /\ timers' \in Queues
  <2>1. \A d \in Conns : /\ object'[d].key = object[d].key
                         /\ sock'[d].open = sock[d].open \/ object[d].key = NoKey
    BY <1>1, <1>2, <1>5, <1>6
  <2> QED
    BY <2>1, QueueStays DEF Accept
<1>8. ConnectionInv'
  BY <1>2, <1>3, <1>6, <1>7, OneConnection
<1>9. {d \in Conns : sock[d].open}' = {d \in Conns : sock[d].open} \cup {c}
  BY <1>1, <1>2, <1>4
<1> QED
  BY <1>6, <1>8, <1>9 DEF Abstract!Accepted, Accept

LEMMA StartKeeps ==
  ASSUME ConnectionInv, NEW c \in Conns, start(c)
  PROVE  ConnectionInv' /\ Abstract!Arm(c)
<1> DEFINE k == keyOfNext(cancel(timers, object[c].key))
           o == [object[c] EXCEPT !.life = "running", !.is_reading = TRUE, !.key = k]
           s == [sock[c] EXCEPT !.read = "waiting"]
<1>1. /\ object \in [Conns -> Objects] /\ sock \in [Conns -> Sockets]
      /\ client \in [Conns -> Peers]
      /\ object[c] \in Objects /\ sock[c] \in Sockets /\ client[c] \in Peers
      /\ LifeOf(object[c], sock[c], client[c]) /\ object[c].life = "posted"
  BY PartsOf DEF start
<1>2. object' = [object EXCEPT ![c] = o] /\ sock' = [sock EXCEPT ![c] = s]
  BY <1>1 DEF start, Deadlined, Objects, Sockets
<1>3. k \in Keys /\ k # NoKey
  BY NextKey, NullAssumption
<1>4. client' = [client EXCEPT ![c] = client[c]]
  BY <1>1 DEF start
<1> HIDE DEF k
<1>5. o \in Objects /\ s \in Sockets
  BY <1>1, <1>3 DEF Objects, Sockets
<1>6. /\ o.life = "running" /\ o.key = k /\ o.is_reading /\ s.read = "waiting"
      /\ o.close_connection = object[c].close_connection
      /\ o.is_writing = object[c].is_writing /\ o.completed = object[c].completed
      /\ s.open = sock[c].open /\ s.write = sock[c].write /\ s.out = sock[c].out
  BY <1>1 DEF Objects, Sockets
<1> HIDE DEF o, s
<1>7. LifeOf(o, s, client[c]) /\ s.open
  BY <1>1, <1>3, <1>6 DEF LifeOf
<1> QED
  BY <1>1, <1>2, <1>4, <1>5, <1>6, <1>7, Arms DEF start, k

\* Where the callback of a read finds its connection.
LEMMA Reading ==
  ASSUME ConnectionInv, NEW c \in Conns, CallsBack(c)
  PROVE  /\ object \in [Conns -> Objects] /\ sock \in [Conns -> Sockets]
         /\ client \in [Conns -> Peers]
         /\ object[c] \in Objects /\ sock[c] \in Sockets /\ client[c] \in Peers
         /\ LifeOf(object[c], sock[c], client[c])
         /\ object[c].life = "running" /\ object[c].is_reading
         /\ ~object[c].close_connection
         /\ sock[c].write = "sent" => client[c].sent = Nothing /\ client[c].peer = "left"
         /\ HasData(c) => sock[c].write = "none" /\ ~object[c].completed
<1>1. /\ object \in [Conns -> Objects] /\ sock \in [Conns -> Sockets]
      /\ client \in [Conns -> Peers]
      /\ object[c] \in Objects /\ sock[c] \in Sockets /\ client[c] \in Peers
      /\ LifeOf(object[c], sock[c], client[c])
  BY PartsOf
<1>2. sock[c].read # "none" /\ (sock[c].write = "sent" => sock[c].read = "done")
  BY DEF CallsBack, WriteQueued
<1>3. /\ object[c].life = "running" /\ object[c].is_reading /\ ~object[c].close_connection
      /\ sock[c].write = "sent" => client[c].sent = Nothing /\ client[c].peer = "left"
  BY <1>1, <1>2 DEF LifeOf, Objects
<1>4. HasData(c) => client[c].sent # Nothing
  BY DEF HasData
<1>5. HasData(c) => sock[c].write = "none"
  <2>1. sock[c].write \in {"none", "waiting", "piece", "sent"}
    BY <1>1 DEF Sockets, Outcomes
  <2> QED
    BY <1>1, <1>3, <1>4, <2>1 DEF LifeOf
<1> QED
  BY <1>1, <1>3, <1>5 DEF LifeOf

\* The object after its deadline was cancelled, and its client without what was read.
LEMMA AfterReading ==
  ASSUME NEW c \in Conns, object[c] \in Objects, client[c] \in Peers
  PROVE  /\ Undeadlined(object[c]) \in Objects
         /\ \A o : o = Undeadlined(object[c]) =>
              /\ o.key = NoKey /\ o.life = object[c].life
              /\ o.is_reading = object[c].is_reading /\ o.is_writing = object[c].is_writing
              /\ o.close_connection = object[c].close_connection
              /\ o.completed = object[c].completed
         /\ Taken(c) \in Peers
         /\ Taken(c).sent = Nothing /\ Taken(c).awaits = client[c].awaits
BY DEF Undeadlined, Taken, Objects, Peers

LEMMA ReadErrorKeeps ==
  ASSUME ConnectionInv, NEW c \in Conns, readError(c)
  PROVE  ConnectionInv' /\ Abstract!Disarm(c)
<1> DEFINE u == Undeadlined(object[c])
           o == [u EXCEPT !.is_reading = FALSE]
           s == [sock[c] EXCEPT !.open = FALSE, !.read = "none"]
           p == Taken(c)
<1>1. CallsBack(c)
  BY DEF readError, HasError, HasData
<1>2. /\ object[c] \in Objects /\ sock[c] \in Sockets /\ client[c] \in Peers
      /\ LifeOf(object[c], sock[c], client[c]) /\ object[c].life = "running"
  BY <1>1, Reading
<1>3. /\ u \in Objects /\ u.key = NoKey /\ u.life = object[c].life
      /\ u.is_writing = object[c].is_writing /\ u.completed = object[c].completed
      /\ p \in Peers /\ p.sent = Nothing /\ p.awaits = client[c].awaits
  BY <1>2, AfterReading
<1>4. cancel_deadline_timer(c) /\ check_destroy(c, o, s, p)
  BY DEF readError
<1> HIDE DEF u, p
<1>5. /\ o \in Objects /\ o.key = NoKey /\ o.life = "running"
      /\ o.is_writing = object[c].is_writing /\ o.completed = object[c].completed
  BY <1>2, <1>3 DEF Objects
<1>6. /\ s \in Sockets /\ ~s.open /\ s.read = "none" /\ s.write = sock[c].write
      /\ s.out = sock[c].out
  BY <1>2 DEF Sockets
<1> HIDE DEF o, s
<1>7. LifeOf(o, s, p)
  BY <1>2, <1>3, <1>5, <1>6 DEF LifeOf
<1> QED
  BY <1>3, <1>4, <1>5, <1>6, <1>7, DisarmsAndDestroys

LEMMA ReadPartKeeps ==
  ASSUME ConnectionInv, NEW c \in Conns, readPart(c)
  PROVE  ConnectionInv' /\ Abstract!Arm(c)
<1> DEFINE k == keyOfNext(cancel(timers, object[c].key))
           o == [object[c] EXCEPT !.key = k]
           s == [sock[c] EXCEPT !.read = "waiting"]
           p == Taken(c)
<1>1. HasData(c) /\ CallsBack(c) /\ sock[c].open
  BY DEF readPart, HasData
<1>2. /\ object \in [Conns -> Objects] /\ sock \in [Conns -> Sockets]
      /\ object[c] \in Objects /\ sock[c] \in Sockets /\ client[c] \in Peers
      /\ LifeOf(object[c], sock[c], client[c]) /\ object[c].life = "running"
      /\ object[c].is_reading /\ ~object[c].close_connection
      /\ sock[c].write = "none" /\ ~object[c].completed
  BY <1>1, Reading
<1>3. k \in Keys /\ k # NoKey
  BY NextKey, NullAssumption
<1>4. p \in Peers
  BY <1>2, AfterReading
<1>5. /\ start_deadline(c) /\ object' = [object EXCEPT ![c] = o]
      /\ sock' = [sock EXCEPT ![c] = s] /\ client' = [client EXCEPT ![c] = p]
  BY <1>2 DEF readPart, Deadlined, Sockets
<1> HIDE DEF k, p
<1>6. /\ o \in Objects /\ o.key = k /\ o.life = "running" /\ o.is_reading
      /\ ~o.close_connection /\ ~o.completed
  BY <1>2, <1>3 DEF Objects
<1>7. /\ s \in Sockets /\ s.open /\ s.read = "waiting" /\ s.write = "none"
      /\ s.out = sock[c].out
  BY <1>1, <1>2 DEF Sockets
<1> HIDE DEF o, s
<1>8. LifeOf(o, s, p)
  BY <1>2, <1>3, <1>6, <1>7 DEF LifeOf
<1>9. o.key = keyOfNext(cancel(timers, object[c].key))
  BY <1>6 DEF k
<1> QED
  BY <1>1, <1>4, <1>5, <1>6, <1>7, <1>8, <1>9, Arms

LEMMA ReadDroppedKeeps ==
  ASSUME ConnectionInv, NEW c \in Conns, readDropped(c)
  PROVE  ConnectionInv' /\ Abstract!Disarm(c)
<1> DEFINE u == Undeadlined(object[c])
           o == [u EXCEPT !.is_reading = FALSE, !.close_connection = TRUE]
           s == [sock[c] EXCEPT !.read = "none"]
           p == Taken(c)
<1>1. HasData(c) /\ CallsBack(c) /\ sock[c].open
  BY DEF readDropped, HasData
<1>2. /\ object[c] \in Objects /\ sock[c] \in Sockets /\ client[c] \in Peers
      /\ LifeOf(object[c], sock[c], client[c]) /\ object[c].life = "running"
      /\ sock[c].write = "none" /\ ~object[c].completed
  BY <1>1, Reading
<1>3. /\ u \in Objects /\ u.key = NoKey /\ u.life = object[c].life
      /\ u.is_writing = object[c].is_writing /\ u.completed = object[c].completed
      /\ p \in Peers /\ p.sent = Nothing /\ p.awaits = client[c].awaits
  BY <1>2, AfterReading
<1>4. cancel_deadline_timer(c) /\ check_destroy(c, o, s, p)
  BY DEF readDropped
<1> HIDE DEF u, p
<1>5. /\ o \in Objects /\ o.key = NoKey /\ o.life = "running" /\ o.close_connection
      /\ ~o.completed
  BY <1>2, <1>3 DEF Objects
<1>6. /\ s \in Sockets /\ s.open = sock[c].open /\ s.read = "none" /\ s.write = "none"
      /\ s.out = sock[c].out
  BY <1>2 DEF Sockets
<1> HIDE DEF o, s
<1>7. LifeOf(o, s, p)
  BY <1>2, <1>3, <1>5, <1>6 DEF LifeOf
<1> QED
  BY <1>3, <1>4, <1>5, <1>6, <1>7, DisarmsAndDestroys

LEMMA HandleThrowsKeeps ==
  ASSUME ConnectionInv, NEW c \in Conns, handleThrows(c)
  PROVE  ConnectionInv' /\ Abstract!Disarm(c)
<1> DEFINE u == Undeadlined(object[c])
           o == [u EXCEPT !.close_connection = object[c].close_connection \/ Kind(c) \in Closing]
           s == [sock[c] EXCEPT !.read = "none"]
           p == Taken(c)
<1>1. HasData(c) /\ CallsBack(c)
  BY DEF handleThrows, Answerable, HasData
<1>2. /\ object \in [Conns -> Objects] /\ sock \in [Conns -> Sockets]
      /\ object[c] \in Objects /\ sock[c] \in Sockets /\ client[c] \in Peers
      /\ LifeOf(object[c], sock[c], client[c]) /\ object[c].life = "running"
      /\ sock[c].write = "none" /\ ~object[c].completed
  BY <1>1, Reading
<1>3. /\ u \in Objects /\ u.key = NoKey /\ u.life = object[c].life
      /\ u.completed = object[c].completed /\ p \in Peers
  BY <1>2, AfterReading
<1>4. /\ cancel_deadline_timer(c) /\ sock' = [sock EXCEPT ![c] = s]
      /\ client' = [client EXCEPT ![c] = p] /\ object' = [object EXCEPT ![c] = o]
  BY <1>2 DEF handleThrows, Sockets
<1> HIDE DEF u, p
<1>5. o \in Objects /\ o.key = NoKey /\ o.life = "running" /\ ~o.completed
  BY <1>2, <1>3 DEF Objects
<1>6. /\ s \in Sockets /\ s.open = sock[c].open /\ s.read = "none" /\ s.write = "none"
      /\ s.out = sock[c].out
  BY <1>2 DEF Sockets
<1> HIDE DEF o, s
<1>7. LifeOf(o, s, p)
  BY <1>2, <1>5, <1>6 DEF LifeOf
<1> QED
  BY <1>3, <1>4, <1>5, <1>6, <1>7, Disarms

LEMMA HandleForeignKeeps ==
  ASSUME ConnectionInv, NEW c \in Conns, handleForeign(c)
  PROVE  ConnectionInv' /\ Abstract!Disarm(c)
<1> DEFINE u == Undeadlined(object[c])
           o == [u EXCEPT !.later = TRUE]
           s == [sock[c] EXCEPT !.read = "none"]
           p == Taken(c)
<1>1. HasData(c) /\ CallsBack(c)
  BY DEF handleForeign, Answerable, HasData
<1>2. /\ object \in [Conns -> Objects] /\ sock \in [Conns -> Sockets]
      /\ object[c] \in Objects /\ sock[c] \in Sockets /\ client[c] \in Peers
      /\ LifeOf(object[c], sock[c], client[c]) /\ object[c].life = "running"
      /\ sock[c].write = "none" /\ ~object[c].completed
  BY <1>1, Reading
<1>3. /\ u \in Objects /\ u.key = NoKey /\ u.life = object[c].life
      /\ u.completed = object[c].completed /\ p \in Peers
  BY <1>2, AfterReading
<1>4. /\ cancel_deadline_timer(c) /\ sock' = [sock EXCEPT ![c] = s]
      /\ client' = [client EXCEPT ![c] = p] /\ object' = [object EXCEPT ![c] = o]
  BY <1>2 DEF handleForeign, Sockets
<1> HIDE DEF u, p
<1>5. o \in Objects /\ o.key = NoKey /\ o.life = "running" /\ ~o.completed
  BY <1>2, <1>3 DEF Objects
<1>6. /\ s \in Sockets /\ s.open = sock[c].open /\ s.read = "none" /\ s.write = "none"
      /\ s.out = sock[c].out
  BY <1>2 DEF Sockets
<1> HIDE DEF o, s
<1>7. LifeOf(o, s, p)
  BY <1>2, <1>5, <1>6 DEF LifeOf
<1> QED
  BY <1>3, <1>4, <1>5, <1>6, <1>7, Disarms

LEMMA HandleKeeps ==
  ASSUME ConnectionInv, NEW c \in Conns, handle(c)
  PROVE  ConnectionInv' /\ (Abstract!Disarm(c) \/ Abstract!Arm(c))
<1>1. HasData(c) /\ CallsBack(c) /\ sock[c].open
  BY DEF handle, Answerable, RemoteKnown, HasData
<1>2. /\ object \in [Conns -> Objects] /\ sock \in [Conns -> Sockets]
      /\ client \in [Conns -> Peers]
      /\ object[c] \in Objects /\ sock[c] \in Sockets /\ client[c] \in Peers
      /\ LifeOf(object[c], sock[c], client[c]) /\ object[c].life = "running"
      /\ sock[c].write = "none" /\ ~object[c].completed
  BY <1>1, Reading
<1>3. ~Stale(c)
  BY <1>2 DEF Stale
<1> DEFINE closes == Kind(c) \in Closing
           k == IF closes THEN NoKey ELSE keyOfNext(cancel(timers, object[c].key))
           o == [object[c] EXCEPT !.is_writing = TRUE, !.is_reading = ~closes,
                   !.close_connection = closes, !.completed = Kind(c) \notin NoHost, !.key = k]
<1>4. PICK outcome \in Outcomes :
        /\ IF closes THEN cancel_deadline_timer(c) ELSE start_deadline(c)
        /\ object' = [object EXCEPT ![c] = o]
        /\ sock' = [sock EXCEPT ![c] = [do_write(c, sock[c], outcome) EXCEPT
                       !.read = IF closes THEN "none" ELSE "waiting"]]
        /\ client' = [client EXCEPT ![c].sent = Nothing, ![c].awaits = outcome # "sent"]
  BY <1>2 DEF handle, Deadlined, Undeadlined, Objects
<1> DEFINE s == [sock[c] EXCEPT !.write = outcome, !.out = "made", !.read = IF closes THEN "none" ELSE "waiting"]
           p == [client[c] EXCEPT !.sent = Nothing, !.awaits = outcome # "sent"]
<1>5. sock' = [sock EXCEPT ![c] = s] /\ client' = [client EXCEPT ![c] = p]
  BY <1>2, <1>3, <1>4 DEF do_write, Sockets, Peers
<1>6. k \in Keys \cup {NoKey} /\ (closes <=> k = NoKey)
  BY NextKey, NullAssumption
<1>7. closes \in BOOLEAN /\ (Kind(c) \notin NoHost) \in BOOLEAN
  OBVIOUS
<1> HIDE DEF k, closes
<1>8. /\ o \in Objects /\ o.key = k /\ o.life = "running" /\ o.is_writing
      /\ o.is_reading = ~closes /\ o.close_connection = closes
  BY <1>2, <1>6, <1>7 DEF Objects
<1>9. /\ s \in Sockets /\ s.open = sock[c].open /\ s.out = "made" /\ s.write # "none"
      /\ s.read = IF closes THEN "none" ELSE "waiting"
      /\ s.write = outcome
  BY <1>2 DEF Sockets, Outcomes
<1>10. p \in Peers /\ p.sent = Nothing /\ p.awaits = (outcome # "sent")
  BY <1>2 DEF Peers
<1> HIDE DEF o, s, p
<1>11. LifeOf(o, s, p)
  BY <1>2, <1>6, <1>8, <1>9, <1>10 DEF LifeOf
<1>12. object' = [object EXCEPT ![c] = o]
  BY <1>4
<1>13. CASE closes
  <2>1. cancel_deadline_timer(c) /\ o.key = NoKey
    BY <1>4, <1>6, <1>8, <1>13
  <2> QED
    BY <1>5, <1>8, <1>9, <1>10, <1>11, <1>12, <2>1, Disarms
<1>14. CASE ~closes
  <2>1. start_deadline(c) /\ o.key = keyOfNext(cancel(timers, object[c].key))
    BY <1>4, <1>8, <1>14 DEF k
  <2> QED
    BY <1>1, <1>5, <1>8, <1>9, <1>10, <1>11, <1>12, <2>1, Arms
<1> QED
  BY <1>13, <1>14

\* Where the callback of a write leaves its connection.
LEMMA AfterWriteKeeps ==
  ASSUME ConnectionInv, NEW c \in Conns, NEW s \in Sockets, NEW p \in Peers,
         afterWrite(c, s, p), sock[c].write # "none",
         s.read = Unqueued(sock[c]).read, s.write = "none", s.out = Nothing,
         p.sent = client[c].sent, p.peer = client[c].peer,
         s.open = sock[c].open \/ (~s.open /\ object[c].close_connection)
  PROVE  ConnectionInv' /\ (Abstract!Disarm(c) \/ UNCHANGED Abstract!deadlineVars)
<1> DEFINE o == written(object[c])
<1>1. /\ object \in [Conns -> Objects] /\ sock \in [Conns -> Sockets]
      /\ object[c] \in Objects /\ sock[c] \in Sockets
      /\ LifeOf(object[c], sock[c], client[c])
      /\ object[c].key = NoKey => c \notin Running(timers)
  BY PartsOf
<1>2. /\ o \in Objects /\ o.key = object[c].key /\ o.life = object[c].life
      /\ o.is_reading = object[c].is_reading /\ ~o.is_writing /\ ~o.completed
      /\ o.close_connection = object[c].close_connection
  BY <1>1 DEF written, Objects
<1>3. /\ check_destroy(c, o, s, p)
      /\ timers' = IF Idle(o) THEN cancel(timers, object[c].key) ELSE timers
  BY DEF afterWrite
<1>0. /\ s.read # "none" <=> sock[c].read # "none"
      /\ s.read # "behind" /\ (s.read = "done" => sock[c].read \in {"behind", "done"})
  BY <1>1 DEF Unqueued, Sockets
<1> HIDE DEF o
<1>4. /\ LifeOf(o, s, p)
      /\ Idle(o) => object[c].key = NoKey
      /\ object[c].close_connection => object[c].key = NoKey
  BY <1>0, <1>1, <1>2, NothingAssumption DEF LifeOf, Idle
<1>5. UNCHANGED timers
  BY <1>3, <1>4 DEF cancel
<1>6. \A d \in Conns : /\ object'[d].key = object[d].key
                       /\ sock'[d].open = sock[d].open \/ object[d].key = NoKey
  <2>1. CASE Idle(o)
    BY <1>1, <1>3, <1>4, <2>1 DEF check_destroy, NoObject
  <2>2. CASE ~Idle(o)
    BY <1>1, <1>2, <1>3, <1>4, <2>2 DEF check_destroy
  <2> QED
    BY <2>1, <2>2
<1>7. QueueOK' /\ timers' \in Queues
  BY <1>5, <1>6, QueueStays
<1>8. /\ ConnectionInv'
      /\ {d \in Conns : sock[d].open}' =
           {d \in Conns \ {c} : sock[d].open} \cup (IF s.open /\ ~Idle(o) THEN {c} ELSE {})
  BY <1>2, <1>3, <1>4, <1>7, DestroyKeeps
<1>9. CASE object[c].key = NoKey
  <2>1. Running(timers') = Running(timers) \ {c}
    BY <1>1, <1>5, <1>9
  <2>2. s.open => sock[c].open
    OBVIOUS
  <2> QED
    BY <1>8, <2>1, <2>2 DEF Abstract!Disarm
<1>10. CASE object[c].key # NoKey
  <2>1. s.open = sock[c].open /\ ~Idle(o)
    BY <1>4, <1>10
  <2>2. {d \in Conns : sock[d].open}' = {d \in Conns : sock[d].open}
    BY <1>8, <2>1
  <2> QED
    BY <1>5, <1>8, <2>2 DEF Abstract!deadlineVars
<1> QED
  BY <1>9, <1>10

\* A piece has gone out, and the next is asked for.
LEMMA WritePieceKeeps ==
  ASSUME ConnectionInv, NEW c \in Conns, writePiece(c)
  PROVE  ConnectionInv' /\ UNCHANGED Abstract!deadlineVars
<1>1. /\ object \in [Conns -> Objects] /\ sock \in [Conns -> Sockets]
      /\ client \in [Conns -> Peers]
      /\ object[c] \in Objects /\ sock[c] \in Sockets /\ client[c] \in Peers
      /\ LifeOf(object[c], sock[c], client[c])
  BY PartsOf
<1>2. PICK outcome \in Outcomes :
        /\ outcome # "waiting" => RemoteKnown(c)
        /\ sock' = [sock EXCEPT ![c] = [Unqueued(@) EXCEPT !.write = outcome]]
        /\ client' = [client EXCEPT ![c].awaits = outcome # "sent"]
  BY DEF writePiece, Outcomes
<1> DEFINE s == [Unqueued(sock[c]) EXCEPT !.write = outcome]
           p == [client[c] EXCEPT !.awaits = outcome # "sent"]
<1>3. /\ object' = [object EXCEPT ![c] = object[c]] /\ sock' = [sock EXCEPT ![c] = s]
      /\ client' = [client EXCEPT ![c] = p] /\ UNCHANGED timers
  BY <1>1, <1>2 DEF writePiece, Peers
<1>4. /\ s \in Sockets /\ s.open = sock[c].open /\ s.write = outcome
      /\ s.out = sock[c].out
      /\ s.read = IF sock[c].read = "behind" THEN "done" ELSE sock[c].read
  BY <1>1, <1>2 DEF Unqueued, Sockets, Outcomes
<1>5. /\ p \in Peers /\ p.sent = client[c].sent /\ p.peer = client[c].peer
      /\ p.awaits = (outcome # "sent")
  BY <1>1 DEF Peers
<1> HIDE DEF s, p
<1>6. sock[c].write \in {"waiting", "piece"} /\ client[c].sent = Nothing
  BY <1>1 DEF writePiece, WriteCallsBack, LifeOf
<1>7. s.read = "done" /\ outcome = "sent" => client[c].peer = "left"
  <2>1. client[c].peer \in {"there", "left", "reset"}
    BY <1>1 DEF Peers, AllEnds
  <2> QED
    BY <1>1, <1>2, <1>4, <1>6, <2>1 DEF LifeOf, RemoteKnown
<1>8. LifeOf(object[c], s, p)
  BY <1>1, <1>4, <1>5, <1>6, <1>7 DEF LifeOf, Outcomes
<1> QED
  BY <1>1, <1>3, <1>4, <1>5, <1>8, Stands

LEMMA WriteDoneKeeps ==
  ASSUME ConnectionInv, NEW c \in Conns, writeDone(c)
  PROVE  ConnectionInv' /\ (Abstract!Disarm(c) \/ UNCHANGED Abstract!deadlineVars)
<1> DEFINE s == Unwritten(sock[c])
           cl == [client[c] EXCEPT !.awaits = FALSE]
<1>1. /\ object \in [Conns -> Objects] /\ sock \in [Conns -> Sockets]
      /\ client \in [Conns -> Peers]
      /\ object[c] \in Objects /\ sock[c] \in Sockets /\ client[c] \in Peers
      /\ LifeOf(object[c], sock[c], client[c])
  BY PartsOf
<1>2. sock[c].write # "none"
  BY DEF writeDone, WriteCallsBack
<1>3. /\ s \in Sockets /\ s.open = sock[c].open /\ s.read = Unqueued(sock[c]).read
      /\ s.write = "none" /\ s.out = Nothing
      /\ cl \in Peers /\ cl.sent = client[c].sent /\ cl.peer = client[c].peer
      /\ s.read # "none" <=> sock[c].read # "none"
      /\ s.read # "behind" /\ (s.read = "done" => sock[c].read \in {"behind", "done"})
  BY <1>1 DEF Unwritten, Unqueued, Sockets, Peers
<1>4. CASE object[c].close_connection
  <2> DEFINE t == [s EXCEPT !.open = FALSE]
  <2>1. afterWrite(c, t, cl)
    BY <1>4 DEF writeDone
  <2> HIDE DEF s, cl
  <2>2. t \in Sockets /\ ~t.open /\ t.read = s.read /\ t.write = s.write /\ t.out = s.out
    BY <1>3 DEF Sockets
  <2> HIDE DEF t
  <2> QED
    BY <1>2, <1>3, <1>4, <2>1, <2>2, AfterWriteKeeps
<1>5. CASE ~object[c].close_connection
  <2> DEFINE o == written(object[c])
             p == IF sock[c].write = "sent" THEN client[c] ELSE cl
  <2>1. /\ object' = [object EXCEPT ![c] = o] /\ sock' = [sock EXCEPT ![c] = s]
        /\ client' = [client EXCEPT ![c] = p]
    BY <1>5 DEF writeDone
  <2>2. UNCHANGED timers
    BY <1>5 DEF writeDone
  <2>3. p \in Peers /\ p.sent = client[c].sent /\ p.peer = client[c].peer
    BY <1>1, <1>3
  <2>4. /\ o \in Objects /\ o.key = object[c].key /\ o.life = object[c].life
        /\ o.is_reading = object[c].is_reading /\ ~o.completed
        /\ o.close_connection = object[c].close_connection
    BY <1>1 DEF written, Objects
  <2> HIDE DEF s, cl, o, p
  <2>5. LifeOf(o, s, p)
    BY <1>1, <1>2, <1>3, <2>3, <2>4, NothingAssumption DEF LifeOf
  <2> QED
    BY <1>3, <2>1, <2>2, <2>3, <2>4, <2>5, Stands
<1> QED
  BY <1>4, <1>5

LEMMA WriteErrorKeeps ==
  ASSUME ConnectionInv, NEW c \in Conns, writeError(c)
  PROVE  ConnectionInv' /\ (Abstract!Disarm(c) \/ UNCHANGED Abstract!deadlineVars)
<1> DEFINE s == Unwritten(sock[c])
<1>1. sock[c] \in Sockets /\ client[c] \in Peers
  BY PartsOf
<1>2. sock[c].write # "none" /\ afterWrite(c, s, client[c])
  BY DEF writeError
<1>3. /\ s \in Sockets /\ s.open = sock[c].open /\ s.read = Unqueued(sock[c]).read
      /\ s.write = "none" /\ s.out = Nothing
  BY <1>1 DEF Unwritten, Unqueued, Sockets
<1> HIDE DEF s
<1> QED
  BY <1>1, <1>2, <1>3, AfterWriteKeeps

\* The deadlines of a tick close sockets, and nothing else.
LEMMA TickKeeps ==
  ASSUME ConnectionInv, tick
  PROVE  ConnectionInv' /\ \E S \in SUBSET Conns : Abstract!Expire(S)
<1>1. /\ object \in [Conns -> Objects] /\ sock \in [Conns -> Sockets]
      /\ client \in [Conns -> Peers] /\ timers \in Queues
  BY DEF ConnectionInv, TypeOK
<1>2. PICK n \in 1 .. Len(timers.dq) :
        /\ timers' = process(timers, n)
        /\ sock' = [c \in Conns |-> IF c \in Expired(timers, n)
                                      THEN [sock[c] EXCEPT !.open = FALSE] ELSE sock[c]]
  BY DEF tick
<1>3. Settled /\ UNCHANGED <<object, client>>
  BY DEF tick
<1> DEFINE S == Expired(timers, n)
<1>4. /\ QueueOK' /\ timers' \in Queues /\ S \subseteq Running(timers)
      /\ Running(timers') = Running(timers) \ S
  BY <1>2, <1>3, QueueAfterTick
<1>5. S \subseteq Conns
  BY <1>1, <1>4, RunningIs
<1> HIDE DEF S
<1>6. ASSUME NEW c \in Conns
      PROVE  /\ sock'[c] \in Sockets /\ sock'[c].read = sock[c].read
             /\ sock'[c].write = sock[c].write /\ sock'[c].out = sock[c].out
             /\ sock'[c].open <=> sock[c].open /\ c \notin S
  <2>1. sock[c] \in Sockets
    BY <1>1
  <2>2. CASE c \in S
    <3>1. sock'[c] = [sock[c] EXCEPT !.open = FALSE]
      BY <1>2, <2>2 DEF S
    <3> QED
      BY <2>1, <2>2, <3>1 DEF Sockets
  <2>3. CASE c \notin S
    BY <1>2, <2>1, <2>3 DEF S
  <2> QED
    BY <2>2, <2>3
<1>7. TypeOK'
  <2>1. DOMAIN sock' = Conns /\ sock' = [c \in Conns |-> sock'[c]]
    BY <1>2
  <2>2. sock' \in [Conns -> Sockets]
    BY <1>6, <2>1
  <2> QED
    BY <1>1, <1>3, <1>4, <2>2 DEF TypeOK
<1>8. ASSUME NEW c \in Conns
      PROVE  LifeOK(c)'
  <2>1. /\ LifeOf(object[c], sock[c], client[c])
        /\ object[c].key = NoKey => c \notin S
    BY <1>4, PartsOf
  <2>2. object'[c] = object[c] /\ client'[c] = client[c]
    BY <1>3
  <2>3. sock[c] \in Sockets /\ sock'[c] \in Sockets
    BY <1>1, <1>6
  <2>4. LifeOf(object[c], sock'[c], client[c])
    BY <1>6, <2>1, <2>3 DEF LifeOf, Sockets
  <2> QED
    BY <2>2, <2>4 DEF LifeOK
<1>9. {d \in Conns : sock[d].open}' = {d \in Conns : sock[d].open} \ S
  BY <1>6
<1>10. ConnectionInv'
  BY <1>4, <1>7, <1>8 DEF ConnectionInv
<1>11. PICK T \in SUBSET Conns : T = S
  BY <1>5
<1>12. Abstract!Expire(T)
  BY <1>4, <1>9, <1>11 DEF Abstract!Expire
<1> QED
  BY <1>10, <1>12

\* No connection, no timer.
LEMMA InitHolds ==
  ASSUME Init
  PROVE  ConnectionInv /\ Abstract!DeadlinesInit
<1>1. /\ timers = NewQueue /\ object = [c \in Conns |-> NoObject]
      /\ sock = [c \in Conns |-> NoSocket] /\ client = [c \in Conns |-> NewClient]
  BY DEF Init
<1>2. NoObject \in Objects /\ NoSocket \in Sockets /\ NewClient \in Peers
  BY DEF NoObject, NoSocket, NewClient, Objects, Sockets, Peers
<1>3. timers \in Queues /\ timers.dq = <<>>
  <2>1. 0 \in Keys /\ <<>> \in Seq(Conns \cup {NoTimer})
    BY KeyRangeAssumption DEF Keys
  <2> QED
    BY <1>1, <2>1 DEF NewQueue, Queues
<1>4. TypeOK
  BY <1>1, <1>2, <1>3 DEF TypeOK
<1>5. LifeOf(NoObject, NoSocket, NewClient)
  BY NothingAssumption DEF LifeOf, NoObject, NoSocket, NewClient
<1>6. \A c \in Conns : LifeOK(c)
  BY <1>1, <1>5 DEF LifeOK
<1>7. DOMAIN timers.dq = {} /\ Len(timers.dq) = 0
  BY <1>3
<1>8. \A c \in Conns : object[c].key = NoKey /\ ~sock[c].open
  BY <1>1 DEF NoObject, NoSocket
<1>9. QueueOK
  BY <1>7, <1>8, MaxTimersAssumption DEF QueueOK, KeyOK
<1>10. Running(timers) = {}
  BY <1>7 DEF Running
<1> QED
  BY <1>4, <1>6, <1>8, <1>9, <1>10 DEF ConnectionInv, Abstract!DeadlinesInit

\* Every step keeps the invariant, and is a step of Deadlines or none.
LEMMA NextHolds ==
  ASSUME ConnectionInv, [Next]_vars
  PROVE  ConnectionInv' /\ [Abstract!DeadlinesNext]_Abstract!deadlineVars
<1>1. ASSUME tick
      PROVE  ConnectionInv' /\ Abstract!DeadlinesNext
  BY <1>1, TickKeeps DEF Abstract!DeadlinesNext
<1>2. ASSUME NEW c \in Conns, Abstract!Arm(c) \/ Abstract!Disarm(c) \/ Abstract!Accepted(c)
      PROVE  Abstract!DeadlinesNext
  BY <1>2 DEF Abstract!DeadlinesNext
<1>3. ASSUME NEW c \in Conns, ReadCallback(c)
      PROVE  ConnectionInv' /\ (Abstract!Arm(c) \/ Abstract!Disarm(c))
  BY <1>3, ReadErrorKeeps, ReadPartKeeps, ReadDroppedKeeps, HandleThrowsKeeps,
     HandleForeignKeeps, HandleKeeps DEF ReadCallback
<1>4. ASSUME NEW c \in Conns, Accept(c) \/ start(c)
      PROVE  ConnectionInv' /\ (Abstract!Arm(c) \/ Abstract!Accepted(c))
  BY <1>4, AcceptKeeps, StartKeeps
<1>5. ASSUME NEW c \in Conns, writeDone(c) \/ writeError(c)
      PROVE  ConnectionInv' /\ (Abstract!Disarm(c) \/ UNCHANGED Abstract!deadlineVars)
  BY <1>5, WriteDoneKeeps, WriteErrorKeeps
<1>6. ASSUME NEW c \in Conns,
             \/ writePiece(c) \/ ReadAtOnce(c) \/ Leave(c)
             \/ \E k \in Kinds[c] : Send(c, k)
      PROVE  ConnectionInv' /\ UNCHANGED Abstract!deadlineVars
  BY <1>6, WritePieceKeeps, ReadAtOnceKeeps, LeaveKeeps, SendKeeps
<1>7. ASSUME UNCHANGED vars
      PROVE  ConnectionInv' /\ UNCHANGED Abstract!deadlineVars
  BY <1>7 DEF vars, ConnectionInv, TypeOK, LifeOK, QueueOK, KeyOK, TimerOK, Place,
              Abstract!deadlineVars
<1> QED
  BY <1>1, <1>2, <1>3, <1>4, <1>5, <1>6, <1>7 DEF Next

-----------------------------------------------------------------------------
\* The invariant holds in every state the thread can reach.
THEOREM ConnectionsInOrder == Spec => []ConnectionInv
<1>1. Init => ConnectionInv
  BY InitHolds
<1>2. ConnectionInv /\ [Next]_vars => ConnectionInv'
  BY NextHolds
<1> QED
  BY <1>1, <1>2, PTL DEF Spec

\* The queue, the flags of the objects and what asio has in hand for them keep
\* their types (the members of Connection, dumb_timer_queue).
THEOREM ConnectionsAreTyped == Spec => []TypeOK
<1>1. ConnectionInv => TypeOK
  BY DEF ConnectionInv
<1> QED
  BY <1>1, ConnectionsInOrder, PTL

\* check_destroy() deletes an object only when no read, no write and no
\* deadline will call it back.
THEOREM ObjectsOutliveCallbacks == Spec => []DeletedWhenIdle
<1>1. ASSUME ConnectionInv PROVE DeletedWhenIdle
  BY <1>1, PartsOf DEF LifeOf, DeletedWhenIdle
<1> QED
  BY <1>1, ConnectionsInOrder, PTL

\* A deadline runs whenever the thread waits for a client and would go on with
\* the connection (start_deadline()).
THEOREM WaitsAreWatched == Spec => []DeadlineWatches
<1>1. ASSUME ConnectionInv PROVE DeadlineWatches
  <2> SUFFICES ASSUME NEW c \in Conns, sock[c].open,
                      \/ sock[c].read # "none"
                      \/ sock[c].write = "waiting" /\ ~object[c].close_connection
               PROVE  c \in Running(timers)
    BY DEF DeadlineWatches
  <2>1. LifeOf(object[c], sock[c], client[c]) /\ object[c].key # NoKey
    BY <1>1, PartsOf DEF LifeOf
  <2>2. Place(c) < Len(timers.dq) /\ timers.dq[Place(c) + 1] = c
    BY <1>1, <2>1 DEF ConnectionInv, QueueOK, KeyOK
  <2>3. timers \in Queues /\ object[c].key \in Keys
    BY <1>1, <2>1, QueueTypes
  <2>4. Place(c) \in Keys
    BY <2>3, IndexIsKey DEF Place
  <2>5. Place(c) + 1 \in DOMAIN timers.dq
    BY <1>1, <2>2, <2>4, QueueTypes DEF Keys
  <2> QED
    BY <2>2, <2>3, <2>5, RunningIs
<1> QED
  BY <1>1, ConnectionsInOrder, PTL

\* What do_write() sends was made for the request it answers: res is cleared
\* before the next request is handled.
THEOREM AnswersAreNotStale == Spec => []AnswersAreMade
<1>1. ASSUME ConnectionInv PROVE AnswersAreMade
  BY <1>1, PartsOf DEF LifeOf, AnswersAreMade
<1> QED
  BY <1>1, ConnectionsInOrder, PTL

\* The queue of timers with its wrapping keys implements Deadlines: a key
\* never cancels the timer of another connection, and what expires had not
\* been cancelled.
THEOREM QueueKeepsDeadlines == Spec => DeadlinesAreKept
<1>1. Init => Abstract!DeadlinesInit
  BY InitHolds
<1>2. ConnectionInv /\ [Next]_vars => [Abstract!DeadlinesNext]_Abstract!deadlineVars
  BY NextHolds
<1> QED
  BY <1>1, <1>2, ConnectionsInOrder, PTL DEF Spec, DeadlinesAreKept, Abstract!DeadlinesSpec

-----------------------------------------------------------------------------
\* What holds an object: its flags tell the truth of a write; without a read it
\* is about to close, or its socket is closed, and if the last piece of its
\* answer has gone out then its client has left; if it is idle, it was missed;
\* and a read that is neither there nor asked for was given up for a reason.
Unread(o) == o.life = "running" /\ ~o.is_reading /\ ~o.close_connection
HeldOf(o, s, p) ==
  /\ o.is_writing => s.write # "none"
  /\ Unread(o) => ~s.open
  /\ Unread(o) /\ s.write = "sent" => p.peer = "left"
  /\ o.life = "running" /\ Idle(o) => ~s.open /\ p.peer = "left"
  /\ o.life = "running" /\ o.is_reading /\ s.read = "none" =>
       o.later \/ ~s.open \/ p.peer = "reset"

\* With ConnectionInv, the inductive invariant of ObjectsAreHeld.
HeldInv == \A c \in Conns : HeldOf(object[c], sock[c], client[c])

\* An action of one connection, that leaves it held.
LEMMA OneIsHeld ==
  ASSUME ConnectionInv, HeldInv, NEW c \in Conns,
         NEW o \in Objects, NEW s \in Sockets, NEW p \in Peers, HeldOf(o, s, p),
         object' = [object EXCEPT ![c] = o], sock' = [sock EXCEPT ![c] = s],
         client' = [client EXCEPT ![c] = p]
  PROVE  HeldInv'
<1> SUFFICES ASSUME NEW d \in Conns
             PROVE  HeldOf(object'[d], sock'[d], client'[d])
  BY DEF HeldInv
<1>1. /\ object \in [Conns -> Objects] /\ sock \in [Conns -> Sockets]
      /\ client \in [Conns -> Peers]
  BY PartsOf
<1>2. CASE d = c
  <2>1. object'[d] = o /\ sock'[d] = s /\ client'[d] = p
    BY <1>1, <1>2
  <2> QED
    BY <2>1
<1>3. CASE d # c
  <2>1. object'[d] = object[d] /\ sock'[d] = sock[d] /\ client'[d] = client[d]
    BY <1>1, <1>3
  <2> QED
    BY <2>1 DEF HeldInv
<1> QED
  BY <1>2, <1>3

\* check_destroy leaves no idle object.
LEMMA DestroyHolds ==
  ASSUME ConnectionInv, HeldInv, NEW c \in Conns,
         NEW o \in Objects, NEW s \in Sockets, NEW p \in Peers, check_destroy(c, o, s, p),
         Idle(o) => s.write = "none", ~Idle(o) => HeldOf(o, s, p)
  PROVE  HeldInv'
<1>1. CASE Idle(o)
  <2> DEFINE t == [s EXCEPT !.open = FALSE]
  <2>1. /\ object' = [object EXCEPT ![c] = NoObject] /\ sock' = [sock EXCEPT ![c] = t]
        /\ client' = [client EXCEPT ![c] = NewClient]
    BY <1>1 DEF check_destroy
  <2>2. NoObject \in Objects /\ t \in Sockets /\ NewClient \in Peers
    BY DEF NoObject, NewClient, Objects, Sockets, Peers
  <2>3. t.write = s.write
    BY DEF Sockets
  <2> HIDE DEF t
  <2>4. HeldOf(NoObject, t, NewClient)
    BY <1>1, <2>3 DEF HeldOf, Unread, NoObject
  <2> QED
    BY <2>1, <2>2, <2>4, OneIsHeld
<1>2. CASE ~Idle(o)
  <2>1. /\ object' = [object EXCEPT ![c] = o] /\ sock' = [sock EXCEPT ![c] = s]
        /\ client' = [client EXCEPT ![c] = p]
    BY <1>2 DEF check_destroy
  <2> QED
    BY <1>2, <2>1, OneIsHeld
<1> QED
  BY <1>1, <1>2

\* What a connection is before an action of its own.
LEMMA HeldBefore ==
  ASSUME ConnectionInv, HeldInv, NEW c \in Conns
  PROVE  /\ object \in [Conns -> Objects] /\ sock \in [Conns -> Sockets]
         /\ client \in [Conns -> Peers]
         /\ object[c] \in Objects /\ sock[c] \in Sockets /\ client[c] \in Peers
         /\ LifeOf(object[c], sock[c], client[c]) /\ HeldOf(object[c], sock[c], client[c])
BY PartsOf DEF HeldInv

\* The client's steps, and a read that is done at once.
LEMMA SendHolds ==
  ASSUME ConnectionInv, HeldInv, NEW c \in Conns,
         ReadAtOnce(c) \/ Leave(c) \/ \E k \in Kinds[c] : Send(c, k)
  PROVE  HeldInv'
<1> SUFFICES ASSUME NEW d \in Conns
             PROVE  HeldOf(object'[d], sock'[d], client'[d])
  BY DEF HeldInv
<1>1. /\ sock[d] \in Sockets /\ client[d] \in Peers
      /\ HeldOf(object[d], sock[d], client[d])
      /\ sock \in [Conns -> Sockets] /\ client \in [Conns -> Peers]
  BY HeldBefore
<1>2. object'[d] = object[d]
  BY DEF ReadAtOnce, Leave, Send
<1>3. /\ sock'[d].open = sock[d].open /\ sock'[d].write = sock[d].write
      /\ sock'[d].read = "none" <=> sock[d].read = "none"
  <2>1. CASE ReadAtOnce(c)
    <3>1. /\ sock[c].read = "waiting"
          /\ sock' = [sock EXCEPT ![c].read = IF WriteQueued(c) THEN "behind" ELSE "done"]
      BY <2>1 DEF ReadAtOnce
    <3>2. CASE d = c
      BY <1>1, <3>1, <3>2 DEF Sockets
    <3>3. CASE d # c
      BY <1>1, <3>1, <3>3
    <3> QED
      BY <3>2, <3>3
  <2>2. CASE sock' = sock
    BY <2>2
  <2> QED
    BY <2>1, <2>2 DEF Leave, Send
<1>4. client[d].peer # "there" => client'[d].peer = client[d].peer
  <2>1. CASE ReadAtOnce(c)
    BY <2>1 DEF ReadAtOnce
  <2>2. CASE Leave(c)
    <3>1. PICK e : client' = [client EXCEPT ![c].peer = e]
      BY <2>2 DEF Leave
    <3>2. client[c].peer = "there"
      BY <2>2 DEF Leave
    <3> QED
      BY <1>1, <3>1, <3>2
  <2>3. CASE \E k \in Kinds[c] : Send(c, k)
    <3>1. PICK k : client' = [client EXCEPT ![c].sent = k, ![c].awaits = k # "part"]
      BY <2>3 DEF Send
    <3>2. client[c].peer = "there"
      BY <2>3 DEF Send
    <3> QED
      <4>1. d # c => client'[d] = client[d]
        BY <1>1, <3>1
      <4> QED
        BY <3>2, <4>1, <1>1, <3>1 DEF Peers
  <2> QED
    BY <2>1, <2>2, <2>3
<1> QED
  BY <1>1, <1>2, <1>3, <1>4 DEF HeldOf

LEMMA StartHolds ==
  ASSUME ConnectionInv, HeldInv, NEW c \in Conns, Accept(c) \/ start(c)
  PROVE  HeldInv'
<1> SUFFICES ASSUME NEW d \in Conns
             PROVE  HeldOf(object'[d], sock'[d], client'[d])
  BY DEF HeldInv
<1>1. /\ object \in [Conns -> Objects] /\ sock \in [Conns -> Sockets]
      /\ client \in [Conns -> Peers]
      /\ object[d] \in Objects /\ sock[d] \in Sockets
      /\ LifeOf(object[d], sock[d], client[d]) /\ HeldOf(object[d], sock[d], client[d])
  BY HeldBefore
<1>2. CASE d # c
  <2>1. object'[d] = object[d] /\ sock'[d] = sock[d] /\ client'[d] = client[d]
    BY <1>1, <1>2 DEF Accept, start
  <2> QED
    BY <1>1, <2>1
<1>3. CASE d = c /\ Accept(c)
  <2>1. object'[d] = NewObject /\ sock'[d].write = sock[d].write /\ object[d].life = "none"
    BY <1>1, <1>3 DEF Accept, Sockets
  <2>2. ~NewObject.is_writing /\ NewObject.life = "posted" /\ sock[d].write = "none"
    BY <1>1, <2>1 DEF NewObject, NoObject, LifeOf
  <2> QED
    BY <2>1, <2>2 DEF HeldOf, Unread
<1>4. CASE d = c /\ start(c)
  <2>1. /\ object'[d].is_reading /\ object'[d].is_writing = object[d].is_writing
        /\ sock'[d].read = "waiting" /\ sock'[d].write = sock[d].write
    BY <1>1, <1>4 DEF start, Deadlined, Objects, Sockets
  <2> QED
    BY <1>1, <2>1 DEF HeldOf, Unread, Idle
<1> QED
  BY <1>2, <1>3, <1>4

\* The callback of a read: the object is held by the next read, by a write
\* that is under way, or is given up.
LEMMA ReadErrorHolds ==
  ASSUME ConnectionInv, HeldInv, NEW c \in Conns, readError(c)
  PROVE  HeldInv'
<1> DEFINE u == Undeadlined(object[c])
           o == [u EXCEPT !.is_reading = FALSE]
           s == [sock[c] EXCEPT !.open = FALSE, !.read = "none"]
           p == Taken(c)
<1>1. CallsBack(c)
  BY DEF readError, HasError, HasData
<1>2. /\ object[c] \in Objects /\ sock[c] \in Sockets /\ client[c] \in Peers
      /\ LifeOf(object[c], sock[c], client[c]) /\ HeldOf(object[c], sock[c], client[c])
      /\ sock[c].write = "sent" => client[c].peer = "left"
  BY <1>1, Reading, HeldBefore
<1>3. /\ u \in Objects /\ u.is_writing = object[c].is_writing /\ p \in Peers
      /\ p.peer = client[c].peer
  BY <1>2, AfterReading DEF Taken, Peers
<1>4. check_destroy(c, o, s, p)
  BY DEF readError
<1> HIDE DEF u, p
<1>5. o \in Objects /\ o.is_writing = object[c].is_writing /\ ~o.is_reading
  BY <1>3 DEF Objects
<1>6. s \in Sockets /\ s.write = sock[c].write /\ ~s.open
  BY <1>2 DEF Sockets
<1> HIDE DEF o, s
<1>7. /\ Idle(o) => s.write = "none"
      /\ ~Idle(o) => HeldOf(o, s, p)
  BY <1>2, <1>3, <1>5, <1>6 DEF HeldOf, Unread, LifeOf, Idle
<1> QED
  BY <1>3, <1>4, <1>5, <1>6, <1>7, DestroyHolds

LEMMA ReadPartHolds ==
  ASSUME ConnectionInv, HeldInv, NEW c \in Conns, readPart(c)
  PROVE  HeldInv'
<1> DEFINE k == keyOfNext(cancel(timers, object[c].key))
           o == [object[c] EXCEPT !.key = k]
           s == [sock[c] EXCEPT !.read = "waiting"]
           p == Taken(c)
<1>1. CallsBack(c)
  BY DEF readPart, HasData
<1>2. /\ object[c] \in Objects /\ sock[c] \in Sockets /\ client[c] \in Peers
      /\ object[c].is_reading /\ HeldOf(object[c], sock[c], client[c])
  BY <1>1, Reading, HeldBefore
<1>3. k \in Keys
  BY NextKey
<1>4. p \in Peers
  BY <1>2, AfterReading
<1>5. /\ object' = [object EXCEPT ![c] = o] /\ sock' = [sock EXCEPT ![c] = s]
      /\ client' = [client EXCEPT ![c] = p]
  BY HeldBefore DEF readPart, Deadlined, Sockets
<1> HIDE DEF k, p
<1>6. o \in Objects /\ o.is_reading /\ o.is_writing = object[c].is_writing
  BY <1>2, <1>3 DEF Objects
<1>7. s \in Sockets /\ s.read = "waiting" /\ s.write = sock[c].write
  BY <1>2 DEF Sockets
<1> HIDE DEF o, s
<1>8. HeldOf(o, s, p)
  BY <1>2, <1>6, <1>7 DEF HeldOf, Unread, Idle
<1> QED
  BY <1>4, <1>5, <1>6, <1>7, <1>8, OneIsHeld

LEMMA ReadDroppedHolds ==
  ASSUME ConnectionInv, HeldInv, NEW c \in Conns, readDropped(c)
  PROVE  HeldInv'
<1> DEFINE u == Undeadlined(object[c])
           o == [u EXCEPT !.is_reading = FALSE, !.close_connection = TRUE]
           s == [sock[c] EXCEPT !.read = "none"]
           p == Taken(c)
<1>1. CallsBack(c) /\ HasData(c)
  BY DEF readDropped, HasData
<1>2. /\ object[c] \in Objects /\ sock[c] \in Sockets /\ client[c] \in Peers
      /\ HeldOf(object[c], sock[c], client[c]) /\ sock[c].write = "none"
  BY <1>1, Reading, HeldBefore
<1>3. /\ u \in Objects /\ u.is_writing = object[c].is_writing /\ p \in Peers
  BY <1>2, AfterReading
<1>4. check_destroy(c, o, s, p)
  BY DEF readDropped
<1> HIDE DEF u, p
<1>5. o \in Objects /\ o.is_writing = object[c].is_writing /\ ~o.is_reading
  BY <1>3 DEF Objects
<1>6. s \in Sockets /\ s.write = "none"
  BY <1>2 DEF Sockets
<1> HIDE DEF o, s
<1>7. Idle(o)
  BY <1>2, <1>5 DEF HeldOf, Idle
<1> QED
  BY <1>3, <1>4, <1>5, <1>6, <1>7, DestroyHolds

\* These two give their object up.
LEMMA HandleThrowsHolds ==
  ASSUME ConnectionInv, HeldInv, NEW c \in Conns, handleThrows(c)
  PROVE  HeldInv'
<1> DEFINE u == Undeadlined(object[c])
           o == [u EXCEPT !.close_connection = object[c].close_connection \/ Kind(c) \in Closing]
           s == [sock[c] EXCEPT !.read = "none"]
           p == Taken(c)
<1>1. CallsBack(c) /\ HasData(c)
  BY DEF handleThrows, Answerable, HasData
<1>2. /\ object[c] \in Objects /\ sock[c] \in Sockets /\ client[c] \in Peers
      /\ HeldOf(object[c], sock[c], client[c]) /\ sock[c].write = "none"
      /\ object[c].is_reading
  BY <1>1, Reading, HeldBefore
<1>3. /\ u \in Objects /\ u.is_writing = object[c].is_writing /\ u.is_reading /\ p \in Peers
      /\ p.peer = client[c].peer
  BY <1>2, AfterReading DEF Taken, Peers
<1>4. /\ object' = [object EXCEPT ![c] = o] /\ sock' = [sock EXCEPT ![c] = s]
      /\ client' = [client EXCEPT ![c] = p] /\ ~RemoteKnown(c)
  BY HeldBefore DEF handleThrows, Sockets
<1> HIDE DEF u, p
<1>5. o \in Objects /\ o.is_writing = object[c].is_writing /\ o.is_reading
  BY <1>2, <1>3 DEF Objects
<1>6. s \in Sockets /\ s.write = "none" /\ s.open = sock[c].open
  BY <1>2 DEF Sockets
<1> HIDE DEF o, s
<1>7. HeldOf(o, s, p)
  BY <1>2, <1>3, <1>4, <1>5, <1>6 DEF HeldOf, Unread, Idle, RemoteKnown
<1> QED
  BY <1>3, <1>4, <1>5, <1>6, <1>7, OneIsHeld

LEMMA HandleForeignHolds ==
  ASSUME ConnectionInv, HeldInv, NEW c \in Conns, handleForeign(c)
  PROVE  HeldInv'
<1> DEFINE u == Undeadlined(object[c])
           o == [u EXCEPT !.later = TRUE]
           s == [sock[c] EXCEPT !.read = "none"]
           p == Taken(c)
<1>1. CallsBack(c) /\ HasData(c)
  BY DEF handleForeign, Answerable, HasData
<1>2. /\ object[c] \in Objects /\ sock[c] \in Sockets /\ client[c] \in Peers
      /\ HeldOf(object[c], sock[c], client[c]) /\ sock[c].write = "none"
      /\ object[c].is_reading
  BY <1>1, Reading, HeldBefore
<1>3. u \in Objects /\ u.is_writing = object[c].is_writing /\ u.is_reading /\ p \in Peers
  BY <1>2, AfterReading
<1>4. /\ object' = [object EXCEPT ![c] = o] /\ sock' = [sock EXCEPT ![c] = s]
      /\ client' = [client EXCEPT ![c] = p]
  BY HeldBefore DEF handleForeign, Sockets
<1> HIDE DEF u, p
<1>5. o \in Objects /\ o.is_writing = object[c].is_writing /\ o.is_reading /\ o.later
  BY <1>3 DEF Objects
<1>6. s \in Sockets /\ s.write = "none"
  BY <1>2 DEF Sockets
<1> HIDE DEF o, s
<1>7. HeldOf(o, s, p)
  BY <1>2, <1>5, <1>6 DEF HeldOf, Unread, Idle
<1> QED
  BY <1>3, <1>4, <1>5, <1>6, <1>7, OneIsHeld

\* A write is begun, and unless the connection closes a read with it.
LEMMA HandleHolds ==
  ASSUME ConnectionInv, HeldInv, NEW c \in Conns, handle(c)
  PROVE  HeldInv'
<1> SUFFICES ASSUME NEW d \in Conns
             PROVE  HeldOf(object'[d], sock'[d], client'[d])
  BY DEF HeldInv
<1> DEFINE closes == Kind(c) \in Closing
           k == IF closes THEN NoKey ELSE keyOfNext(cancel(timers, object[c].key))
           o == [object[c] EXCEPT !.is_writing = TRUE, !.is_reading = ~closes,
                   !.close_connection = closes, !.completed = Kind(c) \notin NoHost, !.key = k]
<1>1. /\ object \in [Conns -> Objects] /\ sock \in [Conns -> Sockets]
      /\ client \in [Conns -> Peers] /\ object[c] \in Objects /\ sock[c] \in Sockets
      /\ HeldOf(object[d], sock[d], client[d])
  BY HeldBefore
<1>2. PICK outcome \in Outcomes :
        /\ object' = [object EXCEPT ![c] = o]
        /\ sock' = [sock EXCEPT ![c] = [do_write(c, sock[c], outcome) EXCEPT
                       !.read = IF closes THEN "none" ELSE "waiting"]]
        /\ client' = [client EXCEPT ![c].sent = Nothing, ![c].awaits = outcome # "sent"]
  BY <1>1 DEF handle, Deadlined, Undeadlined, Objects
<1>3. CASE d # c
  <2>1. object'[d] = object[d] /\ sock'[d] = sock[d] /\ client'[d] = client[d]
    BY <1>1, <1>2, <1>3
  <2> QED
    BY <1>1, <2>1
<1>4. CASE d = c
  <2>1. /\ object'[d].is_writing /\ object'[d].is_reading = ~closes
        /\ object'[d].close_connection = closes
    BY <1>1, <1>2, <1>4 DEF Objects
  <2>2. /\ sock'[d].write # "none"
        /\ sock'[d].read = IF closes THEN "none" ELSE "waiting"
    BY <1>1, <1>2, <1>4 DEF do_write, Sockets, Outcomes
  <2> HIDE DEF closes
  <2> QED
    BY <2>1, <2>2 DEF HeldOf, Unread, Idle
<1> QED
  BY <1>3, <1>4

\* The callback of a piece: the write still holds the object, and on a closed
\* socket it will fail.
LEMMA WritePieceHolds ==
  ASSUME ConnectionInv, HeldInv, NEW c \in Conns, writePiece(c)
  PROVE  HeldInv'
<1>1. /\ object \in [Conns -> Objects] /\ sock \in [Conns -> Sockets]
      /\ client \in [Conns -> Peers]
      /\ object[c] \in Objects /\ sock[c] \in Sockets /\ client[c] \in Peers
      /\ LifeOf(object[c], sock[c], client[c]) /\ HeldOf(object[c], sock[c], client[c])
  BY HeldBefore
<1>2. PICK outcome \in Outcomes :
        /\ outcome # "waiting" => RemoteKnown(c)
        /\ sock' = [sock EXCEPT ![c] = [Unqueued(@) EXCEPT !.write = outcome]]
        /\ client' = [client EXCEPT ![c].awaits = outcome # "sent"]
  BY DEF writePiece, Outcomes
<1> DEFINE s == [Unqueued(sock[c]) EXCEPT !.write = outcome]
           p == [client[c] EXCEPT !.awaits = outcome # "sent"]
<1>3. /\ object' = [object EXCEPT ![c] = object[c]] /\ sock' = [sock EXCEPT ![c] = s]
      /\ client' = [client EXCEPT ![c] = p]
  BY <1>1, <1>2 DEF writePiece, Peers
<1>4. /\ s \in Sockets /\ s.open = sock[c].open /\ s.write = outcome /\ s.write # "none"
      /\ s.read = "none" <=> sock[c].read = "none"
  BY <1>1, <1>2 DEF Unqueued, Sockets, Outcomes
<1>5. p \in Peers /\ p.peer = client[c].peer
  BY <1>1 DEF Peers
<1>6. object[c].is_writing
  BY <1>1 DEF writePiece, WriteCallsBack, LifeOf
<1> HIDE DEF s, p
<1>7. HeldOf(object[c], s, p)
  BY <1>1, <1>2, <1>4, <1>5, <1>6 DEF HeldOf, Unread, Idle, RemoteKnown
<1> QED
  BY <1>1, <1>3, <1>4, <1>5, <1>7, OneIsHeld

\* The callback of a write: what it does not delete is held by a read, or is
\* missed, because the socket was closed before.
LEMMA WriteDoneHolds ==
  ASSUME ConnectionInv, HeldInv, NEW c \in Conns, writeDone(c) \/ writeError(c)
  PROVE  HeldInv'
<1> DEFINE o == written(object[c])
           s == Unwritten(sock[c])
           cl == [client[c] EXCEPT !.awaits = FALSE]
<1>1. /\ object[c] \in Objects /\ sock[c] \in Sockets /\ client[c] \in Peers
      /\ LifeOf(object[c], sock[c], client[c]) /\ HeldOf(object[c], sock[c], client[c])
      /\ sock[c].write # "none" /\ object[c].life = "running"
  BY HeldBefore DEF writeDone, writeError, WriteCallsBack, LifeOf
<1>2. /\ o \in Objects /\ o.life = object[c].life /\ o.later = object[c].later
      /\ o.is_reading = object[c].is_reading /\ ~o.is_writing
      /\ o.close_connection = object[c].close_connection
  BY <1>1 DEF written, Objects
<1>3. /\ s \in Sockets /\ s.open = sock[c].open /\ s.write = "none"
      /\ s.read = "none" <=> sock[c].read = "none"
  BY <1>1 DEF Unwritten, Unqueued, Sockets
<1>4. cl \in Peers /\ cl.peer = client[c].peer
  BY <1>1 DEF Peers
<1>5. ASSUME NEW t \in Sockets, NEW p \in Peers, t.read = s.read, t.write = "none",
             t.open => s.open, p.peer = client[c].peer,
             Idle(o) => ~t.open /\ p.peer = "left"
      PROVE  HeldOf(o, t, p)
  <2> HIDE DEF o, s
  <2> QED
    BY <1>1, <1>2, <1>3, <1>5 DEF HeldOf, Unread
<1>6. ASSUME NEW t \in Sockets, NEW p \in Peers, afterWrite(c, t, p), t.read = s.read,
             t.write = "none", t.open => s.open, p.peer = client[c].peer
      PROVE  HeldInv'
  <2>1. check_destroy(c, o, t, p)
    BY <1>6 DEF afterWrite
  <2>2. ~Idle(o) => HeldOf(o, t, p)
    BY <1>5, <1>6
  <2> HIDE DEF o, s
  <2> QED
    BY <1>2, <1>6, <2>1, <2>2, DestroyHolds
<1>7. CASE writeError(c)
  <2>1. afterWrite(c, s, client[c])
    BY <1>7 DEF writeError
  <2> HIDE DEF s
  <2> QED
    BY <1>1, <1>3, <1>6, <2>1
<1>8. CASE writeDone(c) /\ object[c].close_connection
  <2> DEFINE t == [s EXCEPT !.open = FALSE]
  <2>1. afterWrite(c, t, cl)
    BY <1>8 DEF writeDone
  <2> HIDE DEF s, cl
  <2>2. t \in Sockets /\ ~t.open /\ t.read = s.read /\ t.write = "none"
    BY <1>3 DEF Sockets
  <2> HIDE DEF t
  <2> QED
    BY <1>4, <1>6, <2>1, <2>2
<1>9. CASE writeDone(c) /\ ~object[c].close_connection
  <2> DEFINE p == IF sock[c].write = "sent" THEN client[c] ELSE cl
  <2>1. /\ object' = [object EXCEPT ![c] = o] /\ sock' = [sock EXCEPT ![c] = s]
        /\ client' = [client EXCEPT ![c] = p]
        /\ sock[c].write = "sent" \/ (sock[c].write = "waiting" /\ sock[c].open)
    BY <1>9 DEF writeDone, WriteCallsBack, RemoteKnown
  <2>2. p \in Peers /\ p.peer = client[c].peer
    BY <1>1, <1>4
  <2>3. Idle(o) => ~s.open /\ p.peer = "left"
    <3>1. ~object[c].is_reading => ~sock[c].open /\ client[c].peer = "left"
      BY <1>1, <1>9, <2>1 DEF HeldOf, Unread
    <3> HIDE DEF o, s, p
    <3> QED
      BY <1>2, <1>3, <2>2, <3>1 DEF Idle
  <2> HIDE DEF o, s, p
  <2>4. HeldOf(o, s, p)
    BY <1>3, <1>5, <2>2, <2>3
  <2> QED
    BY <1>2, <1>3, <2>1, <2>2, <2>4, OneIsHeld
<1> QED
  BY <1>7, <1>8, <1>9

\* A deadline closes sockets; what was given up stays so.
LEMMA TickHolds ==
  ASSUME ConnectionInv, HeldInv, tick
  PROVE  HeldInv'
<1> SUFFICES ASSUME NEW d \in Conns
             PROVE  HeldOf(object'[d], sock'[d], client'[d])
  BY DEF HeldInv
<1>1. sock[d] \in Sockets /\ HeldOf(object[d], sock[d], client[d])
  BY HeldBefore
<1>2. PICK S : sock' = [c \in Conns |-> IF c \in S THEN [sock[c] EXCEPT !.open = FALSE]
                                          ELSE sock[c]]
  BY DEF tick
<1>3. /\ sock'[d].read = sock[d].read /\ sock'[d].write = sock[d].write
      /\ sock'[d].open => sock[d].open
  <2>1. sock'[d] = IF d \in S THEN [sock[d] EXCEPT !.open = FALSE] ELSE sock[d]
    BY <1>2
  <2> QED
    BY <1>1, <2>1 DEF Sockets
<1>4. object'[d] = object[d] /\ client'[d] = client[d]
  BY DEF tick
<1> QED
  BY <1>1, <1>3, <1>4 DEF HeldOf, Unread

\* Which objects no callback holds: those that an exception or the router gave
\* up, and those that check_destroy() misses, of clients that left before they
\* had their answer.  It misses no other, whatever the order in which reads, the
\* pieces of writes and deadlines end.
THEOREM OnlyTheseAreLeftBehind == Spec => []ObjectsAreHeld
<1>1. Init => HeldInv
  <2>1. HeldOf(NoObject, NoSocket, NewClient)
    BY DEF HeldOf, Unread, NoObject, NoSocket
  <2> QED
    BY <2>1 DEF Init, HeldInv
<1>2. ConnectionInv /\ HeldInv /\ [Next]_vars => HeldInv'
  <2> SUFFICES ASSUME ConnectionInv, HeldInv, [Next]_vars PROVE HeldInv'
    OBVIOUS
  <2>1. CASE tick
    BY <2>1, TickHolds
  <2>2. ASSUME NEW c \in Conns, ReadCallback(c) PROVE HeldInv'
    BY <2>2, ReadErrorHolds, ReadPartHolds, ReadDroppedHolds, HandleThrowsHolds,
       HandleForeignHolds, HandleHolds DEF ReadCallback
  <2>3. ASSUME NEW c \in Conns,
               \/ Accept(c) \/ start(c)
               \/ writePiece(c) \/ writeDone(c) \/ writeError(c)
        PROVE  HeldInv'
    BY <2>3, StartHolds, WritePieceHolds, WriteDoneHolds
  <2>4. ASSUME NEW c \in Conns, ReadAtOnce(c) \/ Leave(c) \/ \E k \in Kinds[c] : Send(c, k)
        PROVE  HeldInv'
    BY <2>4, SendHolds
  <2>5. CASE UNCHANGED vars
    BY <2>5 DEF vars, HeldInv
  <2> QED
    BY <2>1, <2>2, <2>3, <2>4, <2>5 DEF Next
<1>3. HeldInv => ObjectsAreHeld
  BY DEF HeldInv, HeldOf, Idle, ObjectsAreHeld, Abandoned, Missed, RemoteKnown
<1> QED
  BY <1>1, <1>2, <1>3, ConnectionsInOrder, PTL DEF Spec
=============================================================================
