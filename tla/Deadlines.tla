----------------------------- MODULE Deadlines ------------------------------
(***************************************************************************)
(* What the connections of one thread expect of their deadlines: a set of  *)
(* connections whose deadline runs, one each.  A deadline ends because its *)
(* own connection ends it or because it expires, and then the socket of    *)
(* that connection is closed, and no other.                                *)
(***************************************************************************)
CONSTANT Conns

VARIABLES
  open,   \* the connections whose socket is open
  armed   \* the connections whose deadline runs

deadlineVars == <<open, armed>>

DeadlinesInit == open = {} /\ armed = {}

Accepted(c) == c \notin open /\ open' = open \cup {c} /\ UNCHANGED armed

Arm(c) == c \in open /\ armed' = armed \cup {c} /\ UNCHANGED open

\* The connection is done with its deadline; it may close its socket too.
Disarm(c) == armed' = armed \ {c} /\ open' \in {open, open \ {c}}

\* The deadlines of the connections S run out, in one look at the clock.
Expire(S) == S \subseteq armed /\ armed' = armed \ S /\ open' = open \ S

DeadlinesNext ==
  \/ \E c \in Conns : Accepted(c) \/ Arm(c) \/ Disarm(c)
  \/ \E S \in SUBSET Conns : Expire(S)

DeadlinesSpec == DeadlinesInit /\ [][DeadlinesNext]_deadlineVars
=============================================================================
