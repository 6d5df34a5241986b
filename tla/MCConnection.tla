---------------------------- MODULE MCConnection ----------------------------
(***************************************************************************)
(* Values of the constants of Connection for TLC: one client that sends    *)
(* whatever a client may send, and one that sends requests in parts and    *)
(* never comes to their end, so that its deadline is set again and again.  *)
(***************************************************************************)
EXTENDS Connection

CONSTANTS c1, c2

Clients      == {c1, c2}
AnyKind      == [c \in Clients |-> IF c = c1 THEN AllKinds ELSE {"part"}]
AnyEnd       == [c \in Clients |-> IF c = c1 THEN AllEnds ELSE {}]
NoEnd        == [c \in Clients |-> {}]
ForeignKinds == [c \in Clients |-> {"keepAlive", "foreign"}]
=============================================================================
