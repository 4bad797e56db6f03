-------------------------- MODULE MCTickTransaction --------------------------
(* TickTransaction for TLC: two would-be daemons and a horizon of five     *)
(* ticks, a night of two of them in the middle.                            *)
EXTENDS TickTransaction

CONSTANTS p1, p2

MCProcs == {p1, p2}
MCEventsAt == [t \in 0 .. LastTime |-> CASE t = 0 -> 2 [] t = 1 -> 1 [] t = 4 -> 2 [] OTHER -> 0]
MCShut == {2, 3}
=============================================================================
