----------------------------- MODULE MCSimDaemon -----------------------------
(* SimDaemon for TLC: five ticks and a night. The late night goes on past   *)
(* the horizon.                                                             *)
EXTENDS SimDaemon

MCShut == {1, 2}
MCDawn == [t \in MCShut |-> 3]
LateShut == {1, 4}
LateDawn == [t \in LateShut |-> IF t = 1 THEN 2 ELSE 7]
=============================================================================
