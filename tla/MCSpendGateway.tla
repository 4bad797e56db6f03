--------------------------- MODULE MCSpendGateway ---------------------------
(* SpendGateway for TLC: the daemon with two calls and the API with one.   *)
(* Each rung, and the run cap, refuses some calls that the others allow. *)
EXTENDS SpendGateway, TLC

CONSTANTS daemon, api, c1, c2, c3

MCProcs == {daemon, api}
MCCalls == {c1, c2, c3}
MCOwner == (c1 :> daemon) @@ (c2 :> daemon) @@ (c3 :> api)
MCExplore == {c3}
MCWorst == (c1 :> 3) @@ (c2 :> 1) @@ (c3 :> 1)

\* for liveness: one call in each process, with one unit at stake
MCTwoCalls == {c1, c3}
MCTwoOwners == (c1 :> daemon) @@ (c3 :> api)
MCNone == {}
MCOneEach == (c1 :> 1) @@ (c3 :> 1)

MCRemote == {0, 3}
=============================================================================
