------------------------------- MODULE WorldLog -------------------------------
(***************************************************************************)
(* What the world promises whoever reads it (CORE-0007, WORLD-0002,        *)
(* API-0001): a log of events that grows by whole ticks, each numbered     *)
(* where the last one stopped, and the same log whatever went wrong on the *)
(* way to it; only a new build may leave a gap before the row that names   *)
(* it. The abstract specification of TickTransaction.                      *)
(***************************************************************************)
EXTENDS Integers, Sequences

CONSTANTS
  LastTime,    \* the horizon, in ticks
  EventsAt,    \* how many events the tick at each time writes
  Shut,        \* times at which nothing is open
  MayDeploy    \* may another build take over from the one before it?

ASSUME WorldAssumption ==
  /\ LastTime \in Nat
  /\ EventsAt \in [0 .. LastTime -> Nat]
  /\ Shut \subseteq 0 .. LastTime - 1
  /\ MayDeploy \in BOOLEAN

VARIABLES
  time,        \* sim_meta.sim_time
  log          \* the rows of events, in the order they were committed

worldVars == <<time, log>>

\* n events at time t, numbered from the one after b
Numbered(b, n, t) == [i \in 1 .. n |-> [seq |-> b + i, at |-> t]]

\* the first time at or after t at which something is open, or the horizon
NextOpen(t) == CHOOSE u \in t .. LastTime :
  u \notin Shut /\ \A w \in t .. u - 1 : w \in Shut

\* the number of the last row
LastSeq == IF log = <<>> THEN 0 ELSE log[Len(log)].seq

WInit == time = 0 /\ log = <<>>

WholeTick ==
  /\ time < LastTime
  /\ time \notin Shut
  /\ log' = log \o Numbered(LastSeq, EventsAt[time], time)
  /\ time' = time + 1

SkipNight ==
  /\ time \in Shut
  /\ time' = NextOpen(time)
  /\ UNCHANGED log

NewBuild ==
  /\ MayDeploy
  /\ Len(log') = Len(log) + 1
  /\ SubSeq(log', 1, Len(log)) = log
  /\ log'[Len(log')].at = time /\ log'[Len(log')].seq > LastSeq
  /\ UNCHANGED time

WNext == WholeTick \/ SkipNight \/ NewBuild

WSpec == WInit /\ [][WNext]_worldVars
=============================================================================
