------------------------------ MODULE Whereabouts ------------------------------
(***************************************************************************)
(* Where people are and when they are asked (WORLD-0003, WORLD-0009): a     *)
(* tick is one step in which those on shift arrive, those at a decision     *)
(* point are asked, and everyone then moves or goes home. What they answer  *)
(* is open. A week has only the ticks that matter.                          *)
(***************************************************************************)
EXTENDS Integers, Sequences, FiniteSets

CONSTANTS
  Staff, EmployerOf,
  Vendor, Cafe,    \* firms, and the zones their people work in
  Plaza,
  WeekTicks,       \* bound: the ticks of a week
  ShiftOf,         \* shift_for: the ticks of the week at which each is due
  OpenAt,          \* the ticks at which each firm is open
  LunchAt, HourAt, \* the ticks of the lunch window, and those on the hour
  Wander,          \* bound: those who ever leave their workplace
  Troubles         \* bound: what can be the matter with a firm

Zones == {EmployerOf[p] : p \in Staff} \cup {Plaza}
AtHome == "home"

ASSUME WhereaboutsAssumption ==
  /\ AtHome \notin Zones /\ Wander \subseteq Staff
  /\ WeekTicks \in Nat \ {0}
  /\ ShiftOf \in [Staff -> SUBSET (0 .. WeekTicks - 1)]
  /\ OpenAt \in [Zones \ {Plaza} -> SUBSET (0 .. WeekTicks - 1)]

VARIABLES
  tick,
  place,     \* positions.zone
  minds,     \* positions.mind: what was on their mind when they were last asked
  matter,    \* the firm-level facts of this tick: situation
  absent, extra   \* the rota: off sick, or covering

whereVars == <<tick, place, minds, matter, absent, extra>>

Firm == Zones \ {Plaza}

WhereInit ==
  /\ tick = 0
  /\ place = [p \in Staff |-> AtHome]
  /\ minds = [p \in Staff |-> ""]
  /\ matter = [f \in Firm |-> {}]
  /\ absent = {} /\ extra = {}

-----------------------------------------------------------------------------
After(t) == (t + 1) % WeekTicks

OnShift(p, t) ==
  /\ p \notin absent
  /\ IF p \in extra THEN t \in OpenAt[EmployerOf[p]] ELSE t \in ShiftOf[p]

(* Arrivals: whether a workplace is open is a fact, not a judgement.        *)
Arriving == {p \in Staff : place[p] = AtHome /\ OnShift(p, tick)}

Arrived(p) == IF p \in Arriving THEN EmployerOf[p] ELSE place[p]

(* mind_of: one thing, in a fixed order of salience.                        *)
Salience ==
  <<"unpaid", "outage", "short", "let_down", "lost_customer", "colleague_left", "swamped",
    "rough_week", "payday">>

MindOf(p) ==
  LET f == EmployerOf[p]
      said == SelectSeq(Salience, LAMBDA k : k \in matter[f] /\ (k = "swamped" => f = Vendor))
  IN IF said = <<>> THEN "nothing" ELSE Head(said)

Company(p) ==
  {o \in Staff \ {p} : /\ Arrived(o) = Arrived(p)
                       /\ ~(Arrived(p) = EmployerOf[p] /\ EmployerOf[o] = EmployerOf[p])}

\* mutant: the cafe's staff are left alone before anybody asks what is new
CafeFirst(p) ==
  \/ p \in Arriving
  \/ Arrived(p) # EmployerOf[p]
  \/ Company(p) # {}
  \/ EmployerOf[p] # Cafe /\ (MindOf(p) # minds[p] \/ tick \in LunchAt \cup HourAt)

DecisionPoint(p) ==
  \/ p \in Arriving
  \/ Arrived(p) # EmployerOf[p]
  \/ Company(p) # {}
  \/ MindOf(p) # minds[p]
  \/ EmployerOf[p] # Cafe /\ tick \in LunchAt \cup HourAt

AtWork == {p \in Staff : Arrived(p) # AtHome}
Asked == {p \in AtWork : DecisionPoint(p)}

(* space.run                                                                *)
TickOfSpace ==
  /\ \E wanted \in [Asked \cap Wander -> Zones] :
       place' = [p \in Staff |->
         IF p \notin AtWork \/ ~OnShift(p, After(tick)) THEN AtHome
         ELSE IF p \in Asked \cap Wander THEN wanted[p] ELSE Arrived(p)]
  /\ minds' = [p \in Staff |-> IF p \in Asked THEN MindOf(p) ELSE minds[p]]
  /\ tick' = After(tick)
  /\ UNCHANGED <<matter, absent, extra>>

(* send: an errand takes somebody who is at their own workplace elsewhere.  *)
Errand(p, zone) ==
  /\ place[p] = EmployerOf[p] /\ zone # EmployerOf[p]
  /\ place' = [place EXCEPT ![p] = zone]
  /\ UNCHANGED <<tick, minds, matter, absent, extra>>

(* Before a tick of space: what has become of the firms, and the rota.      *)
Otherwise ==
  \/ /\ \E f \in Firm : matter' = [matter EXCEPT ![f] = {}]
     /\ UNCHANGED <<absent, extra>>
  \/ /\ \E f \in Firm, k \in Troubles : matter' = [matter EXCEPT ![f] = @ \cup {k}]
     /\ UNCHANGED <<absent, extra>>
  \/ /\ \E p \in Staff : absent' = {p} /\ \E q \in Staff \ {p} :
          EmployerOf[p] = EmployerOf[q] /\ extra' \in {{}, {q}}
     /\ UNCHANGED matter
  \/ absent' = {} /\ extra' = {} /\ UNCHANGED matter

WhereNext ==
  \/ TickOfSpace
  \/ \E p \in Wander, zone \in Zones : Errand(p, zone)
  \/ Otherwise /\ UNCHANGED <<tick, place, minds>>

WhereSpec == WhereInit /\ [][WhereNext]_whereVars

-----------------------------------------------------------------------------
(* Not everyone is asked every tick, but whoever is at work has been asked  *)
(* since what is on their mind last changed.                                *)
NobodyKeepsAnOldMind ==
  [][tick' # tick => \A p \in AtWork : minds'[p] = MindOf(p)]_whereVars
=============================================================================
