------------------------------ MODULE Engineering ------------------------------
(***************************************************************************)
(* The software firm's engineering week (WORLD-0011): on Monday the lead   *)
(* decides what it is spent on, on Tuesday and Thursday whether what is    *)
(* ready goes out, and a long outage leaves debt behind it. Debt is in     *)
(* hundredths. The rules twin or a model may be the one that decides.      *)
(***************************************************************************)
EXTENDS Integers

CONSTANTS
  DebtStart, DebtFloor, DebtCeiling,
  DebtBy,          \* DEBT_BY_ALLOCATION
  HeldDeployDebt,
  PostmortemDebt,
  TooMuch,         \* the debt at which the twin pays some back
  LongOutages      \* bound: the outages of a week that run long

ASSUME EngineeringAssumption ==
  /\ {DebtStart, DebtFloor, DebtCeiling, HeldDeployDebt, PostmortemDebt, TooMuch} \subseteq Nat
  /\ DebtStart \in DebtFloor .. DebtCeiling
  /\ {"roadmap", "firefight", "debt", "other"} = DOMAIN DebtBy
  /\ \A a \in DOMAIN DebtBy : DebtBy[a] \in Int
  /\ LongOutages \in Nat

VARIABLES
  weekday,
  debt,        \* policy.debt_level
  allocation,  \* policy.allocation, "none" once allocation_until is past
  outages,     \* long outages that have ended this week
  twin         \* does the rules twin decide?

engineeringVars == <<weekday, debt, allocation, outages, twin>>

EngineeringInit ==
  /\ weekday = "Monday"
  /\ debt = DebtStart
  /\ allocation = "none"
  /\ outages = 0
  /\ twin \in BOOLEAN

(* _move_debt *)
Moved(delta) ==
  IF debt + delta > DebtCeiling THEN DebtCeiling
  ELSE IF debt + delta < DebtFloor THEN DebtFloor ELSE debt + delta

\* mutant: the twin puts out the fires first
FiresBeforeDebt(fires) ==
  IF fires THEN "firefight" ELSE IF debt >= TooMuch THEN "debt" ELSE "roadmap"

(* RulesPolicy: debt first once the codebase is fragile, then fires. *)
Twins(fires) ==
  IF debt >= TooMuch THEN "debt" ELSE IF fires THEN "firefight" ELSE "roadmap"

Allocate ==
  /\ weekday = "Monday" /\ weekday' = "Tuesday"
  /\ outages' = 0
  /\ \E choice \in DOMAIN DebtBy, fires \in BOOLEAN :
       /\ twin => choice = Twins(fires)
       /\ allocation' = choice
       /\ debt' = Moved(DebtBy[choice])
  /\ UNCHANGED twin

(* Nobody who could lead is at work: last week's choice has run out.       *)
NobodyLeads ==
  /\ weekday = "Monday" /\ weekday' = "Tuesday"
  /\ outages' = 0
  /\ allocation' = "none"
  /\ UNCHANGED <<debt, twin>>

Deploy ==
  /\ weekday \in {"Tuesday", "Thursday"}
  /\ weekday' = IF weekday = "Tuesday" THEN "Thursday" ELSE "Monday"
  /\ \/ debt' = Moved(HeldDeployDebt)
     \/ UNCHANGED debt
  /\ UNCHANGED <<allocation, outages, twin>>

(* No postmortem in a week that is spent on paying back debt. *)
Postmortem ==
  /\ outages < LongOutages
  /\ outages' = outages + 1
  /\ debt' = IF allocation = "debt" THEN debt ELSE Moved(PostmortemDebt)
  /\ UNCHANGED <<weekday, allocation, twin>>

EngineeringNext == Allocate \/ NobodyLeads \/ Deploy \/ Postmortem

(* The daemon keeps ticking: the days of the week go on.                   *)
EngineeringFair == WF_engineeringVars(Allocate \/ NobodyLeads \/ Deploy)

EngineeringSpec ==
  EngineeringInit /\ [][EngineeringNext]_engineeringVars /\ EngineeringFair

-----------------------------------------------------------------------------
(* The rules twin gets out of the firefighting trap, and as often as it    *)
(* got in: however many fires there are, debt comes back down, once there  *)
(* is somebody on every Monday to decide about it.                         *)
LeavesTheTrap ==
  (twin /\ <>[][~NobodyLeads]_engineeringVars) => []<>(debt < TooMuch)
=============================================================================
