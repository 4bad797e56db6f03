--------------------------------- MODULE Rounds ---------------------------------
(***************************************************************************)
(* The rounds of an episode (WORLD-0006, WORLD-0008). In a round everybody  *)
(* still in the room decides from what stood when it began, and all they do *)
(* is folded at once. The rules twin decides, or a model that may do        *)
(* whatever the question offers.                                            *)
(***************************************************************************)
EXTENDS Integers, FiniteSets

CONSTANTS
  Seats,       \* those who may take part
  MaxRounds,
  ModelSeats   \* bound: how many do when a model decides

\* Three rounds are enough for everybody to be asked once: MAX_ROUNDS is 3.
ASSUME RoundsAssumption ==
  Cardinality(Seats) >= 2 /\ MaxRounds \in Nat /\ MaxRounds > 2 /\ ModelSeats \in Nat

VARIABLES
  stakeRole,   \* what each is to the stake
  hasNews,     \* those who know something that another here does not
  byTwin,      \* does the rules twin decide?
  roundsDone,
  lastActs, departures,   \* local.left
  pressed, promisedBy, refused,
  askedMention, tellers,
  exit         \* exit_reason, "open" until there is one

local == <<roundsDone, lastActs, departures, pressed, promisedBy, refused, askedMention, tellers, exit>>
roundsVars == <<stakeRole, hasNews, byTwin, local>>

NoOne == "nobody"
Promised == promisedBy # NoOne
Standing == Seats \ departures

(* One who could settle it and those who want it, or people with news. Who  *)
(* takes no part counts as having left.                                     *)
RoundsInit ==
  /\ byTwin \in BOOLEAN
  /\ departures \in SUBSET Seats
  /\ Cardinality(Standing) >= 2 /\ (byTwin \/ Cardinality(Standing) <= ModelSeats)
  /\ stakeRole \in [Seats -> {"holder", "asker", "bystander"}]
  /\ Cardinality({p \in Seats : stakeRole[p] = "holder"}) <= 1
  /\ (\E p \in Seats : stakeRole[p] = "holder") <=> (\E p \in Seats : stakeRole[p] = "asker")
  /\ \A p \in departures : stakeRole[p] = "bystander"
  /\ hasNews \in SUBSET Standing
  /\ roundsDone = 0
  /\ lastActs = [p \in Seats |-> "none"]
  /\ pressed = FALSE /\ promisedBy = NoOne /\ refused = FALSE
  /\ askedMention = {} /\ tellers = {}
  /\ exit = "open"

(* _ACTS_BY_ROLE                                                            *)
Offered(role) ==
  {"ask", "small_talk", "leave", "other"} \cup
    CASE role = "holder" -> {"promise", "explain", "decline"}
      [] role = "asker"  -> {"press", "explain"}
      [] role = "bystander" -> {}

(* RulesPolicy._episode_round, whatever it draws.                           *)
TwinActs(role) ==
  {"leave"} \cup
    IF role = "holder"
      THEN IF Promised THEN {"small_talk"}
           ELSE IF pressed THEN {"promise", "decline"} ELSE {"explain", "ask"}
    ELSE IF role = "asker"
      THEN IF Promised THEN {"small_talk"}
           ELSE IF pressed THEN {"ask", "small_talk"} ELSE {"press", "explain"}
    ELSE {"ask", "small_talk"}

(* _tellable_for: those not yet asked. What they know is not written down   *)
(* before the episode closes.                                               *)
\* mutant: it is forgotten that somebody was asked
AskedForEver == Standing \cap hasNews

MayMention == (Standing \cap hasNews) \ askedMention

TwinIsDone(p) ==
  \/ Promised \/ refused
  \/ stakeRole[p] = "asker" /\ pressed /\ roundsDone > 0
  \/ stakeRole[p] = "bystander" /\ p \notin MayMention

Acts(p) == IF byTwin THEN TwinActs(stakeRole[p]) ELSE Offered(stakeRole[p])

(* The end of a round: those who are left have all had their say, or did    *)
(* what they did the round before; or it was the last.                      *)
ExitAfter(acts, done, staying) ==
  IF staying # {} /\ staying \subseteq done THEN "settled"
  ELSE IF roundsDone > 0 /\ staying # {} /\ \A p \in staying : acts[p] = lastActs[p] THEN "stalled"
  ELSE IF roundsDone + 1 = MaxRounds THEN "rounds"
  ELSE IF Cardinality(staying) < 2 THEN "emptied"
  ELSE "open"

(* _fold                                                                    *)
Round ==
  /\ exit = "open"
  /\ \E acts \in [Standing -> UNION {Acts(p) : p \in Standing}],
        done \in SUBSET Standing, mention \in SUBSET MayMention :
       LET doing(act) == {p \in Standing : acts[p] = act}
           staying == Standing \ doing("leave")
       IN /\ \A p \in Standing : acts[p] \in Acts(p)
          /\ byTwin => done = {p \in Standing : TwinIsDone(p)}
          /\ departures' = departures \cup doing("leave")
          /\ pressed' = (pressed \/ doing("press") # {})
          /\ promisedBy' = IF doing("promise") = {} THEN promisedBy
                           ELSE CHOOSE p \in Seats : p \in doing("promise")
          /\ refused' = (refused \/ doing("decline") # {})
          /\ askedMention' = askedMention \cup MayMention
          /\ tellers' = tellers \cup mention
          /\ lastActs' = [p \in Seats |-> IF p \in Standing THEN acts[p] ELSE "none"]
          /\ exit' = ExitAfter(acts, done, staying)
  /\ roundsDone' = roundsDone + 1
  /\ UNCHANGED <<stakeRole, hasNews, byTwin>>

RoundsSpec == RoundsInit /\ [][Round]_roundsVars

-----------------------------------------------------------------------------
(* What the rules twin must get right: a promise is the answer to a push of *)
(* an earlier round, from the one who could keep it; and a conversation     *)
(* about nothing but news comes to its end before the rounds run out.       *)
TheTwinHoldsAConversation ==
  [][/\ promisedBy' # promisedBy => stakeRole[promisedBy'] = "holder" /\ (byTwin => pressed)
     /\ byTwin /\ (\A p \in Seats : stakeRole[p] = "bystander") =>
          exit' \notin {"stalled", "rounds"}]_roundsVars
=============================================================================
