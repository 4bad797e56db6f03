------------------------------ MODULE Subscribers ------------------------------
(***************************************************************************)
(* The customers of the software firm (WORLD-0011): how far each trusts it *)
(* after an outage, what they hear about it, and the monthly billing       *)
(* before which some come back, those at risk may be offered a discount,   *)
(* and some leave. What anybody decides is open. A firm that fails loses   *)
(* its subscriptions, and the vendor that fails all of them.               *)
(***************************************************************************)
EXTENDS Integers, FiniteSetsExt

CONSTANTS
  Holders,         \* those who decide about a subscription
  Subscriptions,
  HolderOf,
  Outside,         \* the subscriptions of outside subscribers
  WorthKeeping,    \* those of RETAIN_ABOVE_CENTS or more
  TrustStart, AtRiskBelow, Best,
  WinBackAfter     \* in billings

ASSUME SubscribersAssumption ==
  /\ HolderOf \in [Subscriptions -> Holders] /\ IsFiniteSet(Subscriptions)
  /\ Outside \subseteq Subscriptions /\ WorthKeeping \subseteq Subscriptions
  /\ Best \in Nat /\ AtRiskBelow \in 1 .. TrustStart /\ TrustStart \in 1 .. Best
  /\ WinBackAfter \in Nat \ {0}

VARIABLES
  trust,     \* beliefs.vendor_reliability
  since,     \* billings since it was last revised after an outage
  warned,    \* those who have heard bad news about the vendor
  active,
  away,      \* billings since a subscription was cancelled; 0 where none was
  billed,    \* what the last billing asked of each: nothing, less or all
  closed,    \* has the vendor failed?
  gone       \* those whose firm has failed

subscriberVars == <<trust, since, warned, active, away, billed, closed, gone>>

Long == AtRiskBelow + 1

SubscribersInit ==
  /\ trust = [h \in Holders |-> TrustStart]
  /\ since = [h \in Holders |-> Long]
  /\ warned = {}
  /\ active = Subscriptions
  /\ away = [s \in Subscriptions |-> 0]
  /\ billed = [s \in Subscriptions |-> "nothing"]
  /\ closed = FALSE /\ gone = {}

(* Somebody who noticed the outage concludes something else from it. *)
AfterOutage(h, level) ==
  /\ level # trust[h]
  /\ trust' = [trust EXCEPT ![h] = level]
  /\ since' = [since EXCEPT ![h] = 0]
  /\ UNCHANGED <<warned, active, away, billed, closed, gone>>

(* In the tick that bills, an outage may still end: by the next billing it *)
(* is as old as one of the month before.                                   *)
AfterBillingAndOutage(h, level) ==
  /\ level # trust[h] /\ ~closed
  /\ \E s \in Subscriptions : billed[s] # "nothing"
  /\ trust' = [trust EXCEPT ![h] = level]
  /\ since' = [since EXCEPT ![h] = 1]
  /\ UNCHANGED <<warned, active, away, billed, closed, gone>>

HearBadNews(h) ==
  /\ warned' = warned \cup {h}
  /\ UNCHANGED <<trust, since, active, away, billed, closed, gone>>

-----------------------------------------------------------------------------
(* The billing. *)

HoldersOf(S) == {HolderOf[s] : s \in S}

Reputation ==
  MapThenSumSet(LAMBDA s : trust[HolderOf[s]], active \cap Outside)

Reputable ==
  \/ active \cap Outside = {}
  \/ Reputation >= AtRiskBelow * Cardinality(active \cap Outside)

MayReturn ==
  IF Reputable
    THEN {s \in Outside \ active : away[s] >= WinBackAfter}
    ELSE {}

(* win_back *)
Returned(back) ==
  [h \in Holders |-> IF h \in HoldersOf(back) THEN TrustStart - 1 ELSE trust[h]]

\* mutant: trust only ever falls
NeverRecovered(levels) == levels

(* _recover: a month without a bad experience earns back a level. *)
Recovered(levels) ==
  [h \in Holders |->
     IF levels[h] < TrustStart /\ since[h] > 0 THEN levels[h] + 1 ELSE levels[h]]

AtRisk(levels, subscribed) ==
  {s \in subscribed : levels[HolderOf[s]] < AtRiskBelow \/ HolderOf[s] \in warned}

(* An offer is worth a level, each; nobody trusts more than all the way.   *)
Raised(levels, offered) ==
  [h \in Holders |->
     Min({Best, levels[h] + Cardinality({s \in offered : HolderOf[s] = h})})]

Bill ==
  /\ ~closed
  /\ \E back \in SUBSET MayReturn :
       LET levels == Recovered(Returned(back))
           risky == AtRisk(levels, active \cup back)
       IN \E offered \in SUBSET (risky \cap WorthKeeping), leaving \in SUBSET risky :
            /\ trust' = Raised(levels, offered)
            /\ active' = (active \cup back) \ leaving
            /\ away' = [s \in Subscriptions |->
                 IF s \in active' THEN 0 ELSE IF s \in leaving THEN 1
                 ELSE IF away[s] = 0 THEN 0 ELSE Min({WinBackAfter, away[s] + 1})]
            /\ billed' = [s \in Subscriptions |->
                 IF s \notin active' THEN "nothing" ELSE IF s \in offered THEN "less" ELSE "all"]
  /\ since' = [h \in Holders |-> Min({Long, since[h] + 1})]
  /\ UNCHANGED <<warned, closed, gone>>

-----------------------------------------------------------------------------
(* A failure ends subscriptions and cancels none: these are not won back.  *)

SubscriberFails(h) ==
  /\ h \notin gone
  /\ \E s \in Subscriptions \ Outside : HolderOf[s] = h
  /\ gone' = gone \cup {h}
  /\ active' = active \ {s \in Subscriptions \ Outside : HolderOf[s] = h}
  /\ UNCHANGED <<trust, since, warned, away, billed, closed>>

(* The vendor's customers move to another; nothing is billed again.        *)
VendorFails ==
  /\ ~closed /\ closed' = TRUE
  /\ active' = {}
  /\ UNCHANGED <<trust, since, warned, away, billed, gone>>

SubscribersNext ==
  \/ \E h \in Holders, level \in 0 .. Best :
       AfterOutage(h, level) \/ AfterBillingAndOutage(h, level)
  \/ \E h \in Holders : HearBadNews(h) \/ SubscriberFails(h)
  \/ Bill
  \/ VendorFails

SubscribersSpec == SubscribersInit /\ [][SubscribersNext]_subscriberVars

-----------------------------------------------------------------------------
(* The distant past does not decide: whoever leaves, and does not lose the *)
(* vendor or their own firm, has heard bad news, or came to trust the      *)
(* vendor less within the last AT_RISK_BELOW billings and the one in which *)
(* they leave.                                                             *)
LostToWhatIsFresh ==
  [][\A s \in active \ active' :
       \/ closed' # closed \/ HolderOf[s] \in gone' \ gone
       \/ HolderOf[s] \in warned \/ since[HolderOf[s]] < Long - 1]_subscriberVars
=============================================================================
