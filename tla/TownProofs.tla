------------------------------ MODULE TownProofs ------------------------------
(***************************************************************************)
(* Proofs about the life of the town, part by part.                        *)
(*                                                                         *)
(* Rounds, for any people and rounds: where there is only news, whoever has *)
(* some was asked in the first round, so that talk of it ends by itself.   *)
(*                                                                         *)
(* Whereabouts, for any plan of the day: one step shows all.               *)
(*                                                                         *)
(* Subscribers, for any trust and any billings: EarnedBack says how fast   *)
(* trust that an outage took comes back.                                   *)
(*                                                                         *)
(* Closes, for any month and attempts: ClosesInv says what a job of the    *)
(* close may say, in the queue and in hand; the step of Months that each   *)
(* step of it is follows from what that leaves open.                       *)
(*                                                                         *)
(* Talk, for any firms, people and bills: TalkInv says of the line of      *)
(* matters of a conversation, and of every line that will be gone on with, *)
(* that no outage and no bill is in it twice.                              *)
(***************************************************************************)
EXTENDS Closes, Subscribers, Talk, Rounds, Whereabouts, FiniteSetTheorems, WellFoundedInduction, TLAPS

(***************************************************************************)
(* Rounds.                                                                 *)
(***************************************************************************)
StakeRoles == {"holder", "asker", "bystander"}
Exits == {"open", "settled", "stalled", "rounds", "emptied"}

NewsOnly == byTwin /\ \A p \in Seats : stakeRole[p] = "bystander"

RoundsTypeOK ==
  /\ stakeRole \in [Seats -> StakeRoles]
  /\ roundsDone \in Nat
  /\ departures \subseteq Seats
  /\ exit \in Exits

\* Where there is only news, everybody who has some was asked in the first round.
AskedInTheFirst ==
  NewsOnly /\ exit = "open" => roundsDone = 0 \/ (roundsDone = 1 /\ Standing \cap hasNews \subseteq askedMention)

RoundsInv == RoundsTypeOK /\ AskedInTheFirst

LEMMA RoundKeeps ==
  ASSUME RoundsInv, Round
  PROVE  RoundsInv'
<1>1. exit = "open" /\ roundsDone' = roundsDone + 1 /\ UNCHANGED <<stakeRole, hasNews, byTwin>>
  BY DEF Round
<1>2. PICK acts \in [Standing -> UNION {Acts(p) : p \in Standing}],
           done \in SUBSET Standing :
        /\ departures' = departures \cup {p \in Standing : acts[p] = "leave"}
        /\ byTwin => done = {p \in Standing : TwinIsDone(p)}
        /\ askedMention' = askedMention \cup MayMention
        /\ exit' = ExitAfter(acts, done, Standing \ {p \in Standing : acts[p] = "leave"})
  BY DEF Round
<1>3. RoundsTypeOK'
  BY <1>1, <1>2 DEF RoundsInv, RoundsTypeOK, ExitAfter, Exits, Standing
<1>4. ASSUME NewsOnly, exit' = "open"
      PROVE  roundsDone = 0 /\ (Standing \cap hasNews)' \subseteq askedMention'
  <2>1. Standing' \subseteq Standing
    BY <1>2 DEF Standing
  <2>2. (Standing \cap hasNews)' \subseteq askedMention'
    BY <1>1, <1>2, <2>1 DEF MayMention
  <2>3. CASE roundsDone = 1 /\ Standing \cap hasNews \subseteq askedMention
    <3>1. done = Standing
      BY <1>2, <1>4, <2>3 DEF TwinIsDone, MayMention, NewsOnly, Standing
    <3>2. Cardinality({}) = 0
      BY FS_EmptySet
    <3> QED BY <1>2, <1>4, <2>3, <3>1, <3>2 DEF ExitAfter
  <2> QED BY <1>1, <1>4, <2>2, <2>3 DEF RoundsInv, AskedInTheFirst
<1>5. AskedInTheFirst'
  BY <1>1, <1>4 DEF AskedInTheFirst, NewsOnly, RoundsInv, RoundsTypeOK
<1> QED BY <1>3, <1>5 DEF RoundsInv

LEMMA RoundsInvariance == RoundsSpec => []RoundsInv
<1>1. RoundsInit => RoundsInv
  BY DEF RoundsInit, RoundsInv, RoundsTypeOK, AskedInTheFirst, StakeRoles, Exits
<1>2. RoundsInv /\ [Round]_roundsVars => RoundsInv'
  <2> SUFFICES ASSUME RoundsInv, [Round]_roundsVars PROVE RoundsInv'
    OBVIOUS
  <2>1. CASE Round
    BY <2>1, RoundKeeps
  <2>2. CASE UNCHANGED roundsVars
    BY <2>2 DEF roundsVars, local, RoundsInv, RoundsTypeOK, AskedInTheFirst, NewsOnly, Standing
  <2> QED BY <2>1, <2>2
<1> QED BY <1>1, <1>2, PTL DEF RoundsSpec

\* A promise answers a push of an earlier round and comes from the one who can keep it,
\* and a conversation about nothing but news ends before the rounds run out: _fold and
\* the rules twin, for any number of people and three rounds or more.
THEOREM TheTwinConverses == RoundsSpec => TheTwinHoldsAConversation
<1>1. ASSUME RoundsInv, [Round]_roundsVars
      PROVE  [/\ promisedBy' # promisedBy => stakeRole[promisedBy'] = "holder" /\ (byTwin => pressed)
              /\ byTwin /\ (\A p \in Seats : stakeRole[p] = "bystander") =>
                   exit' \notin {"stalled", "rounds"}]_roundsVars
  <2> SUFFICES ASSUME Round
               PROVE  /\ promisedBy' # promisedBy =>
                           stakeRole[promisedBy'] = "holder" /\ (byTwin => pressed)
                      /\ NewsOnly => exit' \notin {"stalled", "rounds"}
    BY <1>1 DEF NewsOnly
  <2>1. exit = "open" /\ stakeRole \in [Seats -> StakeRoles] /\ roundsDone \in Nat
    BY <1>1 DEF Round, RoundsInv, RoundsTypeOK
  <2>2. PICK acts \in [Standing -> UNION {Acts(p) : p \in Standing}],
             done \in SUBSET Standing :
          /\ \A p \in Standing : acts[p] \in Acts(p)
          /\ byTwin => done = {p \in Standing : TwinIsDone(p)}
          /\ promisedBy' = IF {p \in Standing : acts[p] = "promise"} = {} THEN promisedBy
                           ELSE CHOOSE p \in Seats : p \in {q \in Standing : acts[q] = "promise"}
          /\ exit' = ExitAfter(acts, done, Standing \ {p \in Standing : acts[p] = "leave"})
    BY DEF Round
  <2>3. ASSUME promisedBy' # promisedBy
        PROVE  stakeRole[promisedBy'] = "holder" /\ (byTwin => pressed)
    <3>1. promisedBy' \in Standing /\ acts[promisedBy'] = "promise"
      BY <2>2, <2>3 DEF Standing
    <3>2. "promise" \in Acts(promisedBy') /\ stakeRole[promisedBy'] \in StakeRoles
      BY <2>1, <2>2, <3>1 DEF Standing
    <3> QED BY <3>2 DEF Acts, TwinActs, Offered, StakeRoles
  <2>4. ASSUME NewsOnly PROVE exit' \notin {"stalled", "rounds"}
    <3>1. CASE roundsDone = 0
      BY <2>2, <3>1, RoundsAssumption DEF ExitAfter
    <3>2. CASE roundsDone = 1 /\ Standing \cap hasNews \subseteq askedMention
      <4>1. done = Standing
        BY <2>2, <2>4, <3>2 DEF TwinIsDone, MayMention, NewsOnly, Standing
      <4> QED BY <2>2, <3>2, <4>1, RoundsAssumption DEF ExitAfter
    <3> QED BY <1>1, <2>1, <2>4, <3>1, <3>2 DEF RoundsInv, AskedInTheFirst
  <2> QED BY <2>3, <2>4
<1> QED BY <1>1, RoundsInvariance, PTL DEF RoundsSpec, TheTwinHoldsAConversation

-----------------------------------------------------------------------------
(***************************************************************************)
(* Whereabouts.                                                            *)
(***************************************************************************)
\* Whoever is at work when a tick of space is over was asked since what is on their mind
\* last changed: whatever their shifts, their firm's hours and the rota.
THEOREM NobodyIsLeftBehind == WhereSpec => NobodyKeepsAnOldMind
<1>1. ASSUME WhereNext, tick' # tick
      PROVE  \A p \in AtWork : minds'[p] = MindOf(p)
  <2>1. TickOfSpace
    BY <1>1 DEF WhereNext, Errand
  <2> SUFFICES ASSUME NEW p \in AtWork PROVE minds'[p] = MindOf(p)
    OBVIOUS
  <2>2. p \in Staff
    BY DEF AtWork
  <2>3. minds'[p] = IF p \in Asked THEN MindOf(p) ELSE minds[p]
    BY <2>1, <2>2 DEF TickOfSpace
  <2>4. p \notin Asked => MindOf(p) = minds[p]
    BY DEF Asked, DecisionPoint
  <2> QED BY <2>3, <2>4
<1>2. [WhereNext]_whereVars =>
        [tick' # tick => \A p \in AtWork : minds'[p] = MindOf(p)]_whereVars
  BY <1>1
<1> QED BY <1>2, PTL DEF WhereSpec, NobodyKeepsAnOldMind

-----------------------------------------------------------------------------
(***************************************************************************)
(* Subscribers.                                                            *)
(***************************************************************************)
SubscribersTypeOK ==
  /\ trust \in [Holders -> 0 .. Best]
  /\ since \in [Holders -> 0 .. Long]
  /\ active \subseteq Subscriptions

\* A level is earned back at every billing but the first after an outage.
EarnedBack ==
  \A h \in Holders : since[h] = 0 \/ trust[h] >= since[h] - 1 \/ trust[h] >= TrustStart

SubscribersInv == SubscribersTypeOK /\ EarnedBack

LEMMA LevelsFacts ==
  /\ Best \in Nat /\ AtRiskBelow \in Nat /\ TrustStart \in Nat
  /\ 1 <= AtRiskBelow /\ AtRiskBelow <= TrustStart /\ TrustStart <= Best
  /\ Long \in Nat /\ Long = AtRiskBelow + 1
  /\ IsFiniteSet(Subscriptions) /\ \A s \in Subscriptions : HolderOf[s] \in Holders
BY SubscribersAssumption DEF Long

\* Min of the community modules, of two.
LEMMA TheLess ==
  ASSUME NEW a \in Int, NEW b \in Int
  PROVE  Min({a, b}) = IF a <= b THEN a ELSE b
<1> DEFINE m == IF a <= b THEN a ELSE b
<1>1. m \in {a, b} /\ \A y \in {a, b} : m <= y
  OBVIOUS
<1>2. \A x \in {a, b} : (\A y \in {a, b} : x <= y) => x = m
  OBVIOUS
<1> QED BY <1>1, <1>2 DEF Min

\* What a billing finds: whoever has had time to earn back has.
LEMMA LevelsAtBilling ==
  ASSUME SubscribersInv, NEW back, NEW h \in Holders
  PROVE  LET levels == Recovered(Returned(back))
         IN /\ levels \in [Holders -> 0 .. Best]
            /\ since[h] = 0 \/ levels[h] >= since[h] \/ levels[h] >= TrustStart
<1>1. Returned(back) \in [Holders -> 0 .. Best]
  BY LevelsFacts DEF Returned, SubscribersInv, SubscribersTypeOK
<1>2. \/ Returned(back)[h] = trust[h]
      \/ Returned(back)[h] = TrustStart - 1
  BY DEF Returned
<1>3. Recovered(Returned(back)) \in [Holders -> 0 .. Best]
  BY <1>1, LevelsFacts DEF Recovered, SubscribersInv, SubscribersTypeOK
<1>4. Recovered(Returned(back))[h] =
        IF Returned(back)[h] < TrustStart /\ since[h] > 0
          THEN Returned(back)[h] + 1 ELSE Returned(back)[h]
  BY DEF Recovered
<1>5. since[h] \in Nat /\ trust[h] \in Nat
  BY LevelsFacts DEF SubscribersInv, SubscribersTypeOK
<1>6. since[h] = 0 \/ trust[h] >= since[h] - 1 \/ trust[h] >= TrustStart
  BY DEF SubscribersInv, EarnedBack
<1> QED BY <1>2, <1>3, <1>4, <1>5, <1>6, LevelsFacts

LEMMA BillKeeps ==
  ASSUME SubscribersInv, Bill
  PROVE  SubscribersInv'
<1>1. PICK back \in SUBSET MayReturn :
        LET levels == Recovered(Returned(back))
            risky == AtRisk(levels, active \cup back)
        IN \E offered \in SUBSET (risky \cap WorthKeeping), leaving \in SUBSET risky :
             /\ trust' = Raised(levels, offered)
             /\ active' = (active \cup back) \ leaving
  BY DEF Bill
<1> DEFINE levels == Recovered(Returned(back))
           risky == AtRisk(levels, active \cup back)
<1>2. PICK offered \in SUBSET (risky \cap WorthKeeping), leaving \in SUBSET risky :
        /\ trust' = Raised(levels, offered)
        /\ active' = (active \cup back) \ leaving
  BY <1>1
<1>3. back \subseteq Subscriptions
  BY SubscribersAssumption DEF MayReturn
<1>4. active' \subseteq Subscriptions
  BY <1>2, <1>3 DEF SubscribersInv, SubscribersTypeOK
<1>5. ASSUME NEW h \in Holders
      PROVE  /\ trust'[h] \in 0 .. Best
             /\ since'[h] \in 0 .. Long
             /\ since'[h] = 0 \/ trust'[h] >= since'[h] - 1 \/ trust'[h] >= TrustStart
  <2> DEFINE more == Cardinality({s \in offered : HolderOf[s] = h})
  <2>1. more \in Nat
    <3>1. {s \in offered : HolderOf[s] = h} \subseteq Subscriptions
      BY <1>3 DEF AtRisk, SubscribersInv, SubscribersTypeOK
    <3> QED BY <3>1, LevelsFacts, FS_Subset, FS_CardinalityType
  <2>2. levels \in [Holders -> 0 .. Best]
    BY LevelsAtBilling
  <2>3. since[h] = 0 \/ levels[h] >= since[h] \/ levels[h] >= TrustStart
    BY LevelsAtBilling
  <2>4. trust'[h] = Min({Best, levels[h] + more})
    BY <1>2 DEF Raised
  <2>5. levels[h] \in Nat /\ levels[h] <= Best /\ since[h] \in Nat /\ since[h] <= Long
    BY <2>2, LevelsFacts DEF SubscribersInv, SubscribersTypeOK
  <2>6. since'[h] = Min({Long, since[h] + 1})
    BY DEF Bill
  <2> HIDE DEF levels, more
  <2>7. since'[h] = IF Long <= since[h] + 1 THEN Long ELSE since[h] + 1
    BY <2>5, <2>6, LevelsFacts, TheLess
  <2>8. trust'[h] = IF Best <= levels[h] + more THEN Best ELSE levels[h] + more
    BY <2>1, <2>4, <2>5, LevelsFacts, TheLess
  <2> QED BY <2>1, <2>3, <2>5, <2>7, <2>8, LevelsFacts
<1>6. trust' \in [Holders -> 0 .. Best] /\ since' \in [Holders -> 0 .. Long]
  <2>1. DOMAIN trust' = Holders /\ trust' = [h \in Holders |-> trust'[h]]
    BY <1>2 DEF Raised
  <2>2. since' = [h \in Holders |-> since'[h]]
    BY DEF Bill
  <2> QED BY <1>5, <2>1, <2>2
<1> QED BY <1>4, <1>5, <1>6 DEF SubscribersInv, SubscribersTypeOK, EarnedBack

LEMMA SubscribersInvariance == SubscribersSpec => []SubscribersInv
<1>1. SubscribersInit => SubscribersInv
  BY LevelsFacts DEF SubscribersInit, SubscribersInv, SubscribersTypeOK, EarnedBack
<1>2. SubscribersInv /\ [SubscribersNext]_subscriberVars => SubscribersInv'
  <2> SUFFICES ASSUME SubscribersInv, [SubscribersNext]_subscriberVars PROVE SubscribersInv'
    OBVIOUS
  <2>1. ASSUME NEW h \in Holders, NEW level \in 0 .. Best, AfterOutage(h, level)
        PROVE  SubscribersInv'
    BY <2>1, LevelsFacts DEF AfterOutage, SubscribersInv, SubscribersTypeOK, EarnedBack
  <2>2. ASSUME NEW h \in Holders, NEW level \in 0 .. Best, AfterBillingAndOutage(h, level)
        PROVE  SubscribersInv'
    BY <2>2, LevelsFacts DEF AfterBillingAndOutage, SubscribersInv, SubscribersTypeOK, EarnedBack
  <2>3. CASE Bill
    BY <2>3, BillKeeps
  <2>4. ASSUME UNCHANGED <<trust, since>>, active' \subseteq active PROVE SubscribersInv'
    BY <2>4 DEF SubscribersInv, SubscribersTypeOK, EarnedBack
  <2>5. CASE (\E h \in Holders : HearBadNews(h)) \/ UNCHANGED subscriberVars
    BY <2>4, <2>5 DEF HearBadNews, subscriberVars
  <2>6. ASSUME NEW h \in Holders, SubscriberFails(h) PROVE SubscribersInv'
    BY <2>4, <2>6 DEF SubscriberFails
  <2>7. CASE VendorFails
    BY <2>4, <2>7 DEF VendorFails
  <2> QED BY <2>1, <2>2, <2>3, <2>5, <2>6, <2>7 DEF SubscribersNext
<1> QED BY <1>1, <1>2, PTL DEF SubscribersSpec

\* Who fails loses their subscriptions.
LEMMA FailedSubscribersLose ==
  ASSUME NEW h \in Holders, SubscriberFails(h), NEW s \in active \ active'
  PROVE  HolderOf[s] \in gone' \ gone
BY DEF SubscriberFails

\* Whoever gives up a subscription has heard bad news, or has come to trust the vendor less
\* within the last AT_RISK_BELOW billings and the one in which they leave: win_back, _recover
\* and the offers of bill_subscribers never leave anybody distrustful for longer. The others who
\* lose one are those who fail, and everybody when the vendor does.
THEOREM LostToFreshNews == SubscribersSpec => LostToWhatIsFresh
<1>0. ASSUME SubscribersInv, SubscribersNext, NEW s \in active \ active'
      PROVE  Bill \/ closed' # closed \/ HolderOf[s] \in gone' \ gone
  <2>1. CASE VendorFails
    BY <2>1 DEF VendorFails
  <2>2. ASSUME NEW h \in Holders, SubscriberFails(h) PROVE HolderOf[s] \in gone' \ gone
    BY <1>0, <2>2, FailedSubscribersLose
  <2> QED BY <1>0, <2>1, <2>2
          DEF SubscribersNext, AfterOutage, AfterBillingAndOutage, HearBadNews
<1>1. ASSUME SubscribersInv, SubscribersNext, NEW s \in active \ active', Bill
      PROVE  HolderOf[s] \in warned \/ since[HolderOf[s]] < Long - 1
  <2>2. PICK back \in SUBSET MayReturn :
          \E leaving \in SUBSET AtRisk(Recovered(Returned(back)), active \cup back) :
            active' = (active \cup back) \ leaving
    BY <1>1 DEF Bill
  <2> DEFINE levels == Recovered(Returned(back))
             h == HolderOf[s]
  <2>3. s \in AtRisk(levels, active \cup back)
    BY <1>1, <2>2
  <2>4. h \in Holders
    BY <1>1, LevelsFacts DEF SubscribersInv, SubscribersTypeOK
  <2>5. levels[h] < AtRiskBelow \/ h \in warned
    BY <2>3 DEF AtRisk
  <2>6. levels \in [Holders -> 0 .. Best]
        /\ (since[h] = 0 \/ levels[h] >= since[h] \/ levels[h] >= TrustStart)
    BY <1>1, <2>4, LevelsAtBilling
  <2>7. since[h] \in Nat /\ levels[h] \in Nat
    BY <1>1, <2>4, <2>6, LevelsFacts DEF SubscribersInv, SubscribersTypeOK
  <2> HIDE DEF levels, h
  <2>8. h \in warned \/ since[h] < Long - 1
    BY <2>5, <2>6, <2>7, LevelsFacts
  <2> QED BY <2>8 DEF h
<1>2. SubscribersInv /\ [SubscribersNext]_subscriberVars =>
        [\A s \in active \ active' :
           \/ closed' # closed \/ HolderOf[s] \in gone' \ gone
           \/ HolderOf[s] \in warned \/ since[HolderOf[s]] < Long - 1]_subscriberVars
  BY <1>0, <1>1
<1> QED BY <1>2, SubscribersInvariance, PTL DEF SubscribersSpec, LostToWhatIsFresh

(***************************************************************************)
(* Closing the books.                                                      *)
(***************************************************************************)
Rows ==
  {r \in [kind : {"close.plan", "close.run"}, client : Clients \cup {Accountant}, at : Nat,
          due : Int, attempt : Nat, reconciled : BOOLEAN, rework : Nat] :
     IF r.kind = "close.plan" THEN r.client = Accountant
                              ELSE r.client \in Clients /\ r.attempt \in 1 .. CloseAttempts}

\* A plan comes up before the offices open, and a close when they are open.
ItsHour(j, open) == ((j.at % 2) = 0) <=> ((j.kind = "close.plan") <=> ~open)

\* A close is due right after the plan to come, and has not been touched, or it is due after
\* the last one, and has been put off no more than a day for each of its attempts.
AfterAPlan(j, p) ==
  \/ j.due = p.at + 1 /\ j.at = j.due /\ j.attempt = 1
  \/ /\ j.due = p.at + 1 - Month
     /\ j.due <= j.at /\ j.at <= j.due + j.attempt * DayTicks

\* The rows P of the queue and the rows W that are run: a plan, of each client one close at
\* most, what is run has come up and nothing else has.
RowsOK(P, W, open) ==
  /\ P \subseteq Rows /\ W \subseteq Rows
  /\ \E p \in P \cup W : p.kind = "close.plan"
  /\ \A p, q \in P \cup W : p.kind = q.kind /\ p.client = q.client => p = q
  /\ \A j \in P : j.at > 0 /\ ItsHour(j, open)
  /\ \A j \in W : j.at = 0 /\ ((j.kind = "close.run") <=> open)
  /\ \A j, p \in P \cup W : j.kind = "close.run" /\ p.kind = "close.plan" => AfterAPlan(j, p)

BooksOK ==
  /\ byHand \in [Clients -> Nat]
  /\ audited \in [Clients -> BOOLEAN]
  /\ trueUp \in [Clients -> Nat]
  /\ charged \in [Clients -> Nat]
  /\ closes \in [Clients -> {0, 1}]

ClosesInv == office \in BOOLEAN /\ RowsOK(planned, running, office) /\ BooksOK

LEMMA MonthFacts ==
  /\ Month \in Nat /\ Month % 2 = 0 /\ Month >= 2 * (CloseAttempts + 2)
  /\ FirstPlan \in Nat \ {0} /\ FirstPlan % 2 = 0 
  /\ CloseAttempts \in Nat \ {0}
<1>1. PICK n \in (CloseAttempts + 2) .. 100 : Month = n * DayTicks
  BY ClosesAssumption
<1>2. PICK m \in 1 .. 100 : FirstPlan = m * DayTicks
  BY ClosesAssumption
<1>3. CloseAttempts \in Nat \ {0}
  BY ClosesAssumption
<1>4. n \in Nat /\ m \in Nat /\ n >= CloseAttempts + 2 /\ m > 0
  BY <1>1, <1>2, <1>3
<1> QED BY <1>1, <1>2, <1>3, <1>4 DEF DayTicks

LEMMA RowFields ==
  ASSUME NEW r \in Rows
  PROVE  /\ r.kind \in {"close.plan", "close.run"} /\ r.at \in Nat /\ r.due \in Int
         /\ r.attempt \in Nat /\ r.reconciled \in BOOLEAN /\ r.rework \in Nat
         /\ r.kind = "close.plan" => r.client = Accountant
         /\ r.kind = "close.run" => r.client \in Clients /\ r.attempt \in 1 .. CloseAttempts
<1>1. /\ r \in [kind : {"close.plan", "close.run"}, client : Clients \cup {Accountant}, at : Nat,
                due : Int, attempt : Nat, reconciled : BOOLEAN, rework : Nat]
      /\ IF r.kind = "close.plan" THEN r.client = Accountant
                              ELSE r.client \in Clients /\ r.attempt \in 1 .. CloseAttempts
  BY DEF Rows
<1> QED BY <1>1

\* A row is written anew: put off, or the one of the next month in its place.
LEMMA AnotherRow ==
  ASSUME NEW P, NEW W, NEW open \in BOOLEAN, RowsOK(P, W, open),
         NEW j \in P \cup W, NEW r \in Rows,
         r.kind = j.kind, r.client = j.client, r.at > 0, ItsHour(r, open),
         r.kind = "close.run" => \A p \in P \cup W : p.kind = "close.plan" => AfterAPlan(r, p),
         r.kind = "close.plan" => \A k \in P \cup W : k.kind = "close.run" => AfterAPlan(k, r)
  PROVE  RowsOK((P \ {j}) \cup {r}, W \ {j}, open)
<1> DEFINE P1 == (P \ {j}) \cup {r}
           W1 == W \ {j}
<1>1. /\ P \subseteq Rows /\ W \subseteq Rows
      /\ \E p \in P \cup W : p.kind = "close.plan"
      /\ \A p, q \in P \cup W : p.kind = q.kind /\ p.client = q.client => p = q
      /\ \A i \in P : i.at > 0 /\ ItsHour(i, open)
      /\ \A i \in W : i.at = 0 /\ ((i.kind = "close.run") <=> open)
      /\ \A i, p \in P \cup W : i.kind = "close.run" /\ p.kind = "close.plan" => AfterAPlan(i, p)
  BY DEF RowsOK
<1>2. P1 \subseteq Rows /\ W1 \subseteq Rows
  BY <1>1
<1>3. \E p \in P1 \cup W1 : p.kind = "close.plan"
  BY <1>1
<1>4. \A p, q \in P1 \cup W1 : p.kind = q.kind /\ p.client = q.client => p = q
  BY <1>1
<1>5. \A i \in P1 : i.at > 0 /\ ItsHour(i, open)
  BY <1>1
<1>6. \A i \in W1 : i.at = 0 /\ ((i.kind = "close.run") <=> open)
  BY <1>1
<1>7. \A i, p \in P1 \cup W1 :
        i.kind = "close.run" /\ p.kind = "close.plan" => AfterAPlan(i, p)
  <2> SUFFICES ASSUME NEW i \in P1 \cup W1, NEW p \in P1 \cup W1,
                      i.kind = "close.run", p.kind = "close.plan"
               PROVE  AfterAPlan(i, p)
    OBVIOUS
  <2>1. CASE i = r
    <3>1. p \in P \cup W
      BY <2>1
    <3> QED BY <2>1, <3>1
  <2>2. CASE p = r
    <3>1. i \in P \cup W
      BY <2>2
    <3> QED BY <2>2, <3>1
  <2>3. CASE i # r /\ p # r
    BY <1>1, <2>3
  <2> QED BY <2>1, <2>2, <2>3
<1> HIDE DEF P1, W1
<1>8. RowsOK(P1, W1, open)
  BY <1>2, <1>3, <1>4, <1>5, <1>6, <1>7 DEF RowsOK
<1> QED BY <1>8 DEF P1, W1

\* A close is gone.
LEMMA NoSuchRow ==
  ASSUME NEW P, NEW W, NEW open \in BOOLEAN, RowsOK(P, W, open),
         NEW P1 \in SUBSET P, NEW W1 \in SUBSET W,
         \A j \in (P \ P1) \cup (W \ W1) : j.kind # "close.plan"
  PROVE  RowsOK(P1, W1, open)
<1>1. \E p \in P1 \cup W1 : p.kind = "close.plan"
  BY DEF RowsOK
<1> QED BY <1>1 DEF RowsOK

Moved(j) == [j EXCEPT !.at = @ - 1, !.due = IF j.kind = "close.run" THEN @ - 1 ELSE @]

LEMMA MovedFields ==
  ASSUME NEW j \in Rows, j.at > 0
  PROVE  /\ Moved(j) \in Rows
         /\ Moved(j).kind = j.kind /\ Moved(j).client = j.client /\ Moved(j).at = j.at - 1
         /\ Moved(j).attempt = j.attempt
         /\ Moved(j).reconciled = j.reconciled /\ Moved(j).rework = j.rework
         /\ Moved(j).due = IF j.kind = "close.run" THEN j.due - 1 ELSE j.due
<1>1. /\ j \in [kind : {"close.plan", "close.run"}, client : Clients \cup {Accountant}, at : Nat,
                due : Int, attempt : Nat, reconciled : BOOLEAN, rework : Nat]
      /\ IF j.kind = "close.plan" THEN j.client = Accountant
                              ELSE j.client \in Clients /\ j.attempt \in 1 .. CloseAttempts
  BY DEF Rows
<1> DEFINE due == IF j.kind = "close.run" THEN j.due - 1 ELSE j.due
           m == [j EXCEPT !.at = @ - 1, !.due = IF j.kind = "close.run" THEN @ - 1 ELSE @]
<1>2. j.at - 1 \in Nat /\ due \in Int
  BY <1>1
<1>3. /\ m.kind = j.kind /\ m.client = j.client /\ m.at = j.at - 1 /\ m.attempt = j.attempt
      /\ m.reconciled = j.reconciled /\ m.rework = j.rework /\ m.due = due
  BY <1>1
<1>4. m \in [kind : {"close.plan", "close.run"}, client : Clients \cup {Accountant}, at : Nat,
             due : Int, attempt : Nat, reconciled : BOOLEAN, rework : Nat]
  BY <1>1, <1>2
<1> HIDE DEF m
<1>5. m \in Rows
  BY <1>1, <1>3, <1>4 DEF Rows
<1> QED BY <1>3, <1>5 DEF m, Moved

LEMMA OpeningKeeps ==
  ASSUME ClosesInv, NextOpening
  PROVE  RowsOK(planned', running', office')
<1> DEFINE moved == {Moved(j) : j \in planned}
           taken == {j \in moved : j.at <= 0 /\ (office' \/ j.kind = "close.plan")}
<1>1. /\ running = {} /\ office' = ~office /\ running' = taken /\ planned' = moved \ taken
  BY DEF NextOpening, Moved
<1>2. /\ planned \subseteq Rows
      /\ \E p \in planned : p.kind = "close.plan"
      /\ \A p, q \in planned : p.kind = q.kind /\ p.client = q.client => p = q
      /\ \A i \in planned : i.at > 0 /\ ItsHour(i, office)
      /\ \A i, p \in planned : i.kind = "close.run" /\ p.kind = "close.plan" => AfterAPlan(i, p)
      /\ office \in BOOLEAN
  BY <1>1 DEF ClosesInv, RowsOK
<1>3. \A i \in planned :
         /\ i.kind \in {"close.plan", "close.run"} /\ i.at \in Nat /\ i.due \in Int
         /\ i.attempt \in Nat
         /\ Moved(i) \in Rows
         /\ Moved(i).kind = i.kind /\ Moved(i).client = i.client /\ Moved(i).at = i.at - 1
         /\ Moved(i).attempt = i.attempt
         /\ Moved(i).due = IF i.kind = "close.run" THEN i.due - 1 ELSE i.due
  BY <1>2, MovedFields, RowFields
<1>4. moved \subseteq Rows
  BY <1>3
<1>5. \E p \in moved : p.kind = "close.plan"
  BY <1>2, <1>3
<1>6. \A p, q \in moved : p.kind = q.kind /\ p.client = q.client => p = q
  BY <1>2, <1>3
<1>7. ASSUME NEW i \in moved PROVE ItsHour(i, ~office) /\ i.at >= 0
  <2>1. PICK k \in planned : i = Moved(k)
    BY <1>7
  <2>2. k.at \in Nat /\ k.at > 0 /\ i.at = k.at - 1 /\ i.kind = k.kind /\ ItsHour(k, office)
    BY <1>2, <1>3, <2>1
  <2>3. (i.at % 2 = 0) <=> ~(k.at % 2 = 0)
    BY <2>2
  <2> QED BY <1>2, <2>2, <2>3 DEF ItsHour
<1>8. \A i, p \in moved : i.kind = "close.run" /\ p.kind = "close.plan" => AfterAPlan(i, p)
  <2> SUFFICES ASSUME NEW i \in moved, NEW p \in moved,
                      i.kind = "close.run", p.kind = "close.plan"
               PROVE  AfterAPlan(i, p)
    OBVIOUS
  <2>1. PICK k \in planned : i = Moved(k)
    OBVIOUS
  <2>2. PICK q \in planned : p = Moved(q)
    OBVIOUS
  <2>3. /\ k.at \in Nat /\ k.due \in Int /\ i.at = k.at - 1 /\ i.due = k.due - 1
        /\ i.attempt = k.attempt /\ k.attempt \in Nat /\ q.at \in Nat /\ p.at = q.at - 1
    BY <1>3, <2>1, <2>2
  <2>4. AfterAPlan(k, q)
    BY <1>2, <1>3, <2>1, <2>2
  <2> QED BY <2>3, <2>4, MonthFacts DEF AfterAPlan, DayTicks
<1> HIDE DEF moved
<1>9. taken \subseteq Rows /\ moved \ taken \subseteq Rows
  BY <1>4
<1>10. \E p \in (moved \ taken) \cup taken : p.kind = "close.plan"
  BY <1>5
<1>11. \A i \in moved \ taken : i.at > 0 /\ ItsHour(i, ~office)
  <2> SUFFICES ASSUME NEW i \in moved \ taken, ~(i.at > 0) PROVE FALSE
    BY <1>7
  <2>1. i.at \in Nat /\ i.kind \in {"close.plan", "close.run"}
    BY <1>4, RowFields
  <2>2. i.at = 0 /\ ItsHour(i, ~office)
    BY <1>7, <2>1
  <2>3. (i.at % 2) = 0
    BY <2>2
  <2>4. (i.kind = "close.plan") <=> office
    BY <1>2, <2>2, <2>3 DEF ItsHour
  <2>5. ~(office' \/ i.kind = "close.plan")
    BY <2>1, <2>2
  <2> HIDE DEF taken
  <2>6. ~office' /\ office
    BY <1>1, <1>2, <2>4, <2>5
  <2> QED BY <2>4, <2>5, <2>6
<1>12. \A i \in taken : i.at = 0 /\ ((i.kind = "close.run") <=> ~office)
  <2> SUFFICES ASSUME NEW i \in taken PROVE i.at = 0 /\ ((i.kind = "close.run") <=> ~office)
    OBVIOUS
  <2>1. i.at \in Nat /\ i.kind \in {"close.plan", "close.run"} /\ i.at <= 0
    BY <1>4, RowFields
  <2>2. i.at = 0 /\ ItsHour(i, ~office)
    BY <1>7, <2>1
  <2>3. (i.at % 2) = 0
    BY <2>2
  <2> QED BY <1>2, <2>1, <2>2, <2>3 DEF ItsHour
<1>13. RowsOK(moved \ taken, taken, ~office)
  <2> HIDE DEF taken
  <2>1. \A i \in (moved \ taken) \cup taken : i \in moved
    BY DEF taken
  <2> QED BY <1>6, <1>8, <1>9, <1>10, <1>11, <1>12, <2>1 DEF RowsOK
<1> QED BY <1>1, <1>13

-----------------------------------------------------------------------------

LEMMA PlanAtIsARow ==
  ASSUME NEW at \in Nat
  PROVE  /\ PlanAt(at) \in Rows /\ PlanAt(at).kind = "close.plan"
         /\ PlanAt(at).client = Accountant /\ PlanAt(at).at = at
  BY DEF PlanAt, Entry, Rows

LEMMA FreshCloseIsARow ==
  ASSUME NEW c \in Clients, NEW at \in Nat
  PROVE  /\ FreshClose(c, at) \in Rows /\ FreshClose(c, at).kind = "close.run"
         /\ FreshClose(c, at).client = c /\ FreshClose(c, at).at = at
         /\ FreshClose(c, at).due = at /\ FreshClose(c, at).attempt = 1
         /\ FreshClose(c, at).rework = 0
  BY MonthFacts DEF FreshClose, Entry, Rows

LEMMA PlanKeeps ==
  ASSUME ClosesInv, NEW j \in running, PlanCloses(j)
  PROVE  ClosesInv'
<1> DEFINE again == PlanAt(Month)
<1>1. /\ j.kind = "close.plan" /\ running' = running \ {j}
      /\ UNCHANGED <<office, failed, books>>
      /\ \/ planned' = planned \cup {again}
         \/ \E k \in DueNext : planned' = PutOff(k) \cup {again}
  BY DEF PlanCloses, Run
<1>2. /\ RowsOK(planned, running, office) /\ office \in BOOLEAN /\ j \in Rows
      /\ j.at = 0 /\ ~office
  BY <1>1 DEF ClosesInv, RowsOK
<1>3. /\ again \in Rows /\ again.kind = "close.plan" /\ again.client = Accountant
      /\ again.at = Month /\ Month > 0
  BY PlanAtIsARow, MonthFacts
<1> HIDE DEF again
<1>4. again.client = j.client
  BY <1>1, <1>2, <1>3, RowFields
<1>5. ItsHour(again, office)
  BY <1>2, <1>3, MonthFacts DEF ItsHour
<1>6. ASSUME NEW k \in planned \cup running, k.kind = "close.run" PROVE AfterAPlan(k, again)
  <2>1. k \in planned /\ k \in Rows /\ AfterAPlan(k, j) /\ k.at > 0
    BY <1>1, <1>2, <1>6 DEF RowsOK
  <2>2. k.at \in Nat /\ k.due \in Int /\ k.attempt \in 1 .. CloseAttempts
    BY <1>6, <2>1, RowFields
  <2> QED BY <1>2, <1>3, <2>1, <2>2, MonthFacts DEF AfterAPlan, DayTicks
<1>7. RowsOK((planned \ {j}) \cup {again}, running \ {j}, office)
  BY <1>1, <1>2, <1>3, <1>4, <1>5, <1>6, AnotherRow
<1>8. j \notin planned
  BY <1>2 DEF RowsOK
<1>9. RowsOK(planned \cup {again}, running \ {j}, office)
  <2>1. planned \ {j} = planned
    BY <1>8
  <2> QED BY <1>7, <2>1
<1>10. ASSUME NEW k \in DueNext, planned' = PutOff(k) \cup {again}
       PROVE  RowsOK(planned', running', office')
  <2> DEFINE r == [k EXCEPT !.at = Tomorrow]
  <2>1. k \in planned /\ k \in Rows /\ k.kind = "close.run" /\ k.at = 1 /\ k.attempt = 1
    BY <1>2, <1>10 DEF DueNext, RowsOK
  <2>2. Tomorrow = 3
    BY <1>2 DEF Tomorrow, DayTicks
  <2>3. /\ r \in Rows /\ r.kind = k.kind /\ r.client = k.client /\ r.at = 3
        /\ r.due = k.due /\ r.attempt = 1
    BY <2>1, <2>2 DEF Rows
  <2> HIDE DEF r
  <2>4. AfterAPlan(k, j)
    BY <1>1, <1>2, <2>1 DEF RowsOK
  <2>5. k.due = 1
    BY <1>2, <2>1, <2>4, RowFields, MonthFacts DEF AfterAPlan, DayTicks
  <2>6. AfterAPlan(r, again)
    BY <1>3, <2>3, <2>5, MonthFacts DEF AfterAPlan, DayTicks
  <2>7. ItsHour(r, office)
    BY <1>2, <2>1, <2>3 DEF ItsHour
  <2>8. \A p \in (planned \cup {again}) \cup (running \ {j}) :
           p.kind = "close.plan" => p = again
    BY <1>3, <1>9, RowFields DEF RowsOK
  <2>9. RowsOK(((planned \cup {again}) \ {k}) \cup {r}, (running \ {j}) \ {k}, office)
    BY <1>2, <1>9, <2>1, <2>3, <2>6, <2>7, <2>8, AnotherRow
  <2>10. k \notin running /\ k # again
    BY <1>2, <1>3, <2>1 DEF RowsOK
  <2>11. ((planned \cup {again}) \ {k}) \cup {r} = planned'
    BY <1>10, <2>10 DEF PutOff, r
  <2>12. (running \ {j}) \ {k} = running'
    BY <1>1, <2>10
  <2> QED BY <1>1, <2>9, <2>11, <2>12
<1>11. RowsOK(planned', running', office')
  BY <1>1, <1>9, <1>10
<1> QED BY <1>1, <1>11 DEF ClosesInv, BooksOK, books

\* A close that is put off, whatever has been found to charge for it by then.
LEMMA LaterFields ==
  ASSUME NEW j \in Rows, j.kind = "close.run", j.attempt < CloseAttempts, office,
         NEW reconciled \in BOOLEAN, NEW rework \in Nat
  PROVE  LET r == Later(j, reconciled, rework) IN
         /\ r \in Rows /\ r.kind = "close.run" /\ r.client = j.client /\ r.at = 2
         /\ r.due = j.due /\ r.attempt = j.attempt + 1 /\ r.rework = rework
<1> DEFINE r == [j EXCEPT !.at = Tomorrow, !.attempt = @ + 1, !.reconciled = reconciled,
                          !.rework = rework]
<1>1. Tomorrow = 2
  BY DEF Tomorrow, DayTicks
<1>2. /\ j \in [kind : {"close.plan", "close.run"}, client : Clients \cup {Accountant}, at : Nat,
                due : Int, attempt : Nat, reconciled : BOOLEAN, rework : Nat]
      /\ j.client \in Clients /\ j.attempt \in 1 .. CloseAttempts
  BY DEF Rows
<1>3. j.attempt + 1 \in 1 .. CloseAttempts /\ j.attempt + 1 \in Nat
  BY <1>2, MonthFacts
<1>4. /\ r.kind = j.kind /\ r.client = j.client /\ r.at = 2 /\ r.attempt = j.attempt + 1
      /\ r.due = j.due /\ r.rework = rework
  BY <1>1, <1>2
<1>5. r \in [kind : {"close.plan", "close.run"}, client : Clients \cup {Accountant}, at : Nat,
             due : Int, attempt : Nat, reconciled : BOOLEAN, rework : Nat]
  BY <1>1, <1>2, <1>3
<1> HIDE DEF r
<1>6. r \in Rows
  BY <1>2, <1>3, <1>4, <1>5 DEF Rows
<1> QED BY <1>4, <1>6 DEF r, Later

\* The row a close leaves in its place, put off or for the month after.
LEMMA RunLeaves ==
  ASSUME ClosesInv, NEW j \in running, Run(j, "close.run"), office' = office,
         NEW r \in Rows, r.kind = "close.run", r.client = j.client,
         \/ r.due = j.due /\ r.at = 2 /\ r.attempt = j.attempt + 1
         \/ r.due = j.due + Month /\ r.at = r.due /\ r.attempt = 1 /\ r.at > 0,
         planned' = planned \cup {r}
  PROVE  RowsOK(planned', running', office')
<1>1. /\ RowsOK(planned, running, office) /\ office \in BOOLEAN /\ office /\ j \in Rows
      /\ j.at = 0 /\ j.kind = "close.run" /\ running' = running \ {j} /\ j \notin planned
  BY DEF ClosesInv, RowsOK, Run
<1>2. /\ j.due \in Int /\ j.attempt \in 1 .. CloseAttempts
      /\ r.due \in Int /\ r.at \in Nat /\ r.attempt \in Nat
  BY <1>1, RowFields
<1>3. ASSUME NEW p \in planned \cup running, p.kind = "close.plan"
      PROVE  AfterAPlan(r, p) /\ (r.due = p.at + 1 => (p.at % 2) = 1)
  <2>1. p \in planned /\ p \in Rows /\ ItsHour(p, office) /\ p.at > 0 /\ AfterAPlan(j, p)
    BY <1>1, <1>3 DEF RowsOK
  <2>2. p.at \in Nat
    BY <2>1, RowFields
  <2>3. (p.at % 2) = 1
    BY <1>1, <1>3, <2>1, <2>2 DEF ItsHour
  <2> QED BY <1>1, <1>2, <2>1, <2>2, <2>3, MonthFacts DEF AfterAPlan, DayTicks
<1>4. r.at > 0 /\ (r.at % 2) = 0
  <2>1. PICK p \in planned \cup running : p.kind = "close.plan"
    BY <1>1 DEF RowsOK
  <2>2. p \in Rows /\ p.at \in Nat
    BY <1>1, <2>1, RowFields DEF RowsOK
  <2>3. CASE r.at = 2
    BY <2>3
  <2>4. CASE r.at = r.due /\ r.at > 0 /\ r.due = j.due + Month
    <3>1. AfterAPlan(j, p) /\ p.at > 0
      BY <1>1, <2>1 DEF RowsOK
    <3>2. r.due = p.at + 1
      BY <1>1, <1>2, <2>2, <2>4, <3>1, MonthFacts DEF AfterAPlan, DayTicks
    <3>3. (p.at % 2) = 1
      BY <1>3, <2>1, <3>2
    <3> QED BY <2>2, <2>4, <3>2, <3>3
  <2> QED BY <2>3, <2>4
<1>5. ItsHour(r, office)
  BY <1>1, <1>4 DEF ItsHour
<1>6. RowsOK((planned \ {j}) \cup {r}, running \ {j}, office)
  BY <1>1, <1>3, <1>4, <1>5, AnotherRow
<1>7. planned \ {j} = planned
  BY <1>1
<1> QED BY <1>1, <1>6, <1>7

\* The row of the close that follows when this one is complete.
LEMMA NextMonthsClose ==
  ASSUME ClosesInv, NEW j \in running, Run(j, "close.run")
  PROVE  LET r == FreshClose(j.client, j.due + Month) IN
         /\ r \in Rows /\ r.kind = "close.run" /\ r.client = j.client /\ r.due = j.due + Month
         /\ r.at = r.due /\ r.attempt = 1 /\ r.at > 0 /\ r.rework = 0
<1>1. /\ RowsOK(planned, running, office) /\ j \in Rows /\ j.at = 0 /\ j.kind = "close.run"
      /\ office
  BY DEF ClosesInv, RowsOK, Run
<1>2. PICK p \in planned \cup running : p.kind = "close.plan"
  BY <1>1 DEF RowsOK
<1>3. p \in Rows /\ p.at \in Nat /\ AfterAPlan(j, p) /\ j.due \in Int /\ j.client \in Clients
      /\ j.attempt \in Nat
  BY <1>1, <1>2, RowFields DEF RowsOK
<1>4. j.due + Month \in Nat /\ j.due + Month > 0
  BY <1>1, <1>3, MonthFacts DEF AfterAPlan, DayTicks
<1> QED BY <1>3, <1>4, FreshCloseIsARow

LEMMA CloseKeeps ==
  ASSUME ClosesInv, NEW j \in running, CloseBooks(j)
  PROVE  ClosesInv'
<1>1. /\ Run(j, "close.run") /\ j.kind = "close.run" /\ running' = running \ {j}
      /\ office' = office
  BY DEF CloseBooks, Run
<1>2. /\ RowsOK(planned, running, office) /\ office \in BOOLEAN /\ j \in Rows
      /\ j.at = 0 /\ office
  BY <1>1 DEF ClosesInv, RowsOK
<1>3. j.client \in Clients /\ j.attempt \in 1 .. CloseAttempts /\ j.rework \in Nat
      /\ j.reconciled \in BOOLEAN
  BY <1>1, <1>2, RowFields
<1>4. BooksOK
  BY DEF ClosesInv
<1>5. ASSUME Forgotten(j) PROVE ClosesInv'
  <2>1. planned' = planned /\ BooksOK'
    BY <1>4, <1>5 DEF Forgotten, books, BooksOK
  <2>2. RowsOK(planned, running \ {j}, office)
    BY <1>1, <1>2, NoSuchRow
  <2> QED BY <1>1, <1>2, <2>1, <2>2 DEF ClosesInv
<1>6. ASSUME PutOffAgain(j) PROVE ClosesInv'
  <2> DEFINE r == Later(j, j.reconciled, j.rework)
  <2>1. planned' = planned \cup {r} /\ BooksOK' /\ j.attempt < CloseAttempts
    BY <1>4, <1>6 DEF PutOffAgain, books, BooksOK
  <2>2. /\ r \in Rows /\ r.kind = "close.run" /\ r.client = j.client /\ r.at = 2
        /\ r.due = j.due /\ r.attempt = j.attempt + 1
    BY <1>1, <1>2, <1>3, <2>1, LaterFields
  <2> HIDE DEF r
  <2>3. RowsOK(planned', running', office')
    BY <1>1, <2>1, <2>2, RunLeaves
  <2> QED BY <1>1, <1>2, <2>1, <2>3 DEF ClosesInv
<1>7. ASSUME NEW estimated \in BOOLEAN, Complete(j, estimated)
      PROVE  /\ RowsOK(planned', running', office')
             /\ trueUp' \in [Clients -> Nat] /\ charged' \in [Clients -> Nat]
             /\ closes' \in [Clients -> {0, 1}]
  <2> DEFINE r == FreshClose(j.client, j.due + Month)
  <2>1. /\ planned' = planned \cup {r}
        /\ charged' = [charged EXCEPT ![j.client] = j.rework + trueUp[j.client]]
        /\ trueUp' = [trueUp EXCEPT ![j.client] = IF estimated THEN TrueUp ELSE 0]
        /\ closes' = [closes EXCEPT ![j.client] = 1 - @]
    BY <1>7 DEF Complete
  <2>2. /\ r \in Rows /\ r.kind = "close.run" /\ r.client = j.client /\ r.due = j.due + Month
        /\ r.at = r.due /\ r.attempt = 1 /\ r.at > 0
    BY <1>1, NextMonthsClose
  <2> HIDE DEF r
  <2>3. RowsOK(planned', running', office')
    BY <1>1, <2>1, <2>2, RunLeaves
  <2>4. (IF estimated THEN TrueUp ELSE 0) \in Nat
    BY ClosesAssumption
  <2>5. trueUp' \in [Clients -> Nat]
    BY <1>3, <1>4, <2>1, <2>4 DEF BooksOK
  <2>6. charged' \in [Clients -> Nat]
    BY <1>3, <1>4, <2>1 DEF BooksOK
  <2>7. closes' \in [Clients -> {0, 1}]
    BY <1>3, <1>4, <2>1 DEF BooksOK
  <2> QED BY <2>3, <2>5, <2>6, <2>7
<1>8. ASSUME NEW estimated \in BOOLEAN, Complete(j, estimated), UNCHANGED <<byHand, audited>>
      PROVE  ClosesInv'
  BY <1>1, <1>2, <1>4, <1>7, <1>8 DEF ClosesInv, BooksOK
<1>9. ASSUME NEW fee, Reconcile(j, fee)
      PROVE  fee \in Nat /\ byHand' \in [Clients -> Nat] /\ audited' \in [Clients -> BOOLEAN]
  <2>1. PICK items \in 0 .. byHand[j.client] :
           fee = items * ReworkFee + IF audited[j.client] THEN AuditFee ELSE 0
    BY <1>9 DEF Reconcile
  <2>2. byHand[j.client] \in Nat /\ items \in Nat
    BY <1>3, <1>4 DEF BooksOK
  <2>3. (IF audited[j.client] THEN AuditFee ELSE 0) \in Nat /\ ReworkFee \in Nat
    BY ClosesAssumption
  <2>4. items * ReworkFee \in Nat
    BY <2>2, <2>3
  <2>5. fee \in Nat
    BY <2>1, <2>3, <2>4
  <2>6. byHand' \in [Clients -> Nat]
    BY <1>3, <1>4, <1>9 DEF Reconcile, BooksOK
  <2>7. audited' \in [Clients -> BOOLEAN]
    BY <1>3, <1>4, <1>9 DEF Reconcile, BooksOK
  <2> QED BY <2>5, <2>6, <2>7
<1>10. ASSUME NEW estimated \in BOOLEAN, SignOff(j, estimated) PROVE ClosesInv'
  <2>1. CASE ~(j.attempt < CloseAttempts /\ ~j.reconciled)
    BY <1>8, <1>10, <2>1 DEF SignOff
  <2>2. CASE j.attempt < CloseAttempts /\ ~j.reconciled
    <3>1. PICK fee \in Fees :
            /\ Reconcile(j, fee)
            /\ IF fee > 0
                 THEN /\ planned' = planned \cup {Later(j, TRUE, j.rework + fee)}
                      /\ UNCHANGED <<trueUp, charged, closes>>
                 ELSE Complete(j, estimated)
      BY <1>10, <2>2 DEF SignOff
    <3>2. fee \in Nat /\ byHand' \in [Clients -> Nat] /\ audited' \in [Clients -> BOOLEAN]
      BY <1>9, <3>1
    <3>3. CASE fee > 0
      <4> DEFINE r == Later(j, TRUE, j.rework + fee)
      <4>1. j.rework + fee \in Nat
        BY <1>3, <3>2
      <4>2. /\ r \in Rows /\ r.kind = "close.run" /\ r.client = j.client /\ r.at = 2
            /\ r.due = j.due /\ r.attempt = j.attempt + 1
        BY <1>1, <1>2, <2>2, <4>1, LaterFields
      <4>3. planned' = planned \cup {r} /\ UNCHANGED <<trueUp, charged, closes>>
        BY <3>1, <3>3
      <4> HIDE DEF r
      <4>4. RowsOK(planned', running', office')
        BY <1>1, <4>2, <4>3, RunLeaves
      <4> QED BY <1>1, <1>2, <1>4, <3>2, <4>3, <4>4 DEF ClosesInv, BooksOK
    <3>4. CASE ~(fee > 0)
      <4>1. Complete(j, estimated)
        BY <3>1, <3>4
      <4>2. /\ RowsOK(planned', running', office')
            /\ trueUp' \in [Clients -> Nat] /\ charged' \in [Clients -> Nat]
            /\ closes' \in [Clients -> {0, 1}]
        BY <1>7, <4>1
      <4> QED BY <1>1, <1>2, <3>2, <4>2 DEF ClosesInv, BooksOK
    <3> QED BY <3>3, <3>4
  <2> QED BY <2>1, <2>2
<1> QED BY <1>5, <1>6, <1>8, <1>10 DEF CloseBooks

LEMMA FailureKeeps ==
  ASSUME ClosesInv, NEW f \in Clients \cup {Accountant}, FirmFails(f)
  PROVE  ClosesInv'
<1>1. /\ planned' = {j \in planned : ~(j.client = f /\ j.kind = "close.run")}
      /\ UNCHANGED <<office, running, books>>
  BY DEF FirmFails
<1>2. RowsOK(planned, running, office) /\ office \in BOOLEAN /\ BooksOK
  BY DEF ClosesInv
<1>3. RowsOK(planned', running, office)
  BY <1>1, <1>2, NoSuchRow
<1> QED BY <1>1, <1>2, <1>3 DEF ClosesInv, BooksOK, books

LEMMA ClosesInvariance == ClosesSpec => []ClosesInv
<1>1. ASSUME ClosesInit PROVE ClosesInv
  <2> DEFINE plan == PlanAt(FirstPlan)
  <2>1. /\ office = FALSE /\ running = {}
        /\ planned = {plan} \cup {FreshClose(c, FirstPlan + 1) : c \in Clients}
    BY <1>1 DEF ClosesInit
  <2>2. FirstPlan \in Nat /\ FirstPlan + 1 \in Nat /\ FirstPlan > 0
        /\ (FirstPlan % 2) = 0 /\ ((FirstPlan + 1) % 2) = 1
    BY MonthFacts
  <2>3. plan \in Rows /\ plan.kind = "close.plan" /\ plan.client = Accountant /\ plan.at = FirstPlan
    BY <2>2, PlanAtIsARow
  <2>4. \A c \in Clients :
          LET r == FreshClose(c, FirstPlan + 1) IN
          /\ r \in Rows /\ r.kind = "close.run" /\ r.client = c /\ r.at = FirstPlan + 1
          /\ r.due = FirstPlan + 1 /\ r.attempt = 1
    BY <2>2, FreshCloseIsARow
  <2> HIDE DEF plan
  <2>5. \A j \in planned : j \in Rows
    BY <2>1, <2>3, <2>4
  <2>6. \A j \in planned : j.kind = "close.plan" => j = plan
    BY <2>1, <2>3, <2>4
  <2>7. \A j \in planned : j.kind = "close.run" =>
          j.at = FirstPlan + 1 /\ j.due = FirstPlan + 1 /\ j.attempt = 1
    BY <2>1, <2>3, <2>4
  <2>8. \A j \in planned : j.at > 0 /\ ItsHour(j, office)
    <3> SUFFICES ASSUME NEW j \in planned PROVE j.at > 0 /\ ItsHour(j, office)
      OBVIOUS
    <3>1. j.kind \in {"close.plan", "close.run"}
      BY <2>5, RowFields
    <3>2. CASE j.kind = "close.plan"
      BY <2>1, <2>2, <2>3, <2>6, <3>2 DEF ItsHour
    <3>3. CASE j.kind = "close.run"
      BY <2>1, <2>2, <2>7, <3>3 DEF ItsHour
    <3> QED BY <3>1, <3>2, <3>3
  <2>9. \A p, q \in planned : p.kind = q.kind /\ p.client = q.client => p = q
    BY <2>1, <2>3, <2>4
  <2>10. \A j, p \in planned : j.kind = "close.run" /\ p.kind = "close.plan" => AfterAPlan(j, p)
    BY <2>3, <2>6, <2>7 DEF AfterAPlan
  <2>11. RowsOK(planned, running, office)
    BY <2>1, <2>3, <2>5, <2>8, <2>9, <2>10 DEF RowsOK
  <2>12. BooksOK
    BY <1>1 DEF ClosesInit, BooksOK
  <2> QED BY <2>1, <2>11, <2>12 DEF ClosesInv
<1>2. ClosesInv /\ [ClosesNext]_closesVars => ClosesInv'
  <2> SUFFICES ASSUME ClosesInv, [ClosesNext]_closesVars PROVE ClosesInv'
    OBVIOUS
  <2>1. CASE \E j \in running : PlanCloses(j) \/ CloseBooks(j)
    BY <2>1, PlanKeeps, CloseKeeps
  <2>2. CASE NextOpening
    <3>1. RowsOK(planned', running', office')
      BY <2>2, OpeningKeeps
    <3>2. office' \in BOOLEAN
      BY <2>2 DEF NextOpening
    <3> QED BY <2>2, <3>1, <3>2 DEF NextOpening, ClosesInv, BooksOK, books
  <2>3. ASSUME NEW c \in Clients, WorkByHand(c) \/ NoticeAudit(c) PROVE ClosesInv'
    <3>1. UNCHANGED <<office, planned, running, trueUp, charged, closes>>
      BY <2>3 DEF WorkByHand, NoticeAudit
    <3>2. byHand' \in [Clients -> Nat] /\ audited' \in [Clients -> BOOLEAN]
      <4>1. CASE WorkByHand(c)
        BY <4>1 DEF WorkByHand, ClosesInv, BooksOK
      <4>2. CASE NoticeAudit(c)
        BY <4>2 DEF NoticeAudit, ClosesInv, BooksOK
      <4> QED BY <2>3, <4>1, <4>2
    <3> QED BY <3>1, <3>2 DEF ClosesInv, BooksOK
  <2>4. ASSUME NEW f \in Clients \cup {Accountant}, FirmFails(f) PROVE ClosesInv'
    BY <2>4, FailureKeeps
  <2>5. CASE UNCHANGED closesVars
    BY <2>5 DEF closesVars, ClosesInv, BooksOK
  <2> QED BY <2>1, <2>2, <2>3, <2>4, <2>5 DEF ClosesNext, Work
<1> QED BY <1>1, <1>2, PTL DEF ClosesSpec

LEMMA DaysToThePlan == 1 % Month = 1 /\ (1 - Month) % Month = 1
  BY MonthFacts

\* The close of a month is one row, due just after a plan, that comes up within CLOSE_ATTEMPTS
\* working days: neither plan_closes, which may move it, nor close_books, which puts it off or
\* takes a day to work on it again, moves it further or writes a second.
THEOREM ClosesAreInTime == ClosesSpec => []ClosedInTime
<1>1. ASSUME ClosesInv PROVE ClosedInTime
  <2>1. RowsOK(planned, running, office)
    BY <1>1 DEF ClosesInv
  <2> SUFFICES ASSUME NEW c \in Clients, NEW p \in planned \cup running
               PROVE  /\ Cardinality(CloseJobs(c)) <= 1
                      /\ \A j \in CloseJobs(c) :
                           /\ j.at <= j.due + CloseAttempts * DayTicks
                           /\ p.kind = "close.plan" => (j.due - p.at) % Month = 1
    BY DEF ClosedInTime
  <2>2. \A j, k \in CloseJobs(c) : j = k
    BY <2>1 DEF CloseJobs, RowsOK
  <2>3. Cardinality(CloseJobs(c)) <= 1
    <3>1. CASE CloseJobs(c) = {}
      BY <3>1, FS_EmptySet
    <3>2. CASE CloseJobs(c) # {}
      <4>1. PICK j : CloseJobs(c) = {j}
        BY <2>2, <3>2
      <4>2. Cardinality({j}) = 1
        BY FS_Singleton
      <4> QED BY <4>1, <4>2
    <3> QED BY <3>1, <3>2
  <2>4. ASSUME NEW j \in CloseJobs(c) PROVE j.at <= j.due + CloseAttempts * DayTicks
    <3>1. j \in planned \cup running /\ j.kind = "close.run" /\ j \in Rows
      BY <2>1 DEF CloseJobs, RowsOK
    <3>2. PICK q \in planned \cup running : q.kind = "close.plan"
      BY <2>1 DEF RowsOK
    <3>3. AfterAPlan(j, q) /\ q \in Rows
      BY <2>1, <3>1, <3>2 DEF RowsOK
    <3>4. j.at \in Nat /\ j.due \in Int /\ j.attempt \in 1 .. CloseAttempts /\ q.at \in Nat
      BY <3>1, <3>3, RowFields
    <3> QED BY <3>3, <3>4, MonthFacts DEF AfterAPlan, DayTicks
  <2>5. ASSUME NEW j \in CloseJobs(c), p.kind = "close.plan" PROVE (j.due - p.at) % Month = 1
    <3>1. j \in planned \cup running /\ j.kind = "close.run" /\ j \in Rows /\ p \in Rows
      BY <2>1 DEF CloseJobs, RowsOK
    <3>2. AfterAPlan(j, p) /\ j.due \in Int /\ p.at \in Nat
      BY <2>1, <2>5, <3>1, RowFields DEF RowsOK
    <3>3. j.due - p.at = 1 \/ j.due - p.at = 1 - Month
      BY <3>2, MonthFacts DEF AfterAPlan
    <3> QED BY <3>3, DaysToThePlan
  <2> QED BY <2>3, <2>4, <2>5
<1> QED BY <1>1, ClosesInvariance, PTL

-----------------------------------------------------------------------------
(* The promise of Months, each step of it. *)

ClosesIn(R, c) == {j \in R : j.kind = "close.run" /\ j.client = c}

OneEach(R) == \A p, q \in R : p.kind = q.kind /\ p.client = q.client => p = q

\* what a client owes beyond the fee, from the rows and the true-ups; and who has no close
OwedFor(R, up) ==
  [c \in Clients |-> IF ClosesIn(R, c) = {} THEN 0
                     ELSE (CHOOSE j \in ClosesIn(R, c) : TRUE).rework + up[c]]

Gone(R) == {c \in Clients : ClosesIn(R, c) = {}}

SameCloses(R, R2, c) ==
  /\ \A j \in R : j.kind = "close.run" /\ j.client = c =>
       \E k \in R2 : k.kind = "close.run" /\ k.client = c /\ k.rework = j.rework
  /\ \A k \in R2 : k.kind = "close.run" /\ k.client = c =>
       \E j \in R : j.kind = "close.run" /\ j.client = c

SameOthers(R, R2, c) ==
  \A k \in R \cup R2 : k.kind = "close.run" /\ k.client # c => (k \in R <=> k \in R2)

SameElsewhere(up, up2, c) == \A d \in Clients \ {c} : up2[d] = up[d]

LEMMA OwesForTheClose ==
  ASSUME NEW R, OneEach(R), NEW up, NEW j \in R, j.kind = "close.run", j.client \in Clients
  PROVE  OwedFor(R, up)[j.client] = j.rework + up[j.client] /\ j.client \notin Gone(R)
<1>1. ClosesIn(R, j.client) = {j}
  BY DEF ClosesIn, OneEach
<1> QED BY <1>1 DEF OwedFor, Gone

LEMMA OwesNothing ==
  ASSUME NEW R, NEW up, NEW c \in Clients,
         \A j \in R : j.kind = "close.run" => j.client # c
  PROVE  OwedFor(R, up)[c] = 0 /\ c \in Gone(R)
<1>1. ClosesIn(R, c) = {}
  BY DEF ClosesIn
<1> QED BY <1>1 DEF OwedFor, Gone

\* The closes of a client are what they were.
LEMMA OwesTheSame ==
  ASSUME NEW R, NEW R2, OneEach(R), OneEach(R2), NEW up, NEW up2, NEW c \in Clients,
         up2[c] = up[c], SameCloses(R, R2, c)
  PROVE  OwedFor(R2, up2)[c] = OwedFor(R, up)[c] /\ (c \in Gone(R2) <=> c \in Gone(R))
<1>1. CASE \E j \in R : j.kind = "close.run" /\ j.client = c
  <2>1. PICK j \in R : j.kind = "close.run" /\ j.client = c
    BY <1>1
  <2>2. PICK k \in R2 : k.kind = "close.run" /\ k.client = c /\ k.rework = j.rework
    BY <2>1 DEF SameCloses
  <2>3. OwedFor(R, up)[c] = j.rework + up[c] /\ c \notin Gone(R)
    BY <2>1, OwesForTheClose
  <2>4. OwedFor(R2, up2)[c] = k.rework + up2[c] /\ c \notin Gone(R2)
    BY <2>2, OwesForTheClose
  <2> QED BY <2>2, <2>3, <2>4
<1>2. CASE ~\E j \in R : j.kind = "close.run" /\ j.client = c
  BY <1>2, OwesNothing DEF SameCloses
<1> QED BY <1>1, <1>2

Now == OwedFor(planned \cup running, trueUp)
Ended == Gone(planned \cup running)

LEMMA TheMapping ==
  /\ [c \in Clients |-> IF c \in NeverAgain THEN 0 ELSE Rework(c) + trueUp[c]] = Now
  /\ [c \in Clients |-> IF c \in NeverAgain THEN 0 ELSE Rework(c) + trueUp[c]]' = Now'
  /\ NeverAgain = Ended
  /\ NeverAgain' = Ended'
<1>1. [c \in Clients |-> IF c \in NeverAgain THEN 0 ELSE Rework(c) + trueUp[c]] = Now
  BY DEF Now, OwedFor, ClosesIn, NeverAgain, Rework, CloseJobs
<1>2. [c \in Clients |-> IF c \in NeverAgain THEN 0 ELSE Rework(c) + trueUp[c]]' = Now'
  BY DEF Now, OwedFor, ClosesIn, NeverAgain, Rework, CloseJobs
<1>3. NeverAgain = Ended
  BY DEF NeverAgain, Ended, Gone, ClosesIn, CloseJobs
<1>4. NeverAgain' = Ended'
  BY DEF NeverAgain, Ended, Gone, ClosesIn, CloseJobs
<1> QED BY <1>1, <1>2, <1>3, <1>4

LEMMA SameMonths ==
  ASSUME Now' = Now, Ended' = Ended, UNCHANGED books
  PROVE  UNCHANGED Promise!months
BY TheMapping DEF Promise!months, books

\* Only the rows of one client change.
LEMMA OneClientChanges ==
  ASSUME NEW R, NEW R2, OneEach(R), OneEach(R2), NEW up, NEW up2, NEW c \in Clients,
         SameElsewhere(up, up2, c), SameOthers(R, R2, c)
  PROVE  /\ OwedFor(R2, up2) = [OwedFor(R, up) EXCEPT ![c] = OwedFor(R2, up2)[c]]
         /\ Gone(R2) \ {c} = Gone(R) \ {c}
<1>1. ASSUME NEW d \in Clients \ {c}
      PROVE  OwedFor(R2, up2)[d] = OwedFor(R, up)[d] /\ (d \in Gone(R2) <=> d \in Gone(R))
  <2>1. SameCloses(R, R2, d)
    BY DEF SameOthers, SameCloses
  <2> QED BY <2>1, OwesTheSame DEF SameElsewhere
<1>2. OwedFor(R2, up2) = [d \in Clients |-> OwedFor(R2, up2)[d]]
      /\ OwedFor(R, up) = [d \in Clients |-> OwedFor(R, up)[d]]
  BY DEF OwedFor
<1>3. Gone(R2) \subseteq Clients /\ Gone(R) \subseteq Clients
  BY DEF Gone
<1> DEFINE n == OwedFor(R2, up2)
           o == OwedFor(R, up)
<1> HIDE DEF n, o
<1>4. n = [o EXCEPT ![c] = n[c]]
  BY <1>1, <1>2 DEF n, o
<1> QED BY <1>1, <1>3, <1>4 DEF n, o

\* One row of a client gives way to another.
LEMMA TheCloseOfOne ==
  ASSUME ClosesInv, ClosesInv', NEW firm \in Clients,
         NEW old \in planned \cup running, old.kind = "close.run", old.client = firm,
         NEW row \in planned' \cup running', row.kind = "close.run", row.client = firm,
         SameOthers(planned \cup running, planned' \cup running', firm),
         SameElsewhere(trueUp, trueUp', firm)
  PROVE  /\ Now[firm] = old.rework + trueUp[firm] /\ firm \notin Ended
         /\ Now' = [Now EXCEPT ![firm] = row.rework + trueUp'[firm]]
         /\ Ended' = Ended
<1> DEFINE before == planned \cup running
           after == planned' \cup running'
           was == trueUp
           is == trueUp'
<1>1. OneEach(before) /\ OneEach(after)
  BY DEF ClosesInv, RowsOK, OneEach
<1>2. SameOthers(before, after, firm) /\ SameElsewhere(was, is, firm)
  OBVIOUS
<1>3. old \in before /\ row \in after
  OBVIOUS
<1>4. Now = OwedFor(before, was) /\ Ended = Gone(before)
  BY DEF Now, Ended
<1>5. Now' = OwedFor(after, is) /\ Ended' = Gone(after)
  BY DEF Now, Ended
<1> HIDE DEF before, after, was, is
<1>6. /\ OwedFor(after, is) = [OwedFor(before, was) EXCEPT ![firm] = OwedFor(after, is)[firm]]
      /\ Gone(after) \ {firm} = Gone(before) \ {firm}
  BY <1>1, <1>2, OneClientChanges
<1>7. OwedFor(before, was)[firm] = old.rework + was[firm] /\ firm \notin Gone(before)
  BY <1>1, <1>3, OwesForTheClose
<1>8. OwedFor(after, is)[firm] = row.rework + is[firm] /\ firm \notin Gone(after)
  BY <1>1, <1>3, OwesForTheClose
<1>9. Now' = [Now EXCEPT ![firm] = row.rework + is[firm]]
  BY <1>4, <1>5, <1>6, <1>8
<1>10. Ended' = Ended
  BY <1>4, <1>5, <1>6, <1>7, <1>8
<1> QED BY <1>4, <1>7, <1>9, <1>10 DEF was, is

\* A client whose last row is gone.
LEMMA NoMoreOfOne ==
  ASSUME ClosesInv, ClosesInv', NEW c \in Clients, UNCHANGED trueUp,
         \A k \in planned' \cup running' : k.kind = "close.run" => k.client # c,
         SameOthers(planned \cup running, planned' \cup running', c)
  PROVE  /\ Ended' = Ended \cup {c}
         /\ Now' = [d \in Clients |-> IF d \in {c} THEN 0 ELSE Now[d]]
<1> DEFINE before == planned \cup running
           after == planned' \cup running'
<1>1. OneEach(before) /\ OneEach(after)
  BY DEF ClosesInv, RowsOK, OneEach
<1>2. SameOthers(before, after, c) /\ SameElsewhere(trueUp, trueUp, c)
  BY DEF SameElsewhere
<1>3. \A k \in after : k.kind = "close.run" => k.client # c
  OBVIOUS
<1>4. Now = OwedFor(before, trueUp) /\ Ended = Gone(before)
  BY DEF Now, Ended
<1>5. Now' = OwedFor(after, trueUp) /\ Ended' = Gone(after)
  BY DEF Now, Ended
<1> HIDE DEF before, after
<1>6. /\ OwedFor(after, trueUp) = [OwedFor(before, trueUp) EXCEPT ![c] = OwedFor(after, trueUp)[c]]
      /\ Gone(after) \ {c} = Gone(before) \ {c}
  BY <1>1, <1>2, OneClientChanges
<1>7. OwedFor(after, trueUp)[c] = 0 /\ c \in Gone(after)
  BY <1>3, OwesNothing
<1>8. Ended' = Ended \cup {c}
  BY <1>4, <1>5, <1>6, <1>7
<1>9. Now = [d \in Clients |-> Now[d]]
  BY DEF Now, OwedFor
<1> DEFINE m == Now
           n == Now'
<1>10. n = [m EXCEPT ![c] = 0]
  BY <1>4, <1>5, <1>6, <1>7
<1>11. m = [d \in Clients |-> m[d]]
  BY <1>9
<1> HIDE DEF m, n
<1>12. n = [d \in Clients |-> IF d \in {c} THEN 0 ELSE m[d]]
  BY <1>10, <1>11
<1> QED BY <1>8, <1>12 DEF m, n

\* Rows that are only put off or moved.
LEMMA SameClosesSameMonths ==
  ASSUME ClosesInv, ClosesInv', UNCHANGED books,
         \A j \in planned \cup running : j.kind = "close.run" =>
           \E k \in planned' \cup running' :
             k.kind = "close.run" /\ k.client = j.client /\ k.rework = j.rework,
         \A k \in planned' \cup running' : k.kind = "close.run" =>
           \E j \in planned \cup running : j.kind = "close.run" /\ j.client = k.client
  PROVE  UNCHANGED Promise!months
<1> DEFINE before == planned \cup running
           after == planned' \cup running'
<1>1. OneEach(before) /\ OneEach(after)
  BY DEF ClosesInv, RowsOK, OneEach
<1>2. /\ \A j \in before : j.kind = "close.run" =>
           \E k \in after : k.kind = "close.run" /\ k.client = j.client /\ k.rework = j.rework
      /\ \A k \in after : k.kind = "close.run" =>
           \E j \in before : j.kind = "close.run" /\ j.client = k.client
  OBVIOUS
<1>3. Now = OwedFor(before, trueUp) /\ Ended = Gone(before)
  BY DEF Now, Ended
<1>4. Now' = OwedFor(after, trueUp) /\ Ended' = Gone(after)
  BY DEF Now, Ended, books
<1> HIDE DEF before, after
<1>5. ASSUME NEW c \in Clients
      PROVE  OwedFor(after, trueUp)[c] = OwedFor(before, trueUp)[c] /\ (c \in Gone(after) <=> c \in Gone(before))
  <2>1. SameCloses(before, after, c)
    BY <1>2 DEF SameCloses
  <2> QED BY <1>1, <2>1, OwesTheSame
<1>6. OwedFor(after, trueUp) = [c \in Clients |-> OwedFor(after, trueUp)[c]]
      /\ OwedFor(before, trueUp) = [c \in Clients |-> OwedFor(before, trueUp)[c]]
      /\ Gone(after) \subseteq Clients /\ Gone(before) \subseteq Clients
  BY DEF OwedFor, Gone
<1> DEFINE n == OwedFor(after, trueUp)
           m == OwedFor(before, trueUp)
<1> HIDE DEF n, m
<1>7. n = m
  BY <1>5, <1>6 DEF n, m
<1>8. Gone(after) = Gone(before)
  BY <1>5, <1>6
<1> QED BY <1>3, <1>4, <1>7, <1>8, SameMonths DEF n, m

\* A step of close_books is one of the steps of Months, or none of them.
LEMMA CloseKeepsThePromise ==
  ASSUME ClosesInv, ClosesInv', NEW j \in running, CloseBooks(j)
  PROVE  [Promise!Next]_(Promise!months)
<1> DEFINE firm == j.client
<1>1. /\ Run(j, "close.run") /\ j.kind = "close.run" /\ running' = running \ {j}
      /\ office' = office
  BY DEF CloseBooks, Run
<1>2. /\ j \in Rows /\ office /\ BooksOK /\ firm \in Clients /\ j.rework \in Nat
      /\ j.attempt \in 1 .. CloseAttempts /\ j.reconciled \in BOOLEAN /\ j \notin planned
      /\ RowsOK(planned, running, office)
  BY <1>1, RowFields DEF ClosesInv, RowsOK
<1>3. ASSUME Forgotten(j) PROVE Promise!End({firm})
  <2>1. planned' = planned /\ UNCHANGED books
    BY <1>3 DEF Forgotten
  <2>2. \A k \in planned' \cup running' : k.kind = "close.run" => k.client # firm
    BY <1>1, <1>2, <2>1 DEF RowsOK
  <2>3. SameOthers(planned \cup running, planned' \cup running', firm)
    BY <1>1, <2>1 DEF SameOthers
  <2>4. UNCHANGED trueUp
    BY <2>1 DEF books
  <2>5. Ended' = Ended \cup {firm}
        /\ Now' = [d \in Clients |-> IF d \in {firm} THEN 0 ELSE Now[d]]
    BY <1>2, <2>2, <2>3, <2>4, NoMoreOfOne
  <2> QED BY <2>1, <2>5, TheMapping DEF Promise!End, books
<1>4. ASSUME PutOffAgain(j) PROVE UNCHANGED Promise!months
  <2> DEFINE r == Later(j, j.reconciled, j.rework)
  <2>1. planned' = planned \cup {r} /\ UNCHANGED books /\ j.attempt < CloseAttempts
    BY <1>4 DEF PutOffAgain
  <2>2. r.kind = "close.run" /\ r.client = firm /\ r.rework = j.rework
    BY <1>1, <1>2, <2>1, LaterFields
  <2> HIDE DEF r
  <2> QED BY <1>1, <2>1, <2>2, SameClosesSameMonths
<1>5. ASSUME NEW estimated \in BOOLEAN, Complete(j, estimated),
             \/ UNCHANGED <<byHand, audited>>
             \/ ~audited[firm] /\ Promise!LookInto(firm)
      PROVE  Promise!Close(firm)
  <2> DEFINE r == FreshClose(firm, j.due + Month)
             late == IF estimated THEN TrueUp ELSE 0
  <2>1. /\ planned' = planned \cup {r}
        /\ charged' = [charged EXCEPT ![firm] = j.rework + trueUp[firm]]
        /\ trueUp' = [trueUp EXCEPT ![firm] = late]
        /\ closes' = [closes EXCEPT ![firm] = 1 - @]
    BY <1>5 DEF Complete
  <2>2. r.kind = "close.run" /\ r.client = firm /\ r.rework = 0
    BY <1>1, NextMonthsClose
  <2>3. late \in {0, TrueUp} /\ late \in Nat
    BY ClosesAssumption
  <2> HIDE DEF r, late
  <2>4. /\ SameOthers(planned \cup running, planned' \cup running', firm)
        /\ SameElsewhere(trueUp, trueUp', firm)
        /\ trueUp'[firm] = late /\ r \in planned' \cup running'
    BY <1>1, <1>2, <2>1, <2>2 DEF SameOthers, SameElsewhere, BooksOK
  <2>5. /\ Now[firm] = j.rework + trueUp[firm] /\ firm \notin Ended
        /\ Now' = [Now EXCEPT ![firm] = r.rework + trueUp'[firm]]
        /\ Ended' = Ended
    BY <1>1, <1>2, <2>2, <2>4, TheCloseOfOne
  <2>6. r.rework + trueUp'[firm] = late
    BY <2>2, <2>3, <2>4
  <2>7. Now' = [Now EXCEPT ![firm] = late]
    BY <2>5, <2>6
  <2>8. charged' = [charged EXCEPT ![firm] = Now[firm]]
    BY <2>1, <2>5
  <2> HIDE DEF firm
  <2> QED BY <1>5, <2>1, <2>3, <2>5, <2>7, <2>8, TheMapping DEF Promise!Close
<1>6. ASSUME NEW fee, fee > 0, fee \in Nat, Reconcile(j, fee), j.attempt < CloseAttempts,
             planned' = planned \cup {Later(j, TRUE, j.rework + fee)},
             UNCHANGED <<trueUp, charged, closes>>
      PROVE  Promise!Rework(firm)
  <2> DEFINE r == Later(j, TRUE, j.rework + fee)
             noticed == IF audited[firm] THEN AuditFee ELSE 0
  <2>1. j.rework + fee \in Nat
    BY <1>2, <1>6
  <2>2. r.kind = "close.run" /\ r.client = firm /\ r.rework = j.rework + fee
    BY <1>1, <1>2, <1>6, <2>1, LaterFields
  <2>3. PICK items \in 0 .. byHand[firm] : fee = items * ReworkFee + noticed
    BY <1>6 DEF Reconcile
  <2>4. Promise!LookInto(firm)
    BY <1>6 DEF Reconcile, Promise!LookInto
  <2> HIDE DEF r
  <2>5. /\ SameOthers(planned \cup running, planned' \cup running', firm)
        /\ SameElsewhere(trueUp, trueUp', firm)
        /\ trueUp' = trueUp /\ r \in planned' \cup running'
    BY <1>1, <1>6, <2>2 DEF SameOthers, SameElsewhere, r
  <2>6. /\ Now[firm] = j.rework + trueUp[firm] /\ firm \notin Ended
        /\ Now' = [Now EXCEPT ![firm] = r.rework + trueUp[firm]]
        /\ Ended' = Ended
    BY <1>1, <1>2, <2>2, <2>5, TheCloseOfOne
  <2>7. /\ trueUp[firm] \in Nat /\ items \in Nat /\ ReworkFee \in Nat /\ noticed \in Nat
        /\ items * ReworkFee \in Nat
    BY <1>2, <2>3, ClosesAssumption DEF BooksOK
  <2>8. r.rework + trueUp[firm] = Now[firm] + items * ReworkFee + noticed
    BY <1>2, <1>6, <2>2, <2>3, <2>6, <2>7
  <2>9. Now' = [Now EXCEPT ![firm] = @ + items * ReworkFee + noticed]
    BY <2>6, <2>8
  <2> QED BY <1>6, <2>3, <2>4, <2>6, <2>9, TheMapping DEF Promise!Rework
<1>7. ASSUME NEW estimated \in BOOLEAN, SignOff(j, estimated)
      PROVE  Promise!Rework(firm) \/ Promise!Close(firm)
  <2>1. CASE ~(j.attempt < CloseAttempts /\ ~j.reconciled)
    BY <1>5, <1>7, <2>1 DEF SignOff
  <2>2. CASE j.attempt < CloseAttempts /\ ~j.reconciled
    <3>1. PICK fee \in Fees :
            /\ Reconcile(j, fee)
            /\ IF fee > 0
                 THEN /\ planned' = planned \cup {Later(j, TRUE, j.rework + fee)}
                      /\ UNCHANGED <<trueUp, charged, closes>>
                 ELSE Complete(j, estimated)
      BY <1>7, <2>2 DEF SignOff
    <3>2. PICK items \in 0 .. byHand[firm] :
            fee = items * ReworkFee + IF audited[firm] THEN AuditFee ELSE 0
      BY <3>1 DEF Reconcile
    <3> DEFINE noticed == IF audited[firm] THEN AuditFee ELSE 0
    <3>3. /\ items \in Nat /\ ReworkFee \in Nat /\ noticed \in Nat /\ items * ReworkFee \in Nat
          /\ audited[firm] => noticed > 0
      BY <1>2, <3>2, ClosesAssumption DEF BooksOK
    <3>4. fee = items * ReworkFee + noticed
      BY <3>2
    <3> HIDE DEF noticed
    <3>5. fee \in Nat /\ (audited[firm] => fee > 0)
      BY <3>3, <3>4
    <3>6. CASE fee > 0
      BY <1>6, <2>2, <3>1, <3>5, <3>6
    <3>7. CASE ~(fee > 0)
      <4>1. Complete(j, estimated) /\ ~audited[firm]
        BY <3>1, <3>5, <3>7
      <4>2. Promise!LookInto(firm)
        BY <3>1 DEF Reconcile, Promise!LookInto
      <4> QED BY <1>5, <4>1, <4>2
    <3> QED BY <3>6, <3>7
  <2> QED BY <2>1, <2>2
<1>8. \/ Forgotten(j) \/ PutOffAgain(j)
      \/ \E estimated \in BOOLEAN : SignOff(j, estimated)
      \/ Complete(j, FALSE) /\ UNCHANGED <<byHand, audited>>
  BY DEF CloseBooks
<1>9. {firm} \in SUBSET Clients
  BY <1>2
<1> HIDE DEF firm
<1>10. CASE Forgotten(j)
  BY <1>3, <1>9, <1>10 DEF Promise!Next
<1>11. CASE PutOffAgain(j)
  BY <1>4, <1>11
<1>12. CASE \E estimated \in BOOLEAN : SignOff(j, estimated)
  BY <1>2, <1>7, <1>12 DEF Promise!Next
<1>13. CASE Complete(j, FALSE) /\ UNCHANGED <<byHand, audited>>
  BY <1>2, <1>5, <1>13 DEF Promise!Next
<1> QED BY <1>8, <1>10, <1>11, <1>12, <1>13

LEMMA FailureKeepsThePromise ==
  ASSUME ClosesInv, ClosesInv', NEW f \in Clients \cup {Accountant}, FirmFails(f)
  PROVE  [Promise!Next]_(Promise!months)
<1>1. /\ planned' = {j \in planned : ~(j.client = f /\ j.kind = "close.run")}
      /\ running' = running /\ UNCHANGED books
  BY DEF FirmFails
<1>2. RowsOK(planned, running, office)
  BY DEF ClosesInv
<1>3. CASE f \in Clients /\ ~\E j \in running : j.kind = "close.run" /\ j.client = f
  <2>1. \A k \in planned' \cup running' : k.kind = "close.run" => k.client # f
    BY <1>1, <1>3
  <2>2. SameOthers(planned \cup running, planned' \cup running', f)
    BY <1>1 DEF SameOthers
  <2>3. UNCHANGED trueUp
    BY <1>1 DEF books
  <2>4. Ended' = Ended \cup {f}
        /\ Now' = [d \in Clients |-> IF d \in {f} THEN 0 ELSE Now[d]]
    BY <1>3, <2>1, <2>2, <2>3, NoMoreOfOne
  <2>5. Promise!End({f})
    BY <1>1, <2>4, TheMapping DEF Promise!End, books
  <2>6. {f} \in SUBSET Clients
    BY <1>3
  <2> QED BY <2>5, <2>6 DEF Promise!Next
<1>4. CASE ~(f \in Clients /\ ~\E j \in running : j.kind = "close.run" /\ j.client = f)
  <2>1. ASSUME NEW k \in planned PROVE ~(k.client = f /\ k.kind = "close.run")
    <3>1. CASE f \in Clients
      <4>1. PICK j \in running : j.kind = "close.run" /\ j.client = f
        BY <1>4, <3>1
      <4> QED BY <1>2, <4>1 DEF RowsOK
    <3>2. CASE f \notin Clients
      BY <1>2, <3>2, RowFields DEF RowsOK
    <3> QED BY <3>1, <3>2
  <2>2. planned' = planned
    BY <1>1, <2>1
  <2> QED BY <1>1, <2>2, SameClosesSameMonths
<1> QED BY <1>3, <1>4

LEMMA PlanKeepsThePromise ==
  ASSUME ClosesInv, ClosesInv', NEW j \in running, PlanCloses(j)
  PROVE  UNCHANGED Promise!months
<1> DEFINE again == PlanAt(Month)
<1>1. /\ j.kind = "close.plan" /\ running' = running \ {j} /\ UNCHANGED books
      /\ \/ planned' = planned \cup {again}
         \/ \E k \in DueNext : planned' = PutOff(k) \cup {again}
  BY DEF PlanCloses, Run
<1>2. again.kind = "close.plan"
  BY PlanAtIsARow, MonthFacts
<1> HIDE DEF again
<1>3. CASE planned' = planned \cup {again}
  BY <1>1, <1>2, <1>3, SameClosesSameMonths
<1>4. ASSUME NEW k \in DueNext, planned' = PutOff(k) \cup {again}
      PROVE  UNCHANGED Promise!months
  <2> DEFINE r == [k EXCEPT !.at = Tomorrow]
  <2>1. k \in planned /\ k \in Rows /\ k.kind = "close.run"
    BY DEF DueNext, ClosesInv, RowsOK
  <2>2. r.kind = "close.run" /\ r.client = k.client /\ r.rework = k.rework
    BY <2>1 DEF Rows
  <2>3. planned' = (planned \ {k}) \cup {r} \cup {again}
    BY <1>4 DEF PutOff
  <2> HIDE DEF r
  <2>4. \A i \in planned \cup running : i.kind = "close.run" =>
          \E l \in planned' \cup running' :
            l.kind = "close.run" /\ l.client = i.client /\ l.rework = i.rework
    <3> SUFFICES ASSUME NEW i \in planned \cup running, i.kind = "close.run"
                 PROVE  \E l \in planned' \cup running' :
                          l.kind = "close.run" /\ l.client = i.client /\ l.rework = i.rework
      OBVIOUS
    <3>1. CASE i = k
      BY <2>2, <2>3, <3>1
    <3>2. CASE i # k
      BY <1>1, <2>3, <3>2
    <3> QED BY <3>1, <3>2
  <2>5. \A l \in planned' \cup running' : l.kind = "close.run" =>
          \E i \in planned \cup running : i.kind = "close.run" /\ i.client = l.client
    BY <1>1, <1>2, <2>1, <2>2, <2>3
  <2> QED BY <1>1, <2>4, <2>5, SameClosesSameMonths
<1> QED BY <1>1, <1>3, <1>4

LEMMA OpeningKeepsThePromise ==
  ASSUME ClosesInv, ClosesInv', NextOpening
  PROVE  UNCHANGED Promise!months
<1> DEFINE moved == {Moved(j) : j \in planned}
<1>1. running = {} /\ planned' \cup running' = moved /\ UNCHANGED books
  BY DEF NextOpening, Moved
<1>2. \A i \in planned : /\ Moved(i).kind = i.kind /\ Moved(i).client = i.client
                         /\ Moved(i).rework = i.rework
  BY MovedFields DEF ClosesInv, RowsOK
<1> QED BY <1>1, <1>2, SameClosesSameMonths

\* The queue of closes is the promise of Months, step by step: whatever close_books,
\* plan_closes, the paper work of the firms and their failing do to the rows, a client's rework
\* and true-up go on the bill of one close, and no step brings back a client whose rows are gone.
\* That the months go on for ever is left to the runs.
THEOREM KeepsThePromise == ClosesSpec => Promise!Init /\ [][Promise!Next]_(Promise!months)
<1>1. ASSUME ClosesInit, ClosesInv PROVE Promise!Init
  <2>1. /\ byHand = [c \in Clients |-> 0] /\ audited = [c \in Clients |-> FALSE]
        /\ charged = [c \in Clients |-> 0] /\ closes = [c \in Clients |-> 0]
        /\ trueUp = [c \in Clients |-> 0] /\ running = {}
        /\ planned = {PlanAt(FirstPlan)} \cup {FreshClose(c, FirstPlan + 1) : c \in Clients}
    BY <1>1 DEF ClosesInit
  <2> DEFINE rows == planned \cup running
  <2>2. OneEach(rows)
    BY <1>1 DEF ClosesInv, RowsOK, OneEach
  <2>3. ASSUME NEW c \in Clients PROVE OwedFor(rows, trueUp)[c] = 0
    <3> DEFINE fresh == FreshClose(c, FirstPlan + 1)
    <3>1. fresh \in rows /\ fresh.kind = "close.run" /\ fresh.client = c /\ fresh.rework = 0
      BY <2>1, MonthFacts, FreshCloseIsARow
    <3> HIDE DEF fresh, rows
    <3>2. OwedFor(rows, trueUp)[fresh.client] = fresh.rework + trueUp[fresh.client]
      BY <2>2, <3>1, OwesForTheClose
    <3> QED BY <2>1, <3>1, <3>2
  <2>4. Now = OwedFor(rows, trueUp)
    BY DEF Now
  <2> HIDE DEF rows
  <2>5. OwedFor(rows, trueUp) = [c \in Clients |-> OwedFor(rows, trueUp)[c]]
    BY DEF OwedFor
  <2>6. Now = [c \in Clients |-> 0]
    BY <2>3, <2>4, <2>5
  <2>7. Ended \in SUBSET Clients
    BY DEF Ended, Gone
  <2> QED BY <2>1, <2>6, <2>7, TheMapping DEF Promise!Init
<1>2. ASSUME ClosesInv, ClosesInv', [ClosesNext]_closesVars
      PROVE  [Promise!Next]_(Promise!months)
  <2>1. CASE \E j \in running : PlanCloses(j) \/ CloseBooks(j)
    BY <1>2, <2>1, PlanKeepsThePromise, CloseKeepsThePromise
  <2>2. CASE NextOpening
    BY <1>2, <2>2, OpeningKeepsThePromise
  <2>3. ASSUME UNCHANGED <<planned, running, trueUp>> PROVE Now' = Now /\ Ended' = Ended
    BY <2>3 DEF Now, Ended
  <2>4. ASSUME NEW c \in Clients, WorkByHand(c) PROVE Promise!WorkByHand
    <3>1. byHand \in [Clients -> Nat] /\ byHand' \in [Clients -> Nat]
      BY <1>2 DEF ClosesInv, BooksOK
    <3>2. \A d \in Clients : byHand[d] <= byHand'[d]
      BY <2>4, <3>1 DEF WorkByHand
    <3>3. UNCHANGED <<planned, running, audited, trueUp, charged, closes>>
      BY <2>4 DEF WorkByHand
    <3> QED BY <2>3, <3>1, <3>2, <3>3, TheMapping DEF Promise!WorkByHand
  <2>5. ASSUME NEW c \in Clients, NoticeAudit(c) PROVE Promise!Audit(c)
    BY <2>3, <2>5, TheMapping DEF NoticeAudit, Promise!Audit
  <2>6. ASSUME NEW f \in Clients \cup {Accountant}, FirmFails(f)
        PROVE  [Promise!Next]_(Promise!months)
    BY <1>2, <2>6, FailureKeepsThePromise
  <2>7. CASE UNCHANGED closesVars
    BY <2>3, <2>7, SameMonths DEF closesVars, books
  <2>8. CASE \E c \in Clients : WorkByHand(c) \/ NoticeAudit(c)
    BY <2>4, <2>5, <2>8 DEF Promise!Next
  <2> QED BY <1>2, <2>1, <2>2, <2>6, <2>7, <2>8 DEF ClosesNext, Work
<1> QED BY <1>1, <1>2, ClosesInvariance, PTL DEF ClosesSpec

(***************************************************************************)
(* Talk.                                                                   *)
(***************************************************************************)
\* In a line of matters, from the first conversation to the one it led to, only news comes back.
LineOK(s) ==
  /\ \E S : s \in Seq(S)
  /\ \A i, j \in DOMAIN s : i # j /\ s[i] = s[j] => s[i][1] = "news"

\* The line of the last episode, and the line that each conversation still to come would go on with.
TalkInv ==
  /\ LineOK(line)
  /\ \E S : owing \in Seq(S) /\ \A o \in S : LineOK(o.line)

\* A line may go on with a matter that is not in it yet, or with news.
LEMMA LineGoesOn ==
  ASSUME NEW s, LineOK(s), NEW m, m \notin Range(s) \/ m[1] = "news"
  PROVE  LineOK(Append(s, m))
<1>1. PICK S : s \in Seq(S)
  BY DEF LineOK
<1> DEFINE T == S \cup {m}
           t == Append(s, m)
<1>2. s \in Seq(T) /\ m \in T
  <2>1. S \subseteq T
    OBVIOUS
  <2>2. Len(s) \in Nat /\ s \in [1 .. Len(s) -> S]
    BY <1>1
  <2>3. s \in [1 .. Len(s) -> T]
    BY <2>1, <2>2
  <2> QED
    BY <2>2, <2>3
<1> HIDE DEF T
<1>3. /\ t \in Seq(T) /\ Len(s) \in Nat
      /\ DOMAIN s = 1 .. Len(s) /\ DOMAIN t = 1 .. (Len(s) + 1)
      /\ \A i \in 1 .. Len(s) : t[i] = s[i]
      /\ t[Len(s) + 1] = m
  BY <1>2
<1> HIDE DEF t
<1>4. \A i \in 1 .. Len(s) : s[i] \in Range(s)
  BY <1>3 DEF Range
<1>5. ASSUME NEW i \in DOMAIN t, NEW j \in DOMAIN t, i # j, t[i] = t[j]
      PROVE  t[i][1] = "news"
  <2>1. CASE i \in 1 .. Len(s) /\ j \in 1 .. Len(s)
    BY <1>3, <1>5, <2>1 DEF LineOK
  <2>2. CASE i = Len(s) + 1 /\ j \in 1 .. Len(s)
    BY <1>3, <1>4, <1>5, <2>2
  <2>3. CASE i \in 1 .. Len(s) /\ j = Len(s) + 1
    BY <1>3, <1>4, <1>5, <2>3
  <2>4. i \in 1 .. Len(s) \/ i = Len(s) + 1
    BY <1>3
  <2>5. j \in 1 .. Len(s) \/ j = Len(s) + 1
    BY <1>3
  <2> QED
    BY <1>5, <2>1, <2>2, <2>3, <2>4, <2>5
<1> QED
  BY <1>3, <1>5 DEF LineOK, t

\* What an episode leaves to be opened goes on with what it was about.
LEMMA WhatItLeaves ==
  ASSUME NEW seats, NEW left, NEW speakers, NEW matters, NEW depth
  PROVE  \/ Leaves(seats, left, speakers, matters, depth) = <<>>
         \/ \E a, b : /\ Leaves(seats, left, speakers, matters, depth) = <<a, b>>
                      /\ a.line = matters /\ b.line = matters
<1> DEFINE telling == [t \in speakers |->
                         LET f == MostTellable(t, seats \ {t})
                         IN [fact |-> f, missing |-> {p \in seats : ~Knows(p, f)}]]
           a == [kind |-> "aside", seats |-> seats, left |-> left, telling |-> telling,
                 line |-> matters, depth |-> depth]
           b == [kind |-> "carry", seats |-> seats, left |-> left, telling |-> telling,
                 line |-> matters, depth |-> depth]
<1>1. Leaves(seats, left, speakers, matters, depth) = IF depth < MaxDepth THEN <<a, b>> ELSE <<>>
  BY Zenon DEF Leaves
<1> HIDE DEF telling
<1>2. a.line = matters /\ b.line = matters
  OBVIOUS
<1> HIDE DEF a, b
<1> QED
  BY <1>1, <1>2

\* An episode adds what it is about to the line it came from.
LEMMA HoldKeeps ==
  ASSUME NEW stake, NEW group, NEW ancestors, NEW depth, NEW others, NEW S,
         Hold(stake, group, ancestors, depth, others),
         LineOK(ancestors), stake.about \notin Range(ancestors) \/ stake.about[1] = "news",
         others \in Seq(S), \A o \in S : LineOK(o.line)
  PROVE  TalkInv'
<1> DEFINE matters == Append(ancestors, stake.about)
           seats == Range(group)
<1>1. PICK left, speakers :
        /\ line' = matters
        /\ owing' = Leaves(seats, left, speakers, matters, depth) \o others
  BY DEF Hold
<1>2. LineOK(matters)
  BY LineGoesOn
<1> HIDE DEF matters
<1>3. CASE Leaves(seats, left, speakers, matters, depth) = <<>>
  <2>1. owing' = others
    BY <1>1, <1>3
  <2> QED
    BY <1>1, <1>2, <2>1 DEF TalkInv
<1>4. CASE \E a, b : /\ Leaves(seats, left, speakers, matters, depth) = <<a, b>>
                     /\ a.line = matters /\ b.line = matters
  <2>1. PICK a, b : /\ Leaves(seats, left, speakers, matters, depth) = <<a, b>>
                    /\ a.line = matters /\ b.line = matters
    BY <1>4
  <2> DEFINE T == S \cup {a, b}
  <2>2. others \in Seq(T) /\ <<a, b>> \in Seq(T)
    <3>1. Len(others) \in Nat /\ others \in [1 .. Len(others) -> S]
      OBVIOUS
    <3>2. others \in [1 .. Len(others) -> T]
      BY <3>1
    <3> QED
      BY <3>1, <3>2
  <2>3. \A o \in T : LineOK(o.line)
    BY <1>2, <2>1
  <2> HIDE DEF T
  <2>4. owing' \in Seq(T)
    BY <1>1, <2>1, <2>2
  <2> QED
    BY <1>1, <1>2, <2>3, <2>4 DEF TalkInv
<1> QED
  BY <1>3, <1>4, WhatItLeaves

\* A stake that is read again is about the same thing.
LEMMA StillAboutIt ==
  ASSUME NEW stake, NEW group
  PROVE  Restate(stake, group).about = stake.about
<1> DEFINE again == CASE stake.about[1] = "outage"  -> OutageStake(group)
                      [] stake.about[1] = "invoice" -> InvoiceStake(group)
                      [] stake.about[1] = "news"    -> NewsStake(group)
<1>1. Restate(stake, group) = IF again.about = stake.about THEN again ELSE stake
  BY Zenon DEF Restate
<1> HIDE DEF again
<1> QED
  BY <1>1

\* A pair's matter, if it has one, is another than those before.
LEMMA AnotherMatter ==
  ASSUME NEW pair, NEW matters, MatterOf(pair, matters) # Nothing
  PROVE  MatterOf(pair, matters).about \notin Range(matters)
<1> DEFINE another(s) == s # Nothing /\ s.about \notin Held(matters)
           out == OutageStake(pair)
           bill == InvoiceStake(pair)
<1>1. MatterOf(pair, matters) = IF another(out) THEN out ELSE IF another(bill) THEN bill ELSE Nothing
  BY Zenon DEF MatterOf
<1> HIDE DEF out, bill
<1> QED
  BY <1>1 DEF Held

\* A set of natural numbers has a least member, a set of pairs of them a first one.
LEMMA LeastOf ==
  ASSUME NEW S, S \subseteq Nat, S # {}
  PROVE  \E x \in S : \A y \in S : x <= y
<1>1. PICK x \in S : \A y \in S : ~(<<y, x>> \in OpToRel(<, Nat))
  BY NatLessThanWellFounded, WFMin, Zenon
<1>2. \A y \in S : ~(y < x)
  BY <1>1 DEF OpToRel
<1> QED
  BY <1>2

LEMMA FirstPair ==
  ASSUME NEW C, C # {}, C \subseteq Nat \X Nat
  PROVE  \E c \in C : \A d \in C : c[1] < d[1] \/ (c[1] = d[1] /\ c[2] <= d[2])
<1> DEFINE A == {c[1] : c \in C}
<1>1. A \subseteq Nat /\ A # {}
  OBVIOUS
<1>2. PICK a \in A : \A x \in A : a <= x
  BY <1>1, LeastOf
<1> DEFINE B == {b \in Nat : <<a, b>> \in C}
<1>3. B \subseteq Nat /\ B # {}
  <2>1. PICK c \in C : c[1] = a
    BY <1>2
  <2>2. c = <<a, c[2]>> /\ c[2] \in Nat
    BY <2>1
  <2>3. c[2] \in B
    BY <2>2
  <2> QED
    BY <2>3
<1>4. PICK b \in B : \A y \in B : b <= y
  BY <1>3, LeastOf
<1> DEFINE first == <<a, b>>
<1>5. first \in C /\ first[1] = a /\ first[2] = b /\ a \in Nat /\ b \in Nat
  BY <1>1, <1>2, <1>4
<1>6. ASSUME NEW d \in C
      PROVE  a < d[1] \/ (a = d[1] /\ b <= d[2])
  <2>1. d[1] \in A /\ d[1] \in Nat /\ d[2] \in Nat /\ d = <<d[1], d[2]>>
    OBVIOUS
  <2>2. a <= d[1]
    BY <1>2, <2>1
  <2>3. a = d[1] => b <= d[2]
    BY <1>4, <2>1
  <2> QED
    BY <1>5, <2>1, <2>2, <2>3
<1> HIDE DEF first
<1> QED
  BY <1>5, <1>6

LEMMA AsideKeeps ==
  ASSUME TalkInv, owing # <<>>, TakeAside(Head(owing))
  PROVE  TalkInv'
<1> DEFINE o == Head(owing)
           stayed == {p \in People : p \in o.seats \ o.left}
           couples == {c \in stayed \X stayed : c[1] < c[2] /\ MatterOf(c, o.line) # Nothing}
           pair == CHOOSE c \in couples : \A d \in couples :
                     c[1] < d[1] \/ (c[1] = d[1] /\ c[2] <= d[2])
           stake == MatterOf(pair, o.line)
           group == Seated(pair, {p \in stayed \ Range(pair) : Joins(stake, p)})
<1>1. PICK S : owing \in Seq(S) /\ \A p \in S : LineOK(p.line)
  BY DEF TalkInv
<1>2. o \in S /\ Tail(owing) \in Seq(S) /\ LineOK(o.line)
  <2>1. Head(owing) \in S /\ Tail(owing) \in Seq(S)
    BY <1>1
  <2> QED
    BY <1>1, <2>1
<1>3. \/ owing' = Tail(owing) /\ line' = line
      \/ couples # {} /\ Hold(Restate(stake, group), group, o.line, o.depth + 1, Tail(owing))
  BY Zenon DEF TakeAside
<1>4. CASE owing' = Tail(owing) /\ line' = line
  BY <1>1, <1>2, <1>4 DEF TalkInv
<1>5. CASE couples # {} /\ Hold(Restate(stake, group), group, o.line, o.depth + 1, Tail(owing))
  <2>1. stayed \subseteq Nat
    BY TalkAssumption
  <2> HIDE DEF o, stayed
  <2>2. couples \subseteq Nat \X Nat
    BY <2>1
  <2>3. pair \in couples
    <3> HIDE DEF couples
    <3>1. \E c \in couples : \A d \in couples : c[1] < d[1] \/ (c[1] = d[1] /\ c[2] <= d[2])
      BY <1>5, <2>2, FirstPair
    <3> QED
      BY <3>1
  <2>4. stake # Nothing
    <3> HIDE DEF pair
    <3> QED
      BY <2>3
  <2> HIDE DEF couples, pair
  <2>5. stake.about \notin Range(o.line)
    BY <2>4, AnotherMatter
  <2>6. Restate(stake, group).about \notin Range(o.line)
    <3> HIDE DEF stake, group
    <3> QED
      BY <2>5, StillAboutIt
  <2> DEFINE again == Restate(stake, group)
             later == Tail(owing)
             deeper == o.depth + 1
  <2>7. Hold(again, group, o.line, deeper, later) /\ again.about \notin Range(o.line) /\ later \in Seq(S)
    BY <1>2, <1>5, <2>6 DEF o
  <2> HIDE DEF again, later, group, deeper
  <2> QED
    BY <1>1, <1>2, <2>7, HoldKeeps
<1> QED
  BY <1>3, <1>4, <1>5

LEMMA CarryKeeps ==
  ASSUME TalkInv, owing # <<>>, CarryTheNews(Head(owing))
  PROVE  TalkInv'
<1> DEFINE o == Head(owing)
<1>1. PICK S : owing \in Seq(S) /\ \A p \in S : LineOK(p.line)
  BY DEF TalkInv
<1>2. Tail(owing) \in Seq(S) /\ LineOK(o.line)
  <2>1. Head(owing) \in S /\ Tail(owing) \in Seq(S)
    BY <1>1
  <2> QED
    BY <1>1, <2>1
<1>3. \/ owing' = Tail(owing) /\ line' = line
      \/ \E f, group : Hold(News(f), group, o.line, o.depth + 1, Tail(owing))
  BY Zenon DEF CarryTheNews
<1>4. CASE owing' = Tail(owing) /\ line' = line
  BY <1>1, <1>2, <1>4 DEF TalkInv
<1>5. CASE \E f, group : Hold(News(f), group, o.line, o.depth + 1, Tail(owing))
  <2>1. PICK f, group : Hold(News(f), group, o.line, o.depth + 1, Tail(owing))
    BY <1>5
  <2> DEFINE again == News(f)
             later == Tail(owing)
             deeper == o.depth + 1
  <2>2. again.about[1] = "news"
    BY DEF News
  <2>3. Hold(again, group, o.line, deeper, later) /\ later \in Seq(S)
    BY <1>2, <2>1
  <2> HIDE DEF again, later, deeper, o
  <2> QED
    BY <1>1, <1>2, <2>2, <2>3, HoldKeeps
<1> QED
  BY <1>3, <1>4, <1>5

\* Whatever is taken aside, with whoever stayed, and however deep it goes, no conversation comes
\* back to an outage or a bill that the one it came from, or one before that, was about.
THEOREM NeverBack == TalkSpec => []NeverBackToAMatter
<1>1. LineOK(<<>>)
  <2>1. <<>> \in Seq({})
    OBVIOUS
  <2> QED
    BY <2>1 DEF LineOK
<1>2. \A S : <<>> \in Seq(S)
  OBVIOUS
<1>3. TalkInit => TalkInv
  <2> SUFFICES ASSUME TalkInit PROVE TalkInv
    OBVIOUS
  <2>1. line = <<>> /\ owing = <<>>
    BY DEF TalkInit
  <2>2. LineOK(line)
    BY <1>1, <2>1
  <2> DEFINE none == {}
  <2>3. owing \in Seq(none)
    BY <1>2, <2>1
  <2>4. \A o \in none : LineOK(o.line)
    OBVIOUS
  <2> HIDE DEF none
  <2> QED
    BY <2>2, <2>3, <2>4 DEF TalkInv
<1>4. TalkInv /\ [TalkNext]_talkVars => TalkInv'
  <2> SUFFICES ASSUME TalkInv, [TalkNext]_talkVars PROVE TalkInv'
    OBVIOUS
  <2>1. CASE UNCHANGED <<line, owing>>
    BY <2>1 DEF TalkInv
  <2>2. ASSUME NEW p \in People, OpenEpisode(p) PROVE TalkInv'
    <3> DEFINE stake == Restate(StakeOf(<<p, wish[p]>>), Opening(p))
               group == Opening(p)
    <3>1. Hold(stake, group, <<>>, 0, <<>>)
      BY <2>2 DEF OpenEpisode
    <3>2. stake.about \notin Range(<<>>)
      BY DEF Range
    <3> DEFINE none == {}
               first == <<>>
               nothing == 0
    <3>3. first \in Seq(none) /\ \A q \in none : LineOK(q.line)
      BY <1>2
    <3>4. Hold(stake, group, first, nothing, first) /\ stake.about \notin Range(first) /\ LineOK(first)
      BY <1>1, <3>1, <3>2
    <3> HIDE DEF stake, group, none, first, nothing
    <3> QED
      BY <3>3, <3>4, HoldKeeps
  <2>3. CASE SmallerConversation
    BY <2>3, AsideKeeps, CarryKeeps DEF SmallerConversation
  <2>4. CASE DecideAndMeet
    <3>1. line' = <<>> /\ owing' = owing
      BY <2>4 DEF DecideAndMeet
    <3> QED
      BY <1>1, <3>1 DEF TalkInv
  <2>5. ASSUME NEW p \in People, NoEpisode(p) PROVE TalkInv'
    BY <2>1, <2>5 DEF NoEpisode
  <2>6. CASE Encounters
    BY <2>1, <2>6 DEF Encounters
  <2>7. CASE UNCHANGED talkVars
    BY <2>1, <2>7 DEF talkVars
  <2> QED
    BY <2>2, <2>3, <2>4, <2>5, <2>6, <2>7 DEF TalkNext
<1>5. TalkInv => NeverBackToAMatter
  BY DEF TalkInv, LineOK, NeverBackToAMatter
<1> QED
  BY <1>3, <1>4, <1>5, PTL DEF TalkSpec
=============================================================================
