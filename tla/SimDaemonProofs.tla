--------------------------- MODULE SimDaemonProofs ---------------------------
(***************************************************************************)
(* Proofs about SimDaemon, for any horizon, nights, budget, costs, faults  *)
(* and choice of options. Four inductive invariants, each on top of typing:*)
(*   SessionInv   what a session has bought is what the window has bought  *)
(*                less what the sessions before it did, all of them under  *)
(*                the budget and one tick;                                 *)
(*   StatusInv    StatusIsHonest, at each place that leads to the top;     *)
(*   LockInv      who holds the writer lock, by where the process is;      *)
(*   HorizonInv   the world is past its horizon only on its way to the     *)
(*                clamp, or because nobody was left to clamp it.           *)
(***************************************************************************)
EXTENDS SimDaemon, TLAPS

Places == {"connecting", "top", "skipped", "pausing", "backoff", "idle", "exited"}

Switches ==
  /\ elapsed \in BOOLEAN /\ failing \in BOOLEAN /\ broke \in BOOLEAN
  /\ stop \in BOOLEAN /\ ran \in BOOLEAN /\ unclamped \in BOOLEAN

Counters ==
  /\ time \in Nat /\ used \in Nat /\ bought \in Nat /\ sessions \in Nat
  /\ faults \in 0 .. MaxFaults

Words ==
  /\ status \in {"paused", "running", "paused_budget", "waiting_on_model",
                 "waiting_on_budget", "halted"}
  /\ at \in Places
  /\ code \in {"none", "busy", "no database", "stopped", "horizon", "halted",
               "no model", "killed"}
  /\ holder \in {"nobody", "me", "rival"}
  /\ ledger \in {"unopened", "open", "dead"}

TypeOK == Switches /\ Counters /\ Words

\* The most one session buys in one window, when no tick costs more than c.
OneSession(c) == Budget + c - 1

\* Every session but the last has bought at most its share, the last one what
\* it counts; no session at all has bought nothing.
SessionInv(c) ==
  /\ used <= OneSession(c)
  /\ IF sessions = 0 THEN bought = 0 ELSE bought <= (sessions - 1) * OneSession(c) + used
  /\ sessions = 0 => at \in {"connecting", "exited"}

\* StatusIsHonest where a step may lead to the top without writing a status.
StatusInv ==
  at \in {"top", "skipped", "backoff"} =>
    /\ status \in {"waiting_on_model", "waiting_on_budget"} => failing \/ broke
    /\ status # "paused_budget"
    /\ status # "halted"

\* The loop runs while the process holds the writer lock, and at no other time.
LockInv ==
  /\ holder = "me" <=> at \notin {"connecting", "exited"}
  /\ code # "none" => at = "exited"

HorizonInv == time > Until => unclamped \/ at = "skipped"

-----------------------------------------------------------------------------
\* A step leaves the switches Boolean.
LEMMA SwitchesKept ==
  ASSUME Switches, [Next]_vars
  PROVE  Switches'
<1>a. /\ Until \in Nat /\ Shut \subseteq Nat /\ Dawn \in [Shut -> Nat]
      /\ Budget \in Nat /\ MaxFaults \in Nat
  BY DaemonAssumption
<1>b. \A usd \in Prices : usd \in Nat
  BY DaemonAssumption DEF Prices
<1> USE <1>a DEF Switches, Places, world, governor, locals, Exit, Fault, SessionLost,
        Overslept, Spend, Opened, Attempt, Due
<1>1. ASSUME Connect \/ Refused \/ StopWithout \/ GiveUp \/ Lose PROVE Switches'
  BY <1>1 DEF Connect, Refused, StopWithout, GiveUp, Lose
<1>2. ASSUME Stopped \/ AtTheHorizon \/ IdleOver \/ Night \/ Clamp PROVE Switches'
  BY <1>2 DEF Stopped, AtTheHorizon, IdleOver, Night, Clamp
<1>3. ASSUME Pause \/ Resume \/ BackoffOver \/ WindowEnds PROVE Switches'
  BY <1>3 DEF Pause, Resume, BackoffOver, WindowEnds
<1>4. ASSUME Restart \/ Signal \/ RivalComes \/ RivalGoes \/ Kill PROVE Switches'
  BY <1>4 DEF Restart, Signal, RivalComes, RivalGoes, Kill
<1>5. ASSUME NEW usd \in Prices, Tick(usd) \/ Weather(usd) \/ OutOfCredit(usd) PROVE Switches'
  BY <1>b, <1>5 DEF Tick, Weather, OutOfCredit
<1>6. ASSUME NEW usd \in Prices, Halt(usd) \/ OutOfPatience(usd) \/ LoseInTick(usd) PROVE Switches'
  BY <1>b, <1>6 DEF Halt, OutOfPatience, LoseInTick
<1>7. CASE UNCHANGED vars
  BY <1>7 DEF vars
<1> QED BY <1>1, <1>2, <1>3, <1>4, <1>5, <1>6, <1>7 DEF Next, Run

\* A step leaves the clock and the counters natural numbers.
LEMMA CountersKept ==
  ASSUME Counters, [Next]_vars
  PROVE  Counters'
<1>a. /\ Until \in Nat /\ Shut \subseteq Nat /\ Dawn \in [Shut -> Nat]
      /\ Budget \in Nat /\ MaxFaults \in Nat
  BY DaemonAssumption
<1>b. \A usd \in Prices : usd \in Nat
  BY DaemonAssumption DEF Prices
<1> USE <1>a DEF Counters, world, governor, Fault, SessionLost, Spend, Attempt, Due
<1>1. ASSUME Connect \/ Refused \/ StopWithout \/ GiveUp \/ Lose PROVE Counters'
  <2>1. CASE Connect
    <3>1. /\ time' = time /\ faults' = faults /\ used' = 0
          /\ bought' = 0 \/ bought' = bought
          /\ sessions' = 1 \/ sessions' = sessions + 1
      BY <2>1 DEF Connect
    <3>2. time' \in Nat /\ used' \in Nat /\ faults' \in 0 .. MaxFaults
      BY <3>1
    <3>3. bought' \in Nat
      BY <3>1
    <3>4. sessions' \in Nat
      BY <3>1
    <3> QED BY <3>2, <3>3, <3>4
  <2>2. CASE Refused \/ StopWithout
    BY <2>2 DEF Refused, StopWithout
  <2>3. CASE GiveUp
    <3>1. Fault /\ UNCHANGED <<time, used, bought, sessions>>
      BY <2>3 DEF GiveUp
    <3> QED BY <3>1
  <2>4. CASE Lose
    BY <2>4 DEF Lose
  <2> QED BY <1>1, <2>1, <2>2, <2>3, <2>4
<1>2. ASSUME Stopped \/ AtTheHorizon \/ IdleOver \/ Night \/ Clamp PROVE Counters'
  <2>1. CASE Night
    BY <2>1 DEF Night
  <2>2. CASE Clamp
    BY <2>2 DEF Clamp
  <2>3. CASE Stopped \/ AtTheHorizon \/ IdleOver
    BY <2>3 DEF Stopped, AtTheHorizon, IdleOver
  <2> QED BY <1>2, <2>1, <2>2, <2>3
<1>3. ASSUME Pause \/ Resume \/ BackoffOver \/ WindowEnds PROVE Counters'
  BY <1>3 DEF Pause, Resume, BackoffOver, WindowEnds
<1>4. ASSUME Restart \/ Signal \/ RivalComes \/ RivalGoes \/ Kill PROVE Counters'
  <2>1. CASE Restart
    BY <2>1 DEF Restart
  <2>2. CASE Signal \/ RivalGoes
    BY <2>2 DEF Signal, RivalGoes
  <2>3. CASE RivalComes
    BY <2>3 DEF RivalComes
  <2>4. CASE Kill
    BY <2>4 DEF Kill
  <2> QED BY <1>4, <2>1, <2>2, <2>3, <2>4
<1>5. ASSUME NEW usd \in Prices, Tick(usd) \/ Weather(usd) \/ OutOfCredit(usd) PROVE Counters'
  <2>1. CASE Tick(usd)
    BY <1>b, <2>1 DEF Tick
  <2>2. CASE Weather(usd)
    BY <1>b, <2>2 DEF Weather
  <2>3. CASE OutOfCredit(usd)
    BY <1>b, <2>3 DEF OutOfCredit
  <2> QED BY <1>5, <2>1, <2>2, <2>3
<1>6. ASSUME NEW usd \in Prices, Halt(usd) \/ OutOfPatience(usd) \/ LoseInTick(usd) PROVE Counters'
  <2>1. CASE Halt(usd)
    BY <1>b, <2>1 DEF Halt
  <2>2. CASE OutOfPatience(usd)
    <3>1. Attempt(usd) /\ (Fault \/ UNCHANGED faults) /\ time' = time
      BY <2>2 DEF OutOfPatience
    <3> QED BY <1>b, <3>1
  <2>3. CASE LoseInTick(usd)
    BY <1>b, <2>3 DEF LoseInTick
  <2> QED BY <1>6, <2>1, <2>2, <2>3
<1>7. CASE UNCHANGED vars
  BY <1>7 DEF vars
<1> QED BY <1>1, <1>2, <1>3, <1>4, <1>5, <1>6, <1>7 DEF Next, Run

\* A step leaves the words among those the code uses.
LEMMA WordsKept ==
  ASSUME Words, [Next]_vars
  PROVE  Words'
<1>a. /\ Until \in Nat /\ Shut \subseteq Nat /\ Dawn \in [Shut -> Nat]
      /\ Budget \in Nat /\ MaxFaults \in Nat
  BY DaemonAssumption
<1>b. \A usd \in Prices : usd \in Nat
  BY DaemonAssumption DEF Prices
<1> USE <1>a DEF Words, Places, world, Exit, SessionLost, Opened
<1>1. ASSUME Connect \/ Refused \/ StopWithout \/ GiveUp \/ Lose PROVE Words'
  BY <1>1 DEF Connect, Refused, StopWithout, GiveUp, Lose
<1>2. ASSUME Stopped \/ AtTheHorizon \/ IdleOver \/ Night \/ Clamp PROVE Words'
  <2>1. CASE Night
    BY <2>1 DEF Night
  <2>2. CASE Clamp
    BY <2>2 DEF Clamp
  <2>3. CASE Stopped \/ AtTheHorizon \/ IdleOver
    BY <2>3 DEF Stopped, AtTheHorizon, IdleOver
  <2> QED BY <1>2, <2>1, <2>2, <2>3
<1>3. ASSUME Pause \/ Resume \/ BackoffOver \/ WindowEnds PROVE Words'
  BY <1>3 DEF Pause, Resume, BackoffOver, WindowEnds
<1>4. ASSUME Restart \/ Signal \/ RivalComes \/ RivalGoes \/ Kill PROVE Words'
  BY <1>4 DEF Restart, Signal, RivalComes, RivalGoes, Kill
<1>5. ASSUME NEW usd \in Prices, Tick(usd) \/ Weather(usd) \/ OutOfCredit(usd) PROVE Words'
  <2>1. CASE Tick(usd)
    BY <1>b, <2>1 DEF Tick
  <2>2. CASE Weather(usd)
    BY <1>b, <2>2 DEF Weather
  <2>3. CASE OutOfCredit(usd)
    BY <1>b, <2>3 DEF OutOfCredit
  <2> QED BY <1>5, <2>1, <2>2, <2>3
<1>6. ASSUME NEW usd \in Prices, Halt(usd) \/ OutOfPatience(usd) \/ LoseInTick(usd) PROVE Words'
  <2>1. CASE Halt(usd)
    BY <1>b, <2>1 DEF Halt
  <2>2. CASE OutOfPatience(usd)
    BY <1>b, <2>2 DEF OutOfPatience
  <2>3. CASE LoseInTick(usd)
    BY <1>b, <2>3 DEF LoseInTick
  <2> QED BY <1>6, <2>1, <2>2, <2>3
<1>7. CASE UNCHANGED vars
  BY <1>7 DEF vars
<1> QED BY <1>1, <1>2, <1>3, <1>4, <1>5, <1>6, <1>7 DEF Next, Run

\* Every variable keeps its type.
THEOREM Typing == Spec => []TypeOK
<1>1. Init => TypeOK
  <2>1. Init => Switches
    BY DEF Init, Switches
  <2>2. Init => Counters
    BY DaemonAssumption DEF Init, Counters
  <2>3. Init => Words
    BY DEF Init, Words, Places
  <2> QED BY <2>1, <2>2, <2>3 DEF TypeOK
<1>2. TypeOK /\ [Next]_vars => TypeOK'
  BY SwitchesKept, CountersKept, WordsKept DEF TypeOK
<1> QED BY <1>1, <1>2, PTL DEF Spec

-----------------------------------------------------------------------------
\* What the steps do to the governor: most of them nothing.

\* The steps that touch neither the window nor its sessions.
Apart ==
  \/ Refused \/ StopWithout \/ GiveUp \/ Lose
  \/ Stopped \/ AtTheHorizon \/ IdleOver \/ Night \/ Clamp
  \/ Pause \/ Resume \/ BackoffOver
  \/ Signal \/ RivalComes \/ RivalGoes \/ Kill

\* An attempt at a tick leaves the loop where it was, or goes to a backoff, to
\* another connection or to the end: it never creates a session.
LEMMA StepsOfTheGovernor ==
  ASSUME Next
  PROVE  \/ Connect \/ Restart
         \/ UNCHANGED <<used, bought, sessions>>
            /\ (at \in {"connecting", "exited"} => at' \in {"connecting", "exited"})
         \/ \E usd \in Prices : Attempt(usd)
<1>1. ASSUME Apart
      PROVE  UNCHANGED <<used, bought, sessions>>
             /\ (at \in {"connecting", "exited"} => at' \in {"connecting", "exited"})
  BY <1>1 DEF Apart, Refused, StopWithout, GiveUp, Lose, Stopped, AtTheHorizon, IdleOver,
     Night, Clamp, Pause, Resume, BackoffOver, Signal, RivalComes, RivalGoes, Kill, Due,
     governor, Exit, SessionLost
<1>2. ASSUME WindowEnds
      PROVE  UNCHANGED <<used, bought, sessions>>
             /\ (at \in {"connecting", "exited"} => at' \in {"connecting", "exited"})
  BY <1>2 DEF WindowEnds
<1>3. ASSUME NEW usd \in Prices,
             \/ Tick(usd) \/ Weather(usd) \/ OutOfCredit(usd)
             \/ Halt(usd) \/ OutOfPatience(usd) \/ LoseInTick(usd)
      PROVE  Attempt(usd)
  BY <1>3 DEF Tick, Weather, OutOfCredit, Halt, OutOfPatience, LoseInTick
<1> QED BY <1>1, <1>2, <1>3 DEF Next, Run, Apart

\* A share more is a session more.
LEMMA OneShareMore == \A n, l \in Int : (n - 1) * l + l = n * l
OBVIOUS

\* The first tick of a window may cost c, the one that goes over the budget as
\* much again, and a new session starts from nothing: SessionInv is inductive.
LEMMA SessionsStayUnder ==
  ASSUME TypeOK, NEW c \in Nat, \A usd \in Costs : usd <= c, SessionInv(c), [Next]_vars
  PROVE  SessionInv(c)'
<1> USE DaemonAssumption DEF SessionInv
<1> DEFINE most == OneSession(c)
<1>0. most \in Nat /\ c <= most /\ most = Budget + c - 1
  BY DEF OneSession
<1>1. CASE UNCHANGED vars
  BY <1>1 DEF vars, OneSession
<1>2. CASE Connect
  <2>1. used' = 0 /\ at' = "top"
    BY <1>2 DEF Connect
  <2>2. CASE elapsed
    <3>1. bought' = 0 /\ sessions' = 1
      BY <1>2, <2>2 DEF Connect
    <3>2. (1 - 1) * most + 0 = 0
      BY <1>0
    <3> QED BY <1>0, <2>1, <3>1, <3>2 DEF OneSession
  <2>3. CASE ~elapsed
    <3>1. bought' = bought /\ sessions' = sessions + 1 /\ sessions \in Nat
      BY <1>2, <2>3 DEF Connect, TypeOK, Counters
    <3>2. bought <= sessions * most
      <4>1. CASE sessions = 0
        <5>1. bought = 0 /\ 0 * most = 0
          BY <4>1, <1>0
        <5> QED BY <4>1, <5>1
      <4>2. CASE sessions # 0
        <5>1. bought <= (sessions - 1) * most + used /\ used <= most
          BY <4>2
        <5>2. (sessions - 1) * most + most = sessions * most
          BY <3>1, <1>0, OneShareMore
        <5>3. (sessions - 1) * most \in Int /\ sessions * most \in Int
          BY <3>1, <1>0
        <5>4. used \in Nat /\ bought \in Nat
          BY DEF TypeOK, Counters
        <5> HIDE DEF most
        <5> QED BY <5>1, <5>2, <5>3, <5>4, <1>0
      <4> QED BY <4>1, <4>2
    <3>3. (sessions' - 1) * most + used' = sessions * most
      <4>1. sessions' - 1 = sessions
        BY <3>1
      <4>2. sessions * most \in Int
        BY <3>1, <1>0
      <4> QED BY <4>1, <4>2, <2>1
    <3>4. sessions' # 0
      BY <3>1
    <3> QED BY <1>0, <2>1, <3>1, <3>2, <3>3, <3>4 DEF OneSession
  <2> QED BY <2>2, <2>3
<1>3. CASE Restart
  <2>1. used' = 0 /\ bought' = 0 /\ sessions' = 0 /\ at' = "connecting"
    BY <1>3 DEF Restart
  <2> QED BY <2>1, <1>0 DEF OneSession
<1>4. CASE UNCHANGED <<used, bought, sessions>>
           /\ (at \in {"connecting", "exited"} => at' \in {"connecting", "exited"})
  BY <1>4 DEF OneSession
<1>5. ASSUME NEW usd \in Prices, Attempt(usd) PROVE SessionInv(c)'
  <2>1. usd \in Nat /\ usd <= c
    BY DEF Prices
  <2>2. sessions # 0 /\ sessions \in Nat /\ used \in Nat /\ bought \in Nat
    BY <1>5 DEF Attempt, Due, TypeOK, Counters
  <2>3. CASE elapsed
    <3>1. used' = usd /\ bought' = usd /\ sessions' = 1
      BY <1>5, <2>3, <2>1 DEF Attempt, Spend
    <3>2. (1 - 1) * most + usd = usd
      BY <1>0, <2>1
    <3> QED BY <1>0, <2>1, <3>1, <3>2 DEF OneSession
  <2>4. CASE ~elapsed
    <3>1. used' = used + usd /\ bought' = bought + usd /\ sessions' = sessions /\ used < Budget
      BY <1>5, <2>4 DEF Attempt, Spend
    <3>2. used' <= most
      BY <3>1, <2>1, <2>2, <1>0
    <3>3. (sessions - 1) * most \in Int
      BY <2>2, <1>0
    <3>4. bought <= (sessions - 1) * most + used
      BY <2>2
    <3> HIDE DEF most
    <3>5. bought' <= (sessions - 1) * most + used'
      BY <3>1, <3>3, <3>4, <2>1, <2>2
    <3> USE DEF most
    <3> QED BY <3>1, <3>2, <3>5, <2>2 DEF OneSession
  <2> QED BY <2>3, <2>4
<1> QED BY <1>1, <1>2, <1>3, <1>4, <1>5, StepsOfTheGovernor

\* What a process buys in a window is, for each session it had in that window,
\* less than the budget before its last tick and at most one tick more.
THEOREM GovernorTheorem == Spec => []GovernorHolds
<1> USE DaemonAssumption
<1> DEFINE Inv == \A c \in Costs : (\A d \in Costs : d <= c) => SessionInv(c)
<1>1. Init => Inv
  <2> SUFFICES ASSUME Init, NEW c \in Costs PROVE SessionInv(c)
    OBVIOUS
  <2>1. c \in Nat
    OBVIOUS
  <2> QED BY <2>1 DEF Init, SessionInv, OneSession
<1>2. TypeOK /\ Inv /\ [Next]_vars => Inv'
  BY SessionsStayUnder
<1>3. TypeOK /\ Inv => GovernorHolds
  <2> SUFFICES ASSUME TypeOK, Inv, NEW c \in Costs, \A d \in Costs : d <= c
               PROVE  bought <= sessions * (Budget + c - 1)
    BY DEF GovernorHolds
  <2> DEFINE most == Budget + c - 1
  <2>1. SessionInv(c) /\ most = OneSession(c) /\ most \in Nat
    BY DEF OneSession
  <2>2. CASE sessions = 0
    <3>1. bought = 0 /\ 0 * most = 0
      BY <2>1, <2>2 DEF SessionInv
    <3> QED BY <2>2, <3>1
  <2>3. CASE sessions # 0
    <3>1. bought <= (sessions - 1) * most + used /\ used <= most
      BY <2>1, <2>3 DEF SessionInv
    <3>2. sessions \in Nat /\ used \in Nat /\ bought \in Nat
      BY DEF TypeOK, Counters
    <3>3. (sessions - 1) * most + most = sessions * most
      BY <3>2, <2>1, OneShareMore
    <3>4. (sessions - 1) * most \in Int /\ sessions * most \in Int
      BY <3>2, <2>1
    <3> HIDE DEF most
    <3>5. bought <= sessions * most
      BY <3>1, <3>2, <3>3, <3>4, <2>1
    <3> QED BY <3>5 DEF most
  <2> QED BY <2>2, <2>3
<1> QED BY <1>1, <1>2, <1>3, Typing, PTL DEF Spec

-----------------------------------------------------------------------------
\* At the top of the loop the page's status is true: it waits only while the
\* last attempt has failed, and neither a pause nor a halt is shown by a loop
\* that goes on.
THEOREM StatusTheorem == Spec => []StatusIsHonest
<1> USE DEF StatusInv, world, governor, locals, Exit, SessionLost
<1>1. Init => StatusInv
  BY DEF Init
<1>2. StatusInv /\ [Next]_vars => StatusInv'
  <2> SUFFICES ASSUME StatusInv, [Next]_vars PROVE StatusInv'
    OBVIOUS
  <2>1. ASSUME Connect \/ Refused \/ StopWithout \/ GiveUp \/ Lose PROVE StatusInv'
    BY <2>1 DEF Connect, Refused, StopWithout, GiveUp, Lose
  <2>2. ASSUME Stopped \/ AtTheHorizon \/ IdleOver \/ Night \/ Clamp PROVE StatusInv'
    BY <2>2 DEF Stopped, AtTheHorizon, IdleOver, Night, Clamp
  <2>3. ASSUME Pause \/ Resume \/ BackoffOver \/ WindowEnds PROVE StatusInv'
    BY <2>3 DEF Pause, Resume, BackoffOver, WindowEnds
  <2>4. ASSUME Restart \/ Signal \/ RivalComes \/ RivalGoes \/ Kill PROVE StatusInv'
    BY <2>4 DEF Restart, Signal, RivalComes, RivalGoes, Kill
  <2>5. ASSUME NEW usd \in Prices, Tick(usd) PROVE StatusInv'
    BY <2>5 DEF Tick, Attempt, Due
  <2>6. ASSUME NEW usd \in Prices, Weather(usd) \/ OutOfCredit(usd) PROVE StatusInv'
    BY <2>6 DEF Weather, OutOfCredit
  <2>7. ASSUME NEW usd \in Prices, Halt(usd) \/ OutOfPatience(usd) \/ LoseInTick(usd)
        PROVE StatusInv'
    BY <2>7 DEF Halt, OutOfPatience, LoseInTick
  <2>8. CASE UNCHANGED vars
    BY <2>8 DEF vars
  <2> QED BY <2>1, <2>2, <2>3, <2>4, <2>5, <2>6, <2>7, <2>8 DEF Next, Run
<1>3. StatusInv => StatusIsHonest
  BY DEF StatusIsHonest
<1> QED BY <1>1, <1>2, <1>3, PTL DEF Spec

-----------------------------------------------------------------------------
\* The process that runs the loop holds the writer lock, and no other does.
THEOREM Locked == Spec => []LockInv
<1> USE DEF LockInv, world, Exit, SessionLost, Attempt, Due
<1>1. Init => LockInv
  BY DEF Init
<1>2. LockInv /\ [Next]_vars => LockInv'
  <2> SUFFICES ASSUME LockInv, [Next]_vars PROVE LockInv'
    OBVIOUS
  <2>1. ASSUME Connect \/ Refused \/ StopWithout \/ GiveUp \/ Lose PROVE LockInv'
    BY <2>1 DEF Connect, Refused, StopWithout, GiveUp, Lose
  <2>2. ASSUME Stopped \/ AtTheHorizon \/ IdleOver \/ Night \/ Clamp PROVE LockInv'
    BY <2>2 DEF Stopped, AtTheHorizon, IdleOver, Night, Clamp
  <2>3. ASSUME Pause \/ Resume \/ BackoffOver \/ WindowEnds PROVE LockInv'
    BY <2>3 DEF Pause, Resume, BackoffOver, WindowEnds
  <2>4. ASSUME Restart \/ Signal \/ RivalComes \/ RivalGoes \/ Kill PROVE LockInv'
    BY <2>4 DEF Restart, Signal, RivalComes, RivalGoes, Kill
  <2>5. ASSUME NEW usd \in Prices, Tick(usd) \/ Weather(usd) \/ OutOfCredit(usd) PROVE LockInv'
    BY <2>5 DEF Tick, Weather, OutOfCredit
  <2>6. ASSUME NEW usd \in Prices, Halt(usd) \/ OutOfPatience(usd) \/ LoseInTick(usd)
        PROVE LockInv'
    BY <2>6 DEF Halt, OutOfPatience, LoseInTick
  <2>7. CASE UNCHANGED vars
    BY <2>7 DEF vars
  <2> QED BY <2>1, <2>2, <2>3, <2>4, <2>5, <2>6, <2>7 DEF Next, Run
<1> QED BY <1>1, <1>2, PTL DEF Spec

\* The process that runs the loop is the holder of the writer lock, and the
\* steps outside the loop, but for the connection that takes it, write nothing.
WrittenUnderTheLock == [][holder = "me" \/ holder' = "me"]_<<time, status>>

\* CORE-0002, one writer: no step writes the clock or the status of the world
\* but under the lock.
THEOREM OneWriter == Spec => WrittenUnderTheLock
<1> USE DEF LockInv, world, Exit, SessionLost, Attempt, Due
<1>1. LockInv /\ [Next]_vars => [holder = "me" \/ holder' = "me"]_<<time, status>>
  <2> SUFFICES ASSUME LockInv, [Next]_vars, holder # "me", holder' # "me"
               PROVE  UNCHANGED <<time, status>>
    OBVIOUS
  <2>1. ASSUME Refused \/ StopWithout \/ GiveUp \/ WindowEnds \/ Restart \/ Signal
               \/ RivalComes \/ RivalGoes \/ Kill \/ Lose
        PROVE  UNCHANGED <<time, status>>
    BY <2>1 DEF Refused, StopWithout, GiveUp, WindowEnds, Restart, Signal, RivalComes,
       RivalGoes, Kill, Lose
  <2>2. ~ Connect
    BY DEF Connect
  <2>3. at \in {"connecting", "exited"}
    OBVIOUS
  <2>4. ~ (Stopped \/ AtTheHorizon \/ IdleOver \/ Night \/ Clamp \/ Pause \/ Resume \/ BackoffOver)
    BY <2>3 DEF Stopped, AtTheHorizon, IdleOver, Night, Clamp, Pause, Resume, BackoffOver
  <2>5. \A usd \in Prices : ~ Attempt(usd)
    BY <2>3
  <2>6. CASE UNCHANGED vars
    BY <2>6 DEF vars
  <2> QED BY <2>1, <2>2, <2>4, <2>5, <2>6 DEF Next, Run, Tick, Weather, OutOfCredit, Halt,
          OutOfPatience, LoseInTick
<1> QED BY <1>1, Locked, PTL DEF Spec, WrittenUnderTheLock

\* A night runs past the horizon in one transaction and is clamped in the next.
\* The world is past its horizon between the two, and otherwise only because a
\* session, or a process, was lost there.
THEOREM Clamped == Spec => [](time > Until => at = "skipped" \/ unclamped)
<1>a. Until \in Nat
  BY DaemonAssumption
<1> USE <1>a DEF HorizonInv, world, Exit, SessionLost, Overslept, Attempt, Due
<1>1. Init => HorizonInv
  BY DEF Init
<1>2. TypeOK /\ LockInv /\ HorizonInv /\ [Next]_vars => HorizonInv'
  <2> SUFFICES ASSUME TypeOK, LockInv, HorizonInv, [Next]_vars PROVE HorizonInv'
    OBVIOUS
  <2>0. time \in Nat
    BY DEF TypeOK, Counters
  <2>1. ASSUME Connect \/ Refused \/ StopWithout \/ GiveUp \/ Lose PROVE HorizonInv'
    BY <2>1 DEF Connect, Refused, StopWithout, GiveUp, Lose
  <2>2. ASSUME Stopped \/ AtTheHorizon \/ IdleOver \/ Night \/ Clamp PROVE HorizonInv'
    <3>1. CASE Night
      BY <3>1 DEF Night
    <3>2. CASE Clamp
      BY <2>0, <3>2 DEF Clamp
    <3>3. CASE Stopped \/ AtTheHorizon \/ IdleOver
      BY <3>3 DEF Stopped, AtTheHorizon, IdleOver
    <3> QED BY <2>2, <3>1, <3>2, <3>3
  <2>3. ASSUME Pause \/ Resume \/ BackoffOver \/ WindowEnds PROVE HorizonInv'
    BY <2>3 DEF Pause, Resume, BackoffOver, WindowEnds
  <2>4. ASSUME Restart \/ Signal \/ RivalComes \/ RivalGoes \/ Kill PROVE HorizonInv'
    BY <2>4 DEF LockInv, Restart, Signal, RivalComes, RivalGoes, Kill
  <2>5. ASSUME NEW usd \in Prices, Tick(usd) \/ Weather(usd) \/ OutOfCredit(usd) PROVE HorizonInv'
    <3>1. CASE Tick(usd)
      BY <2>0, <3>1 DEF Tick
    <3>2. CASE Weather(usd) \/ OutOfCredit(usd)
      BY <3>2 DEF Weather, OutOfCredit
    <3> QED BY <2>5, <3>1, <3>2
  <2>6. ASSUME NEW usd \in Prices, Halt(usd) \/ OutOfPatience(usd) \/ LoseInTick(usd)
        PROVE HorizonInv'
    <3>1. CASE LoseInTick(usd)
      BY <2>0, <3>1 DEF LoseInTick
    <3>2. CASE Halt(usd) \/ OutOfPatience(usd)
      BY <3>2 DEF Halt, OutOfPatience
    <3> QED BY <2>6, <3>1, <3>2
  <2>7. CASE UNCHANGED vars
    BY <2>7 DEF vars
  <2> QED BY <2>1, <2>2, <2>3, <2>4, <2>5, <2>6, <2>7 DEF Next, Run
<1> QED BY <1>1, <1>2, Typing, Locked, PTL DEF Spec, HorizonInv
=============================================================================
