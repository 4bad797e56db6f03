-------------------------- MODULE SpendGatewayProofs --------------------------
(***************************************************************************)
(* Proofs about SpendGateway, for any number of processes and calls, any   *)
(* costs and ceilings. Three inductive invariants, each on top of typing:  *)
(*   CeilingInv   the lock makes check and reservation one step;           *)
(*   BooksInv     where a call is says what the ledger holds of it;        *)
(*   RunInv       a process blocked in authorise() cannot overtake itself. *)
(***************************************************************************)
EXTENDS SpendGateway, TLAPS

\* At most one call holds the ledger lock, and what it checked still holds.
CeilingInv ==
  /\ NeverPastTheCeiling
  /\ \A c \in Calls : pc[c] = "locked" => Allowed(c)
  /\ \A c, d \in Calls : pc[c] = "locked" /\ pc[d] = "locked" => c = d

Covered(a) == entry[a] # "estimated" => billed[a] <= Counted(a)

\* The books of a call: no attempt is counted at less than its price, unless
\* it is an estimate; those after the current one have not happened, those
\* before it are closed, and where the call is says what the ledger holds of
\* the current one.
CallBooks(c) ==
  /\ \A k \in 0 .. MaxAttempts - 1 :
       /\ Covered(<<c, k>>)
       /\ k > attempt[c] => entry[<<c, k>>] = "none"
       /\ k < attempt[c] => entry[<<c, k>>] # "reserved"
  /\ pc[c] \in {"new"} \cup Waiting \cup Blocking => entry[Now(c)] = "none"
  /\ pc[c] \in InFlight => entry[Now(c)] = "reserved"
  /\ pc[c] = "queued" => billed[Now(c)] = 0
  /\ pc[c] \in Ended \ {"garbled"} => entry[Now(c)] # "reserved"
  /\ pc[c] = "garbled" => MayGarble

BooksInv == \A c \in Calls : CallBooks(c)

\* Without throttling no await separates the check of the run cap from the
\* reservation, so what was checked still holds when the process reserves.
RunInv ==
  /\ \A p \in Procs : ~throttled[p]
  /\ \A c \in Calls : pc[c] # "throttled"
  /\ \A c, d \in Calls :
       Owner[c] = Owner[d] /\ pc[c] \in Blocking /\ pc[d] \in Blocking => c = d
  /\ \A c \in Calls : pc[c] \in Blocking => WithinRunCap(c)
  /\ RunCapHolds

-----------------------------------------------------------------------------
\* Every variable of the gateway keeps its type.
THEOREM Typing == Spec => []TypeOK
<1> USE GatewayAssumption DEF TypeOK, Attempts, Blocking, Waiting, InFlight, Live,
        Ended, Now, Goto, ledger, counters
<1>1. Init => TypeOK
  BY DEF Init
<1>2. TypeOK /\ [Next]_vars => TypeOK'
  <2> SUFFICES ASSUME TypeOK, [Next]_vars PROVE TypeOK'
    OBVIOUS
  <2>1. ASSUME NEW c \in Calls, CapThenThrottle(c), remote' \in Nat PROVE TypeOK'
    BY <2>1 DEF CapThenThrottle
  <2>2. ASSUME NEW c \in Calls, Begin(c) PROVE TypeOK'
    BY <2>1, <2>2 DEF Begin
  <2>3. ASSUME NEW c \in Calls, BeginWithSync(c) PROVE TypeOK'
    BY <2>3 DEF BeginWithSync
  <2>4. ASSUME NEW c \in Calls, NEW usage \in RemoteReadings, Synced(c, usage)
        PROVE TypeOK'
    BY <2>1, <2>4 DEF Synced
  <2>5. ASSUME NEW c \in Calls, SyncFailed(c) PROVE TypeOK'
    BY <2>5 DEF SyncFailed
  <2>6. ASSUME NEW c \in Calls, Wake(c) PROVE TypeOK'
    BY <2>6 DEF Wake
  <2>7. ASSUME NEW c \in Calls, Check(c) PROVE TypeOK'
    BY <2>7 DEF Check
  <2>8. ASSUME NEW c \in Calls, Reserve(c) PROVE TypeOK'
    BY <2>8 DEF Reserve
  <2>9. ASSUME NEW c \in Calls, NEW usd \in 0 .. Worst[c], Send(c, usd) PROVE TypeOK'
    BY <2>9 DEF Send
  <2>10. ASSUME NEW c \in Calls, NEW how \in {"settled", "estimated"}, NEW usd \in Nat,
                Settle(c, how, usd)
         PROVE /\ entry' \in [Attempts -> {"none", "reserved", "settled", "estimated", "released"}]
               /\ booked' \in [Attempts -> Nat]
               /\ settled' \in Nat /\ reserved' \in Int
               /\ run_spent' \in [Procs -> Nat] /\ run_reserved' \in [Procs -> Int]
    BY <2>10 DEF Settle
  <2>11. ASSUME NEW c \in Calls, GiveBack(c)
         PROVE /\ entry' \in [Attempts -> {"none", "reserved", "settled", "estimated", "released"}]
               /\ booked' \in [Attempts -> Nat]
               /\ settled' \in Nat /\ reserved' \in Int
               /\ run_spent' \in [Procs -> Nat] /\ run_reserved' \in [Procs -> Int]
    BY <2>11 DEF GiveBack
  <2>12. ASSUME NEW c \in Calls, RetryOrFail(c)
         PROVE /\ pc' \in [Calls -> {"new", "dead"} \cup Live \cup Ended]
               /\ attempt' \in [Calls -> 0 .. MaxAttempts - 1]
    <3>1. CASE attempt[c] + 1 < MaxAttempts
      <4>1. attempt[c] + 1 \in 0 .. MaxAttempts - 1
        BY <3>1
      <4> QED BY <2>12, <3>1, <4>1 DEF RetryOrFail
    <3>2. CASE ~(attempt[c] + 1 < MaxAttempts)
      BY <2>12, <3>2 DEF RetryOrFail
    <3> QED BY <3>1, <3>2
  <2>13. ASSUME NEW c \in Calls, Outcome(c) PROVE TypeOK'
    <3>1. CASE ConnectionLost(c)
      BY <3>1, <2>10, <2>12 DEF ConnectionLost, Pending, SettleAt
    <3>2. CASE Garbled(c)
      BY <3>2 DEF Garbled, Pending, Noted, Limits
    <3>3. ASSUME NEW limited \in BOOLEAN, Answer(c, limited) PROVE TypeOK'
      <4>1. billed[Now(c)] \in Nat /\ 0 .. Worst[c] \subseteq Nat
        OBVIOUS
      <4>2. \E how \in {"settled", "estimated"}, usd \in Nat : Settle(c, how, usd)
        BY <3>3, <4>1 DEF Answer, Usage, SettleAt
      <4> QED BY <3>3, <4>2, <2>10 DEF Answer, Pending, Noted
    <3>4. ASSUME NEW limited \in BOOLEAN, NEW retryable \in BOOLEAN,
                 BilledError(c, retryable, limited)
          PROVE TypeOK'
      BY <3>4, <2>10, <2>12 DEF BilledError, Pending, Noted, SettleAt
    <3>5. ASSUME NEW limited \in BOOLEAN, NEW status \in {400, 402, 429},
                 UnbilledError(c, status, limited)
          PROVE TypeOK'
      <4>1. /\ pc' \in [Calls -> {"new", "dead"} \cup Live \cup Ended]
            /\ attempt' \in [Calls -> 0 .. MaxAttempts - 1]
        <5>1. \/ RetryOrFail(c)
              \/ (Goto(c, "over_budget") \/ Goto(c, "failed")) /\ UNCHANGED attempt
          BY <3>5 DEF UnbilledError
        <5>2. CASE RetryOrFail(c)
          BY <5>2, <2>12
        <5>3. CASE (Goto(c, "over_budget") \/ Goto(c, "failed")) /\ UNCHANGED attempt
          BY <5>3 DEF Goto
        <5> QED BY <5>1, <5>2, <5>3
      <4>2. throttled' \in [Procs -> BOOLEAN]
        BY <3>5 DEF UnbilledError, Noted
      <4>3. GiveBack(c) /\ UNCHANGED <<billed, remote>>
        BY <3>5 DEF UnbilledError, Pending
      <4> QED BY <4>1, <4>2, <4>3, <2>11
    <3>6. Limits \subseteq BOOLEAN
      BY GatewayAssumption DEF Limits
    <3>7. \/ ConnectionLost(c)
          \/ Garbled(c)
          \/ \E limited \in BOOLEAN : Answer(c, limited)
          \/ \E limited, retryable \in BOOLEAN : BilledError(c, retryable, limited)
          \/ \E limited \in BOOLEAN, status \in {400, 402, 429} :
               UnbilledError(c, status, limited)
      BY <2>13, <3>6 DEF Outcome
    <3> HIDE DEF TypeOK
    <3> QED BY <3>1, <3>2, <3>3, <3>4, <3>5, <3>7
  <2>14. ASSUME NEW c \in Calls, Cancel(c) PROVE TypeOK'
    <3>1. CASE pc[c] = "queued"
      BY <2>14, <3>1, <2>11 DEF Cancel
    <3>2. CASE pc[c] = "sent"
      <4>1. Worst[c] \in Nat
        OBVIOUS
      <4> QED BY <2>14, <3>2, <4>1, <2>10 DEF Cancel, SettleAt
    <3>3. CASE pc[c] \notin {"queued", "sent"}
      BY <2>14, <3>3 DEF Cancel
    <3> QED BY <3>1, <3>2, <3>3
  <2>15. ASSUME NEW p \in Procs, Crash(p) PROVE TypeOK'
    BY <2>15 DEF Crash
  <2>16. ASSUME NEW p \in Procs, ThrottleOver(p) PROVE TypeOK'
    BY <2>16 DEF ThrottleOver
  <2>17. CASE UNCHANGED vars
    BY <2>17 DEF vars
  <2> QED BY <2>2, <2>3, <2>4, <2>5, <2>6, <2>7, <2>8, <2>9, <2>13, <2>14, <2>15,
             <2>16, <2>17 DEF Next, Step
<1> QED BY <1>1, <1>2, PTL DEF Spec

-----------------------------------------------------------------------------
(* The outcomes of a request, by what they do to the ledger.               *)

NotedMaybe(c) == UNCHANGED throttled \/ \E limited \in Limits : Noted(c, limited)

StopAt(c, ends) == UNCHANGED attempt /\ \E where \in ends : Goto(c, where)

SettlesBill(c) ==
  Pending(c) /\ Usage(c) /\ StopAt(c, {"answered"}) /\ NotedMaybe(c)

SettlesWorst(c) ==
  /\ Pending(c) /\ SettleAt(c, Worst[c]) /\ NotedMaybe(c)
  /\ RetryOrFail(c) \/ StopAt(c, {"failed"})

GivesBack(c) ==
  /\ Pending(c) /\ billed[Now(c)] = 0 /\ GiveBack(c) /\ NotedMaybe(c)
  /\ RetryOrFail(c) \/ StopAt(c, {"failed", "over_budget"})

\* The steps of the system, one case for each thing that can happen to a call:
\* what the case analyses below are over.
LEMMA StepCases ==
  ASSUME [Next]_vars
  PROVE  \/ \E c \in Calls :
              \/ Begin(c) \/ BeginWithSync(c) \/ SyncFailed(c) \/ Wake(c)
              \/ \E usage \in RemoteReadings : Synced(c, usage)
              \/ Check(c) \/ Reserve(c)
              \/ \E usd \in 0 .. Worst[c] : Send(c, usd)
              \/ SettlesBill(c) \/ SettlesWorst(c) \/ GivesBack(c)
              \/ Garbled(c) \/ Cancel(c)
         \/ \E p \in Procs : Crash(p) \/ ThrottleOver(p)
         \/ UNCHANGED vars
<1>1. ASSUME NEW c \in Calls, ConnectionLost(c) PROVE SettlesWorst(c)
  BY <1>1 DEF ConnectionLost, SettlesWorst, NotedMaybe
<1>2. ASSUME NEW c \in Calls, NEW limited \in Limits, Answer(c, limited)
      PROVE  SettlesBill(c)
  BY <1>2 DEF Answer, SettlesBill, NotedMaybe, StopAt
<1>3. ASSUME NEW c \in Calls, NEW limited \in Limits, NEW retryable \in BOOLEAN,
             BilledError(c, retryable, limited)
      PROVE  SettlesWorst(c)
  BY <1>3 DEF BilledError, SettlesWorst, NotedMaybe, StopAt
<1>4. ASSUME NEW c \in Calls, NEW limited \in Limits, NEW status \in {400, 402, 429},
             UnbilledError(c, status, limited)
      PROVE  GivesBack(c)
  BY <1>4 DEF UnbilledError, GivesBack, NotedMaybe, StopAt
<1>5. ASSUME NEW c \in Calls, Outcome(c)
      PROVE  SettlesBill(c) \/ SettlesWorst(c) \/ GivesBack(c) \/ Garbled(c)
  BY <1>1, <1>2, <1>3, <1>4, <1>5 DEF Outcome
<1> QED BY <1>5 DEF Next, Step

-----------------------------------------------------------------------------
\* The books of every call are in order in every reachable state.
THEOREM Books == Spec => []BooksInv
<1> USE GatewayAssumption
<1> USE DEF Counted, Covered, Now, Goto, Attempts, Waiting, Blocking, InFlight, Ended
<1>1. Init => BooksInv
  BY DEF Init, BooksInv, CallBooks
<1>2. TypeOK /\ BooksInv /\ [Next]_vars => BooksInv'
  <2> SUFFICES ASSUME TypeOK, BooksInv, [Next]_vars PROVE BooksInv'
    OBVIOUS
  <2> USE DEF TypeOK
  <2> DEFINE Same(d) == /\ pc'[d] = pc[d] /\ attempt'[d] = attempt[d]
                        /\ \A k \in 0 .. MaxAttempts - 1 :
                             /\ entry'[<<d, k>>] = entry[<<d, k>>]
                             /\ billed'[<<d, k>>] = billed[<<d, k>>]
                             /\ booked'[<<d, k>>] = booked[<<d, k>>]
  <2>0. ASSUME NEW d \in Calls, Same(d) PROVE CallBooks(d)'
    <3>1. CallBooks(d)
      BY DEF BooksInv
    <3> QED BY <2>0, <3>1 DEF CallBooks
  <2>1. ASSUME NEW c \in Calls, CallBooks(c)', \A d \in Calls \ {c} : Same(d)
        PROVE  BooksInv'
    <3> HIDE DEF Same
    <3> QED BY <2>0, <2>1 DEF BooksInv
  <2>2. ASSUME NEW c \in Calls, Begin(c) PROVE BooksInv'
    <3> USE <2>2 DEF Begin, CapThenThrottle, ledger
    <3>1. CallBooks(c)
      BY DEF BooksInv
    <3>2. CallBooks(c)'
      BY <3>1 DEF CallBooks
    <3>3. \A d \in Calls \ {c} : Same(d)
      OBVIOUS
    <3> QED BY <3>2, <3>3, <2>1
  <2>3. ASSUME NEW c \in Calls, BeginWithSync(c) PROVE BooksInv'
    <3> USE <2>3 DEF BeginWithSync, ledger
    <3>1. CallBooks(c)
      BY DEF BooksInv
    <3>2. CallBooks(c)'
      BY <3>1 DEF CallBooks
    <3>3. \A d \in Calls \ {c} : Same(d)
      OBVIOUS
    <3> QED BY <3>2, <3>3, <2>1
  <2>4. ASSUME NEW c \in Calls, NEW usage \in RemoteReadings, Synced(c, usage) PROVE BooksInv'
    <3> USE <2>4 DEF Synced, CapThenThrottle, ledger
    <3>1. CallBooks(c)
      BY DEF BooksInv
    <3>2. CallBooks(c)'
      BY <3>1 DEF CallBooks
    <3>3. \A d \in Calls \ {c} : Same(d)
      OBVIOUS
    <3> QED BY <3>2, <3>3, <2>1
  <2>5. ASSUME NEW c \in Calls, SyncFailed(c) PROVE BooksInv'
    <3> USE <2>5 DEF SyncFailed, ledger
    <3>1. CallBooks(c)
      BY DEF BooksInv
    <3>2. CallBooks(c)'
      BY <3>1 DEF CallBooks
    <3>3. \A d \in Calls \ {c} : Same(d)
      OBVIOUS
    <3> QED BY <3>2, <3>3, <2>1
  <2>6. ASSUME NEW c \in Calls, Wake(c) PROVE BooksInv'
    <3> USE <2>6 DEF Wake, ledger
    <3>1. CallBooks(c)
      BY DEF BooksInv
    <3>2. CallBooks(c)'
      BY <3>1 DEF CallBooks
    <3>3. \A d \in Calls \ {c} : Same(d)
      OBVIOUS
    <3> QED BY <3>2, <3>3, <2>1
  <2>7. ASSUME NEW c \in Calls, Check(c) PROVE BooksInv'
    <3> USE <2>7 DEF Check, ledger
    <3>1. CallBooks(c)
      BY DEF BooksInv
    <3>2. CallBooks(c)'
      BY <3>1 DEF CallBooks
    <3>3. \A d \in Calls \ {c} : Same(d)
      OBVIOUS
    <3> QED BY <3>2, <3>3, <2>1
  <2>8. ASSUME NEW c \in Calls, Reserve(c) PROVE BooksInv'
    <3> USE <2>8 DEF Reserve
    <3>1. CallBooks(c)
      BY DEF BooksInv
    <3>2. PICK n \in 0 .. MaxAttempts - 1 : n = attempt[c]
      OBVIOUS
    <3>3. /\ entry'[<<c, n>>] = "reserved" /\ billed'[<<c, n>>] = 0
          /\ \A k \in 0 .. MaxAttempts - 1 : k # n =>
               /\ entry'[<<c, k>>] = entry[<<c, k>>]
               /\ booked'[<<c, k>>] = booked[<<c, k>>]
               /\ billed'[<<c, k>>] = billed[<<c, k>>]
      BY <3>1, <3>2 DEF CallBooks
    <3>4. pc'[c] = "queued" /\ attempt'[c] = n
      BY <3>2
    <3>5. ASSUME NEW k \in 0 .. MaxAttempts - 1
          PROVE  Covered(<<c, k>>)'
      <4>1. CASE k = n
        BY <3>3, <4>1
      <4>2. CASE k # n
        BY <3>1, <3>3, <4>2 DEF CallBooks
      <4> QED BY <4>1, <4>2
    <3>6. CallBooks(c)'
      <4>1. ASSUME NEW k \in 0 .. MaxAttempts - 1
            PROVE  /\ k > attempt'[c] => entry'[<<c, k>>] = "none"
                   /\ k < attempt'[c] => entry'[<<c, k>>] # "reserved"
        BY <3>1, <3>2, <3>3, <3>4 DEF CallBooks
      <4>2. entry'[<<c, attempt'[c]>>] = "reserved" /\ billed'[<<c, attempt'[c]>>] = 0
        BY <3>3, <3>4
      <4> HIDE <2>8 DEF Reserve
      <4> QED BY <3>4, <3>5, <4>1, <4>2 DEF CallBooks
    <3>7. \A d \in Calls \ {c} : Same(d)
      OBVIOUS
    <3> QED BY <3>6, <3>7, <2>1
  <2>9. ASSUME NEW c \in Calls, NEW usd \in 0 .. Worst[c], Send(c, usd) PROVE BooksInv'
    <3> USE <2>9 DEF Send, ledger
    <3>1. CallBooks(c)
      BY DEF BooksInv
    <3>2. PICK n \in 0 .. MaxAttempts - 1 : n = attempt[c]
      OBVIOUS
    <3>3. entry[<<c, n>>] = "reserved" /\ billed'[<<c, n>>] = usd
      BY <3>1, <3>2 DEF CallBooks
    <3>4. ASSUME NEW k \in 0 .. MaxAttempts - 1
          PROVE  Covered(<<c, k>>)'
      <4>1. CASE k = n
        BY <3>3, <4>1
      <4>2. CASE k # n
        <5>1. billed'[<<c, k>>] = billed[<<c, k>>]
          BY <3>2, <4>2
        <5> QED BY <3>1, <5>1 DEF CallBooks
      <4> QED BY <4>1, <4>2
    <3>5. CallBooks(c)'
      BY <3>1, <3>2, <3>4 DEF CallBooks
    <3>6. \A d \in Calls \ {c} : Same(d)
      OBVIOUS
    <3> QED BY <3>5, <3>6, <2>1
  <2> DEFINE Settled(c) ==
               \E how \in {"settled", "estimated"}, usd \in Nat :
                 Settle(c, how, usd) /\ (how = "settled" => billed[Now(c)] <= usd)
  <2>10. ASSUME NEW c \in Calls, pc[c] \in InFlight, UNCHANGED billed,
                \/ Settled(c)
                \/ billed[Now(c)] = 0 /\ GiveBack(c),
                \/ StopAt(c, {"answered", "failed", "over_budget", "cancelled"})
                \/ RetryOrFail(c)
         PROVE  BooksInv'
    <3> USE <2>10 DEF Settle, GiveBack, StopAt, RetryOrFail
    <3>1. CallBooks(c)
      BY DEF BooksInv
    <3>2. PICK n \in 0 .. MaxAttempts - 1 : n = attempt[c]
      OBVIOUS
    <3>3. /\ entry'[<<c, n>>] \in {"settled", "estimated", "released"}
          /\ Covered(<<c, n>>)'
      <4>1. billed'[<<c, n>>] = billed[<<c, n>>] /\ Now(c) = <<c, n>>
        BY <3>2
      <4>2. CASE Settled(c)
        <5>1. PICK how \in {"settled", "estimated"}, usd \in Nat :
                Settle(c, how, usd) /\ (how = "settled" => billed[Now(c)] <= usd)
          BY <4>2
        <5>2. entry'[<<c, n>>] = how /\ booked'[<<c, n>>] = usd
          BY <3>2, <5>1
        <5> QED BY <4>1, <5>1, <5>2
      <4>3. CASE billed[Now(c)] = 0 /\ GiveBack(c)
        <5>1. entry'[<<c, n>>] = "released"
          BY <3>2, <4>3
        <5> QED BY <4>1, <4>3, <5>1
      <4> QED BY <4>2, <4>3
    <3>4. ASSUME NEW k \in 0 .. MaxAttempts - 1
          PROVE  /\ Covered(<<c, k>>)'
                 /\ k > n => entry'[<<c, k>>] = "none"
                 /\ k <= n => entry'[<<c, k>>] # "reserved"
      <4>1. CASE k = n
        BY <3>3, <4>1
      <4>2. CASE k # n
        <5>1. /\ entry'[<<c, k>>] = entry[<<c, k>>]
              /\ booked'[<<c, k>>] = booked[<<c, k>>]
              /\ billed'[<<c, k>>] = billed[<<c, k>>]
          BY <3>2, <4>2
        <5> QED BY <3>1, <3>2, <4>2, <5>1 DEF CallBooks
      <4> QED BY <4>1, <4>2
    <3>5. \/ /\ attempt'[c] = attempt[c]
             /\ pc'[c] \in {"answered", "failed", "over_budget", "cancelled"}
          \/ attempt'[c] = attempt[c] + 1 /\ pc'[c] = "backoff"
      OBVIOUS
    <3>6. CallBooks(c)'
      BY <3>2, <3>4, <3>5 DEF CallBooks
    <3>7. \A d \in Calls \ {c} : Same(d)
      OBVIOUS
    <3> QED BY <3>6, <3>7, <2>1
  <2>11. ASSUME NEW c \in Calls, SettlesBill(c) PROVE BooksInv'
    <3>1. Settled(c)
      <4>1. billed[Now(c)] \in Nat /\ billed[Now(c)] <= billed[Now(c)]
            /\ 0 .. Worst[c] \subseteq Nat
        OBVIOUS
      <4> QED BY <2>11, <4>1 DEF SettlesBill, Usage, SettleAt
    <3>2. StopAt(c, {"answered", "failed", "over_budget", "cancelled"})
      BY <2>11 DEF SettlesBill, StopAt
    <3> QED BY <2>10, <2>11, <3>1, <3>2 DEF SettlesBill, Pending
  <2>12. ASSUME NEW c \in Calls, pc[c] = "sent" PROVE billed[Now(c)] <= Worst[c]
    BY <2>12 DEF BooksInv, CallBooks
  <2>20. ASSUME NEW c \in Calls, pc[c] = "sent", SettleAt(c, Worst[c]) PROVE Settled(c)
    <3>1. Worst[c] \in Nat
      OBVIOUS
    <3> QED BY <2>12, <2>20, <3>1 DEF SettleAt
  <2>13. ASSUME NEW c \in Calls, SettlesWorst(c) PROVE BooksInv'
    BY <2>10, <2>13, <2>20 DEF SettlesWorst, Pending, StopAt
  <2>14. ASSUME NEW c \in Calls, GivesBack(c) PROVE BooksInv'
    BY <2>10, <2>14 DEF GivesBack, Pending, StopAt
  <2>15. ASSUME NEW c \in Calls, Garbled(c) PROVE BooksInv'
    <3> USE <2>15 DEF Garbled, Pending, ledger
    <3>1. CallBooks(c)
      BY DEF BooksInv
    <3>2. CallBooks(c)'
      BY <3>1 DEF CallBooks
    <3>3. \A d \in Calls \ {c} : Same(d)
      OBVIOUS
    <3> QED BY <3>2, <3>3, <2>1
  <2>16. ASSUME NEW c \in Calls, Cancel(c) PROVE BooksInv'
    <3> USE <2>16 DEF Cancel
    <3>1. CASE pc[c] = "queued"
      <4>1. billed[Now(c)] = 0
        BY <3>1 DEF BooksInv, CallBooks
      <4> QED BY <3>1, <4>1, <2>10 DEF StopAt
    <3>2. CASE pc[c] = "sent"
      BY <3>2, <2>20, <2>10 DEF StopAt
    <3>3. CASE pc[c] \in Waiting
      <4>1. CallBooks(c) /\ UNCHANGED ledger
        BY <3>3 DEF BooksInv
      <4>2. CallBooks(c)'
        BY <3>3, <4>1 DEF ledger, CallBooks
      <4>3. \A d \in Calls \ {c} : Same(d)
        BY <4>1 DEF ledger
      <4> QED BY <4>2, <4>3, <2>1
    <3> QED BY <3>1, <3>2, <3>3
  <2>17. ASSUME NEW p \in Procs, Crash(p) PROVE BooksInv'
    <3> SUFFICES ASSUME NEW c \in Calls PROVE CallBooks(c)'
      BY DEF BooksInv
    <3>1. CallBooks(c)
      BY DEF BooksInv
    <3>2. pc'[c] \in {pc[c], "dead"} /\ UNCHANGED <<attempt, billed, entry, booked>>
      BY <2>17 DEF Crash, ledger
    <3> QED BY <3>1, <3>2 DEF CallBooks
  <2>18. ASSUME NEW p \in Procs, ThrottleOver(p) PROVE BooksInv'
    BY <2>18 DEF ThrottleOver, ledger, BooksInv, CallBooks
  <2>19. CASE UNCHANGED vars
    BY <2>19 DEF vars, BooksInv, CallBooks
  <2> QED
    BY <2>2, <2>3, <2>4, <2>5, <2>6, <2>7, <2>8, <2>9, <2>11, <2>13, <2>14, <2>15,
       <2>16, <2>17, <2>18, <2>19, StepCases
<1> QED BY <1>1, <1>2, Typing, PTL DEF Spec
-----------------------------------------------------------------------------
\* The ceiling: between the check of a call and its reservation nobody else
\* appends to the ledger, because the checked call still holds the lock.
THEOREM Ceiling == Spec => []CeilingInv
<1> USE GatewayAssumption
<1>1. Init => CeilingInv
  BY DEF Init, CeilingInv, NeverPastTheCeiling
<1>2. TypeOK /\ TypeOK' /\ BooksInv /\ CeilingInv /\ [Next]_vars => CeilingInv'
  <2> SUFFICES ASSUME TypeOK, TypeOK', BooksInv, CeilingInv, [Next]_vars PROVE CeilingInv'
    OBVIOUS
  <2> DEFINE StillLocked == \A d \in Calls : pc'[d] = "locked" => pc[d] = "locked"
  <2>1. ASSUME UNCHANGED <<settled, reserved, remote>>, StillLocked PROVE CeilingInv'
    BY <2>1 DEF CeilingInv, NeverPastTheCeiling, Allowed, Effective
  <2>2. ASSUME LedgerFree, settled' + reserved' <= settled + reserved, StillLocked
        PROVE  CeilingInv'
    <3>1. settled \in Int /\ reserved \in Int /\ settled' \in Int /\ reserved' \in Int
      BY DEF TypeOK
    <3>2. settled + reserved <= HardCeiling
      BY DEF CeilingInv, NeverPastTheCeiling
    <3>3. settled' + reserved' <= HardCeiling
      <4>1. ASSUME NEW s \in Int, NEW r \in Int, NEW t \in Int, NEW q \in Int,
                   t + q <= s + r, s + r <= HardCeiling
            PROVE  t + q <= HardCeiling
        BY <4>1
      <4> QED BY <2>2, <3>1, <3>2, <4>1
    <3> QED BY <2>2, <3>3 DEF CeilingInv, NeverPastTheCeiling, LedgerFree
  <2>3. ASSUME NEW c \in Calls, NEW where, where # "locked", Goto(c, where)
        PROVE  StillLocked
    BY <2>3 DEF Goto, TypeOK
  <2>4. ASSUME NEW c \in Calls, RetryOrFail(c) PROVE StillLocked
    BY <2>4, <2>3 DEF RetryOrFail
  <2>5. ASSUME NEW c \in Calls, NEW ends, "locked" \notin ends, StopAt(c, ends)
        PROVE  StillLocked
    BY <2>5, <2>3 DEF StopAt
  <2>6. ASSUME NEW c \in Calls, CapThenThrottle(c)
        PROVE  StillLocked /\ UNCHANGED <<settled, reserved>>
    BY <2>6, <2>3 DEF CapThenThrottle, ledger
  <2>7. ASSUME NEW c \in Calls, Begin(c) PROVE CeilingInv'
    BY <2>7, <2>6, <2>1 DEF Begin
  <2>8. ASSUME NEW c \in Calls, BeginWithSync(c) \/ SyncFailed(c) \/ Wake(c)
        PROVE  CeilingInv'
    BY <2>8, <2>3, <2>1 DEF BeginWithSync, SyncFailed, Wake, ledger
  <2>9. ASSUME NEW c \in Calls, NEW usage \in RemoteReadings, Synced(c, usage)
        PROVE  CeilingInv'
    <3>1. LedgerFree /\ StillLocked /\ UNCHANGED <<settled, reserved>>
      BY <2>9, <2>6 DEF Synced
    <3>2. settled' + reserved' <= settled + reserved
      BY <3>1 DEF TypeOK
    <3> QED BY <3>1, <3>2, <2>2
  <2>10. ASSUME NEW c \in Calls, Check(c) PROVE CeilingInv'
    <3> USE <2>10 DEF Check, Goto, TypeOK, LedgerFree, ledger, CeilingInv,
            NeverPastTheCeiling
    <3>1. ASSUME NEW d \in Calls, pc'[d] = "locked" PROVE d = c /\ Allowed(c)
      BY <3>1
    <3>2. Allowed(c) => Allowed(c)'
      BY DEF Allowed, Effective
    <3> QED BY <3>1, <3>2
  <2>11. ASSUME NEW c \in Calls, Reserve(c) PROVE CeilingInv'
    <3> USE <2>11 DEF Reserve, Goto, TypeOK
    <3>1. \A d \in Calls : pc'[d] # "locked"
      BY DEF CeilingInv
    <3>2. settled + reserved + Worst[c] <= HardCeiling
      BY DEF CeilingInv, Allowed, Effective
    <3> QED BY <3>1, <3>2 DEF CeilingInv, NeverPastTheCeiling
  <2>12. ASSUME NEW c \in Calls, NEW usd \in 0 .. Worst[c], Send(c, usd)
         PROVE  CeilingInv'
    BY <2>12, <2>3, <2>1 DEF Send, ledger
  <2>13. ASSUME NEW c \in Calls, NEW how, NEW usd \in 0 .. Worst[c], Settle(c, how, usd)
         PROVE  LedgerFree /\ settled' + reserved' <= settled + reserved
    BY <2>13 DEF Settle, TypeOK
  <2>14. ASSUME NEW c \in Calls, GiveBack(c)
         PROVE  LedgerFree /\ settled' + reserved' <= settled + reserved
    BY <2>14 DEF GiveBack, TypeOK
  <2>15. ASSUME NEW c \in Calls, pc[c] = "sent"
         PROVE  billed[Now(c)] \in 0 .. Worst[c]
    BY <2>15 DEF TypeOK, BooksInv, CallBooks, Covered, Counted, Now, Attempts, InFlight
  <2>16. ASSUME NEW c \in Calls, SettlesBill(c) PROVE CeilingInv'
    <3>1. LedgerFree /\ settled' + reserved' <= settled + reserved
      BY <2>13, <2>15, <2>16 DEF SettlesBill, Pending, Usage, SettleAt
    <3> QED BY <3>1, <2>2, <2>5, <2>16 DEF SettlesBill
  <2>17. ASSUME NEW c \in Calls, SettlesWorst(c) PROVE CeilingInv'
    <3>1. LedgerFree /\ settled' + reserved' <= settled + reserved
      <4>1. Worst[c] \in 0 .. Worst[c]
        OBVIOUS
      <4> QED BY <2>13, <2>17, <4>1 DEF SettlesWorst, SettleAt
    <3> QED BY <3>1, <2>2, <2>4, <2>5, <2>17 DEF SettlesWorst
  <2>18. ASSUME NEW c \in Calls, GivesBack(c) PROVE CeilingInv'
    <3>1. LedgerFree /\ settled' + reserved' <= settled + reserved
      BY <2>14, <2>18 DEF GivesBack
    <3> QED BY <3>1, <2>2, <2>4, <2>5, <2>18 DEF GivesBack
  <2>19. ASSUME NEW c \in Calls, Garbled(c) PROVE CeilingInv'
    BY <2>19, <2>3, <2>1 DEF Garbled, Pending, ledger
  <2>20. ASSUME NEW c \in Calls, Cancel(c) PROVE CeilingInv'
    <3>1. StillLocked
      BY <2>20, <2>3 DEF Cancel
    <3>2. CASE pc[c] \in InFlight
      <4>1. GiveBack(c) \/ SettleAt(c, Worst[c])
        BY <2>20, <3>2 DEF Cancel, InFlight
      <4>2. LedgerFree /\ settled' + reserved' <= settled + reserved
        <5>1. Worst[c] \in 0 .. Worst[c]
          OBVIOUS
        <5> QED BY <4>1, <5>1, <2>13, <2>14 DEF SettleAt
      <4> QED BY <3>1, <4>2, <2>2
    <3>3. CASE pc[c] \notin InFlight
      BY <2>20, <3>1, <3>3, <2>1 DEF Cancel, InFlight, ledger
    <3> QED BY <3>2, <3>3
  <2>21. ASSUME NEW p \in Procs, Crash(p) PROVE CeilingInv'
    BY <2>21, <2>1 DEF Crash, ledger
  <2>22. ASSUME NEW p \in Procs, ThrottleOver(p) PROVE CeilingInv'
    BY <2>22, <2>1 DEF ThrottleOver, ledger
  <2>23. CASE UNCHANGED vars
    BY <2>23, <2>1 DEF vars
  <2> QED
    BY <2>7, <2>8, <2>9, <2>10, <2>11, <2>12, <2>16, <2>17, <2>18, <2>19, <2>20,
       <2>21, <2>22, <2>23, StepCases
<1> QED BY <1>1, <1>2, Typing, Books, PTL DEF Spec

\* LLM-0004, for every number of processes and calls: spend never passes the
\* hard ceiling.
THEOREM CeilingHolds == Spec => []NeverPastTheCeiling
BY Ceiling, PTL DEF CeilingInv

\* The ledger never counts an attempt at less than the provider bills for it,
\* unless the answer did not say what it cost.
THEOREM NeverUndercounts == Spec => []EachAttemptIsCovered
<1>1. TypeOK /\ BooksInv => EachAttemptIsCovered
  BY DEF TypeOK, BooksInv, CallBooks, Covered, EachAttemptIsCovered, Attempts
<1> QED BY <1>1, Books, Typing, PTL

\* A reservation is open only for the attempt a call is at.
THEOREM OneOpenAttempt == Spec => []OneAttemptAtATime
<1>1. TypeOK /\ BooksInv => OneAttemptAtATime
  <2> SUFFICES ASSUME TypeOK, BooksInv, NEW c \in Calls,
                      NEW k \in 0 .. MaxAttempts - 1, entry[<<c, k>>] = "reserved"
               PROVE  k = attempt[c]
    BY DEF OneAttemptAtATime
  <2>1. /\ k > attempt[c] => entry[<<c, k>>] = "none"
        /\ k < attempt[c] => entry[<<c, k>>] # "reserved"
    BY DEF BooksInv, CallBooks
  <2>2. attempt[c] \in 0 .. MaxAttempts - 1
    BY DEF TypeOK
  <2> QED BY <2>1, <2>2
<1> QED BY <1>1, Books, Typing, PTL

\* If every 200 parses, a call that ended left no reservation behind.
THEOREM NothingStaysOpen == ASSUME ~MayGarble PROVE Spec => []NothingLeftOpen
<1>1. TypeOK /\ BooksInv => NothingLeftOpen
  <2> SUFFICES ASSUME TypeOK, BooksInv, NEW c \in Calls, pc[c] \in Ended,
                      NEW k \in 0 .. MaxAttempts - 1
               PROVE  entry[<<c, k>>] # "reserved"
    BY DEF NothingLeftOpen
  <2>1. CallBooks(c) /\ attempt[c] \in 0 .. MaxAttempts - 1
    BY DEF BooksInv, TypeOK
  <2> QED BY <2>1 DEF CallBooks, Now, Ended
<1> QED BY <1>1, Books, Typing, PTL

\* The rungs still hold when the reservation they allowed is made.
THEOREM RungsHold == Spec => ReservedUnderTheRungs
<1>1. TypeOK /\ BooksInv /\ CeilingInv /\ [Next]_vars =>
        [\A c \in Calls : entry'[Now(c)] = "reserved" /\ entry[Now(c)] # "reserved"
           => Allowed(c)]_vars
  <2> SUFFICES ASSUME TypeOK, CeilingInv, [Next]_vars, NEW d \in Calls,
                      entry'[Now(d)] = "reserved", entry[Now(d)] # "reserved"
               PROVE  Allowed(d)
    OBVIOUS
  <2> USE GatewayAssumption DEF TypeOK, Now, Attempts
  <2>1. ASSUME NEW c \in Calls, Reserve(c) PROVE Allowed(d)
    BY <2>1 DEF Reserve, CeilingInv
  <2>2. ASSUME NEW c \in Calls, NEW how \in {"settled", "estimated"}, NEW usd,
               Settle(c, how, usd)
        PROVE  FALSE
    BY <2>2 DEF Settle
  <2>3. ASSUME NEW c \in Calls, GiveBack(c) PROVE FALSE
    BY <2>3 DEF GiveBack
  <2>4. ASSUME UNCHANGED entry PROVE FALSE
    BY <2>4
  <2>5. ASSUME NEW c \in Calls, Cancel(c) PROVE FALSE
    BY <2>5, <2>2, <2>3, <2>4 DEF Cancel, ledger, SettleAt
  <2> HIDE DEF TypeOK
  <2> QED
    BY <2>1, <2>2, <2>3, <2>4, <2>5, StepCases
       DEF Begin, BeginWithSync, CapThenThrottle, Synced, SyncFailed, Wake, Check,
           Send, SettlesBill, Usage, SettlesWorst, SettleAt, GivesBack, Garbled, Crash,
           ThrottleOver,
           ledger, vars
<1> QED BY <1>1, Typing, Books, Ceiling, PTL DEF Spec, ReservedUnderTheRungs

-----------------------------------------------------------------------------
\* The run cap of a process, when no response throttles it: then nothing is
\* awaited between _check_run_cap and the reservation, and the event loop of
\* the process is blocked while authorise() waits for the lock.
THEOREM RunCaps == ASSUME ~MayThrottle PROVE Spec => []RunInv
<1> USE GatewayAssumption
<1>1. Init => RunInv
  BY DEF Init, RunInv, RunCapHolds, Blocking
<1>2. TypeOK /\ TypeOK' /\ BooksInv /\ RunInv /\ [Next]_vars => RunInv'
  <2> SUFFICES ASSUME TypeOK, TypeOK', BooksInv, RunInv, [Next]_vars PROVE RunInv'
    OBVIOUS
  <2> DEFINE Calm == /\ \A p \in Procs : ~throttled'[p]
                     /\ \A d \in Calls : pc'[d] # "throttled"
             Less(p) == run_spent'[p] + run_reserved'[p] <= run_spent[p] + run_reserved[p]
             Blocked == \A d \in Calls : pc'[d] \in Blocking => pc[d] \in Blocking
  \* nobody starts to block, and no counter grows while somebody blocks
  <2>1. ASSUME Calm, Blocked, \A p \in Procs : Less(p) PROVE RunInv'
    <3>1. ASSUME NEW a \in Int, NEW b \in Int, NEW d \in Int, NEW e \in Int, NEW w \in Int,
                 a + b <= d + e
          PROVE  /\ d + e <= RunCap => a + b <= RunCap
                 /\ d + e + w <= RunCap => a + b + w <= RunCap
      BY <3>1
    <3>2. \A p \in Procs : /\ run_spent[p] \in Int /\ run_reserved[p] \in Int
                           /\ run_spent'[p] \in Int /\ run_reserved'[p] \in Int
      BY DEF TypeOK
    <3>3. RunCapHolds'
      BY <2>1, <3>1, <3>2 DEF RunInv, RunCapHolds
    <3>4. ASSUME NEW c \in Calls, WithinRunCap(c) PROVE WithinRunCap(c)'
      <4>1. Owner[c] \in Procs /\ Worst[c] \in Int
        OBVIOUS
      <4> QED BY <2>1, <3>1, <3>2, <3>4, <4>1 DEF WithinRunCap
    <3> QED BY <2>1, <3>3, <3>4 DEF RunInv
  <2>2. ASSUME NEW c \in Calls, NEW where, where \notin Blocking \cup {"throttled"},
               Goto(c, where)
        PROVE  Blocked /\ \A d \in Calls : pc'[d] # "throttled"
    BY <2>2 DEF Goto, TypeOK, RunInv
  <2>3. ASSUME NEW c \in Calls, RetryOrFail(c)
        PROVE  Blocked /\ \A d \in Calls : pc'[d] # "throttled"
    BY <2>3, <2>2 DEF RetryOrFail, Blocking
  <2>4. ASSUME NEW c \in Calls, NEW ends, ends \cap (Blocking \cup {"throttled"}) = {},
               StopAt(c, ends)
        PROVE  Blocked /\ \A d \in Calls : pc'[d] # "throttled"
    BY <2>4, <2>2 DEF StopAt
  <2>5. ASSUME NEW c \in Calls, NotedMaybe(c) PROVE \A p \in Procs : ~throttled'[p]
    BY <2>5 DEF NotedMaybe, Noted, Limits, RunInv, TypeOK
  <2>6. ASSUME UNCHANGED counters PROVE \A p \in Procs : Less(p)
    BY <2>6 DEF counters, TypeOK
  <2>7. ASSUME NEW c \in Calls, Free(Owner[c]), CapThenThrottle(c) PROVE RunInv'
    <3> USE <2>7 DEF CapThenThrottle, Goto, TypeOK
    <3>1. Calm
      BY DEF RunInv
    <3>2. ASSUME NEW d \in Calls, pc'[d] \in Blocking
          PROVE  (d = c /\ WithinRunCap(c)) \/ (d # c /\ pc[d] \in Blocking)
      <4>1. CASE d # c
        BY <3>2, <4>1
      <4>2. CASE d = c /\ ~WithinRunCap(c)
        <5>1. pc'[c] = "refused"
          BY <4>2
        <5> QED BY <3>2, <4>2, <5>1 DEF Blocking
      <4> QED BY <4>1, <4>2
    <3>3. \A d \in Calls : WithinRunCap(d) => WithinRunCap(d)'
      BY DEF WithinRunCap, counters
    <3>4. RunCapHolds'
      BY DEF RunInv, RunCapHolds, counters
    <3>5. \A d \in Calls : Owner[d] = Owner[c] => pc[d] \notin Blocking
      BY DEF Free
    <3>6. \A d \in Calls : pc'[d] \in Blocking => WithinRunCap(d)'
      BY <3>2, <3>3 DEF RunInv
    <3>7. \A d, e \in Calls :
            Owner[d] = Owner[e] /\ pc'[d] \in Blocking /\ pc'[e] \in Blocking => d = e
      <4> HIDE <2>7 DEF TypeOK, CapThenThrottle, Goto
      <4> QED BY <3>2, <3>5 DEF RunInv
    <3> QED BY <3>1, <3>4, <3>6, <3>7 DEF RunInv
  <2>8. ASSUME NEW c \in Calls, Begin(c) PROVE RunInv'
    BY <2>7, <2>8 DEF Begin
  <2>9. ASSUME NEW c \in Calls, BeginWithSync(c) PROVE RunInv'
    BY <2>1, <2>2, <2>6, <2>9 DEF BeginWithSync, Blocking, RunInv
  <2>10. ASSUME NEW c \in Calls, NEW usage \in RemoteReadings, Synced(c, usage)
         PROVE  RunInv'
    BY <2>7, <2>10 DEF Synced
  <2>11. ASSUME NEW c \in Calls, SyncFailed(c) PROVE RunInv'
    BY <2>1, <2>2, <2>6, <2>11 DEF SyncFailed, Blocking, RunInv
  <2>12. ASSUME NEW c \in Calls, Wake(c) PROVE RunInv'
    BY <2>12 DEF Wake, RunInv
  <2>13. ASSUME NEW c \in Calls, Check(c) PROVE RunInv'
    <3>1. Blocked /\ Calm
      BY <2>13 DEF Check, Goto, Blocking, TypeOK, RunInv
    <3> QED BY <2>1, <2>6, <2>13, <3>1 DEF Check
  <2>14. ASSUME NEW c \in Calls, Reserve(c) PROVE RunInv'
    <3> USE <2>14 DEF Reserve, Goto, TypeOK
    <3>1. Calm /\ Blocked /\ pc'[c] \notin Blocking /\ pc[c] \in Blocking
      BY DEF RunInv, Blocking
    <3>2. \A d \in Calls : pc'[d] \in Blocking => Owner[d] # Owner[c]
      BY <3>1 DEF RunInv
    <3>3. \A p \in Procs : p # Owner[c] => run_reserved'[p] = run_reserved[p]
      OBVIOUS
    <3>4. ASSUME RunCap > 0, NEW p \in Procs
          PROVE  run_spent'[p] + run_reserved'[p] <= RunCap
      <4>1. CASE p # Owner[c]
        BY <3>3, <3>4, <4>1 DEF RunInv, RunCapHolds
      <4>2. CASE p = Owner[c]
        <5>1. run_spent[p] + run_reserved[p] + Worst[c] <= RunCap
          BY <3>1, <3>4, <4>2 DEF RunInv, WithinRunCap
        <5>2. run_reserved'[p] = run_reserved[p] + Worst[c] /\ run_spent'[p] = run_spent[p]
          BY <4>2
        <5> QED BY <5>1, <5>2
      <4> QED BY <4>1, <4>2
    <3>5. ASSUME NEW d \in Calls, pc'[d] \in Blocking PROVE WithinRunCap(d)'
      BY <3>1, <3>2, <3>3, <3>5 DEF RunInv, WithinRunCap
    <3> QED BY <3>1, <3>4, <3>5 DEF RunInv, RunCapHolds
  <2>15. ASSUME NEW c \in Calls, NEW usd \in 0 .. Worst[c], Send(c, usd) PROVE RunInv'
    BY <2>1, <2>2, <2>6, <2>15 DEF Send, Blocking, RunInv
  <2>16. ASSUME NEW c \in Calls, NEW how, NEW usd \in 0 .. Worst[c], Settle(c, how, usd)
         PROVE  \A p \in Procs : Less(p)
    BY <2>16 DEF Settle, TypeOK
  <2>17. ASSUME NEW c \in Calls, GiveBack(c) PROVE \A p \in Procs : Less(p)
    BY <2>17 DEF GiveBack, TypeOK
  <2>18. ASSUME NEW c \in Calls, pc[c] = "sent"
         PROVE  billed[Now(c)] \in 0 .. Worst[c]
    BY <2>18 DEF TypeOK, BooksInv, CallBooks, Covered, Counted, Now, Attempts, InFlight
  <2>19. ASSUME NEW c \in Calls, SettlesBill(c) PROVE RunInv'
    <3>1. \A p \in Procs : Less(p)
      BY <2>16, <2>18, <2>19 DEF SettlesBill, Pending, Usage, SettleAt
    <3> QED BY <3>1, <2>1, <2>4, <2>5, <2>19 DEF SettlesBill, Blocking
  <2>20. ASSUME NEW c \in Calls, SettlesWorst(c) PROVE RunInv'
    <3>1. Worst[c] \in 0 .. Worst[c]
      OBVIOUS
    <3> QED BY <3>1, <2>1, <2>3, <2>4, <2>5, <2>16, <2>20 DEF SettlesWorst, SettleAt, Blocking
  <2>21. ASSUME NEW c \in Calls, GivesBack(c) PROVE RunInv'
    BY <2>1, <2>3, <2>4, <2>5, <2>17, <2>21 DEF GivesBack, Blocking
  <2>22. ASSUME NEW c \in Calls, Garbled(c) PROVE RunInv'
    <3>1. \A p \in Procs : Less(p)
      BY <2>22 DEF Garbled, TypeOK
    <3>2. Calm /\ Blocked
      BY <2>2, <2>22 DEF Garbled, Blocking, RunInv, Noted, Limits
    <3> QED BY <3>1, <3>2, <2>1
  <2>23. ASSUME NEW c \in Calls, Cancel(c) PROVE RunInv'
    <3>1. Calm /\ Blocked
      BY <2>2, <2>23 DEF Cancel, Blocking, RunInv
    <3>2. GiveBack(c) \/ SettleAt(c, Worst[c]) \/ UNCHANGED counters
      BY <2>23 DEF Cancel
    <3>3. Worst[c] \in 0 .. Worst[c]
      OBVIOUS
    <3> QED BY <3>1, <3>2, <3>3, <2>1, <2>6, <2>16, <2>17 DEF SettleAt
  <2>24. ASSUME NEW q \in Procs, Crash(q) PROVE RunInv'
    <3> USE <2>24 DEF Crash, TypeOK
    <3>1. Calm /\ Blocked
      BY DEF RunInv, Blocking
    <3>2. \A d \in Calls : pc'[d] \in Blocking => Owner[d] # q
      BY DEF Blocking, Live
    <3>3. \A p \in Procs : p # q =>
            run_spent'[p] = run_spent[p] /\ run_reserved'[p] = run_reserved[p]
      OBVIOUS
    <3>4. run_spent'[q] = 0 /\ run_reserved'[q] = 0
      OBVIOUS
    <3>5. RunCapHolds'
      BY <3>3, <3>4 DEF RunInv, RunCapHolds
    <3>6. ASSUME NEW d \in Calls, pc'[d] \in Blocking PROVE WithinRunCap(d)'
      BY <3>1, <3>2, <3>3, <3>6 DEF RunInv, WithinRunCap
    <3> QED BY <3>1, <3>5, <3>6 DEF RunInv
  <2>25. ASSUME NEW p \in Procs, ThrottleOver(p) PROVE RunInv'
    BY <2>25 DEF ThrottleOver, RunInv
  <2>26. CASE UNCHANGED vars
    BY <2>26 DEF vars, RunInv, RunCapHolds, WithinRunCap
  <2> QED
    BY <2>8, <2>9, <2>10, <2>11, <2>12, <2>13, <2>14, <2>15, <2>19, <2>20, <2>21,
       <2>22, <2>23, <2>24, <2>25, <2>26, StepCases
<1> QED BY <1>1, <1>2, Typing, Books, PTL DEF Spec

\* JEVE_RUN_CAP_USD holds for a process that is not throttled.
THEOREM RunCapTheorem == ASSUME ~MayThrottle PROVE Spec => []RunCapHolds
BY RunCaps, PTL DEF RunInv
=============================================================================
