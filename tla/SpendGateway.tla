----------------------------- MODULE SpendGateway -----------------------------
(***************************************************************************)
(* Paid calls of jeve.llm.gateway under the ceiling of jeve.llm.budget.    *)
(*                                                                         *)
(* Several processes share one spend ledger. In each of them calls are     *)
(* asyncio tasks: a task runs until it awaits, so everything between two   *)
(* awaits is one action, except authorise(), whose wait for the ledger     *)
(* lock lets OTHER processes run: it blocks the event loop of its own.     *)
(*                                                                         *)
(* A call makes up to MaxAttempts attempts, each with a reservation of its *)
(* own. What the provider bills for an attempt is fixed when it is sent    *)
(* and known to the process only if the answer comes back.                 *)
(***************************************************************************)
EXTENDS Integers, FiniteSets

CONSTANTS
  Procs,          \* processes on one database, one Gateway each
  Calls,          \* decide_raw or complete calls
  Owner,          \* Owner[c]: the process that makes c
  Explore,        \* the calls of purpose "explore"; the others are "gate"
  Worst,          \* Worst[c]: the worst case reserved for each attempt of c
  MaxAttempts,    \* MAX_ATTEMPTS
  Permits,        \* max_concurrency of a gateway
  RunCap,         \* JEVE_RUN_CAP_USD, of each process; 0 means none
  ExploreCeiling, HaltCeiling, HardCeiling,     \* the three rungs
  RemoteReadings, \* what /key may report above the baseline
  MayThrottle,    \* may a response carry x-ratelimit-remaining: 0?
  MayGarble,      \* may a 200 carry a body that does not parse?
  MayOmitCost     \* may a 200 come without usage.cost?

Attempts == Calls \X (0 .. MaxAttempts - 1)

ASSUME GatewayAssumption ==
  /\ Owner \in [Calls -> Procs]
  /\ Explore \subseteq Calls
  /\ Worst \in [Calls -> Nat \ {0}]
  /\ MaxAttempts \in Nat \ {0}
  /\ Permits \in Nat \ {0}
  /\ RunCap \in Nat
  /\ ExploreCeiling \in Nat /\ HaltCeiling \in Nat /\ HardCeiling \in Nat
  /\ RemoteReadings \subseteq Nat
  /\ MayThrottle \in BOOLEAN /\ MayGarble \in BOOLEAN /\ MayOmitCost \in BOOLEAN

VARIABLES
  pc,           \* where each call is
  attempt,      \* the attempt it is at
  entry,        \* what the ledger holds of each attempt
  booked,       \* the amount of its settle row, as reported or as estimated
  billed,       \* what the provider charges for it (no process knows this)
  settled, reserved,       \* the running total, see SpendLedger
  remote,       \* the last /key reading above the baseline
  run_spent, run_reserved, \* the counters of each gateway object
  throttled     \* is _throttle_until in the future?

vars == <<pc, attempt, entry, booked, billed, settled, reserved, remote,
          run_spent, run_reserved, throttled>>

ledger == <<entry, booked, settled, reserved>>
counters == <<run_spent, run_reserved>>

Blocking == {"locking", "locked"}          \* inside authorise()
Waiting  == {"syncing", "throttled", "backoff"}  \* an await with nothing held
InFlight == {"queued", "sent"}             \* an await with a reservation held
Live     == Blocking \cup Waiting \cup InFlight
Ended    == {"answered", "refused", "failed", "over_budget", "cancelled", "garbled"}

-----------------------------------------------------------------------------
Now(c) == <<c, attempt[c]>>

\* the event loop of p is stuck in a ledger call
Free(p) == \A c \in Calls : Owner[c] = p => pc[c] \notin Blocking

\* the advisory lock of the ledger is not held across an action
LedgerFree == \A c \in Calls : pc[c] # "locked"

Effective == IF settled + reserved >= remote THEN settled + reserved ELSE remote

\* mutant: the projection looks at settled spend alone
AllowedBySettled(c) ==
  /\ Effective < HardCeiling
  /\ c \in Explore => Effective < ExploreCeiling
  /\ Effective < HaltCeiling
  /\ settled + Worst[c] <= HardCeiling

\* BudgetGuard.authorise: may c reserve its worst case now?
Allowed(c) ==
  /\ Effective < HardCeiling
  /\ c \in Explore => Effective < ExploreCeiling
  /\ Effective < HaltCeiling
  /\ Effective + Worst[c] <= HardCeiling

\* mutant: the run cap does not count what is in flight
WithinRunCapSpent(c) ==
  RunCap > 0 => run_spent[Owner[c]] + Worst[c] <= RunCap

\* _check_run_cap, with the reservations in flight
WithinRunCap(c) ==
  RunCap > 0 => run_spent[Owner[c]] + run_reserved[Owner[c]] + Worst[c] <= RunCap

\* SpendLedger.settle and release, and the counters moved with them. What is
\* settled at the catalogue's price is told apart: the row says "ok, estimated".
Settle(c, how, usd) ==
  /\ LedgerFree
  /\ entry' = [entry EXCEPT ![Now(c)] = how]
  /\ booked' = [booked EXCEPT ![Now(c)] = usd]
  /\ settled' = settled + usd
  /\ reserved' = reserved - Worst[c]
  /\ run_spent' = [run_spent EXCEPT ![Owner[c]] = @ + usd]
  /\ run_reserved' = [run_reserved EXCEPT ![Owner[c]] = @ - Worst[c]]

SettleAt(c, usd) == Settle(c, "settled", usd)

GiveBack(c) ==
  /\ LedgerFree
  /\ entry' = [entry EXCEPT ![Now(c)] = "released"]
  /\ reserved' = reserved - Worst[c]
  /\ run_reserved' = [run_reserved EXCEPT ![Owner[c]] = @ - Worst[c]]
  /\ UNCHANGED <<booked, settled, run_spent>>

Goto(c, where) == pc' = [pc EXCEPT ![c] = where]

-----------------------------------------------------------------------------
Init ==
  /\ pc = [c \in Calls |-> "new"]
  /\ attempt = [c \in Calls |-> 0]
  /\ entry = [a \in Attempts |-> "none"]
  /\ booked = [a \in Attempts |-> 0]
  /\ billed = [a \in Attempts |-> 0]
  /\ settled = 0
  /\ reserved = 0
  /\ remote = 0
  /\ run_spent = [p \in Procs |-> 0]
  /\ run_reserved = [p \in Procs |-> 0]
  /\ throttled = [p \in Procs |-> FALSE]

\* the top of _attempt when no /key check is due, or what follows it
CapThenThrottle(c) ==
  /\ Goto(c, IF ~WithinRunCap(c) THEN "refused"
             ELSE IF throttled[Owner[c]] THEN "throttled"
             ELSE "locking")
  /\ UNCHANGED <<attempt, billed, ledger, counters, throttled>>

\* _attempt of a new call, or after the backoff of a retry. Whether the last
\* /key reading is older than REMOTE_RECHECK_SECONDS is a matter of the clock.
Begin(c) ==
  /\ pc[c] \in {"new", "backoff"}
  /\ Free(Owner[c])
  /\ CapThenThrottle(c)
  /\ UNCHANGED remote

BeginWithSync(c) ==
  /\ pc[c] \in {"new", "backoff"}
  /\ Free(Owner[c])
  /\ Goto(c, "syncing")
  /\ UNCHANGED <<attempt, billed, ledger, counters, throttled, remote>>

Synced(c, usage) ==
  /\ pc[c] = "syncing"
  /\ Free(Owner[c])
  /\ LedgerFree
  /\ usage >= remote                \* the provider reports a lifetime total
  /\ remote' = usage
  /\ CapThenThrottle(c)

\* /key could not be read: a TransportError that _post does not retry
SyncFailed(c) ==
  /\ pc[c] = "syncing"
  /\ Free(Owner[c])
  /\ Goto(c, "failed")
  /\ UNCHANGED <<attempt, billed, ledger, counters, throttled, remote>>

\* the sleep of a throttled call is over; the run cap is not looked at again
Wake(c) ==
  /\ pc[c] = "throttled"
  /\ Free(Owner[c])
  /\ Goto(c, "locking")
  /\ UNCHANGED <<attempt, billed, ledger, counters, throttled, remote>>

\* authorise: the lock is granted and the total read
Check(c) ==
  /\ pc[c] = "locking"
  /\ LedgerFree
  /\ Goto(c, IF Allowed(c) THEN "locked" ELSE "refused")
  /\ UNCHANGED <<attempt, billed, ledger, counters, throttled, remote>>

\* authorise: the reservation is appended and the transaction ends
Reserve(c) ==
  /\ pc[c] = "locked"
  /\ Goto(c, "queued")
  /\ entry' = [entry EXCEPT ![Now(c)] = "reserved"]
  /\ reserved' = reserved + Worst[c]
  /\ run_reserved' = [run_reserved EXCEPT ![Owner[c]] = @ + Worst[c]]
  /\ UNCHANGED <<attempt, billed, booked, settled, run_spent, throttled, remote>>

InUse(p) == {c \in Calls : Owner[c] = p /\ pc[c] = "sent"}

\* a permit of the semaphore is free; the provider decides what this will cost
Send(c, usd) ==
  /\ pc[c] = "queued"
  /\ Free(Owner[c])
  /\ Cardinality(InUse(Owner[c])) < Permits
  /\ Goto(c, "sent")
  /\ billed' = [billed EXCEPT ![Now(c)] = usd]
  /\ UNCHANGED <<attempt, ledger, counters, throttled, remote>>

-----------------------------------------------------------------------------
(* What becomes of a request that was sent.                                *)

Pending(c) ==
  /\ pc[c] = "sent"
  /\ Free(Owner[c])
  /\ UNCHANGED <<billed, remote>>

\* _note_rate_limit, on any response
Limits == IF MayThrottle THEN BOOLEAN ELSE {FALSE}

Noted(c, limited) ==
  throttled' = [throttled EXCEPT ![Owner[c]] = @ \/ limited]

\* mutant: the attempts are not counted
RetryForEver(c) ==
  /\ Goto(c, "backoff")
  /\ UNCHANGED attempt

\* _post: another attempt after a backoff, or the last error is raised
RetryOrFail(c) ==
  IF attempt[c] + 1 < MaxAttempts
  THEN /\ Goto(c, "backoff")
       /\ attempt' = [attempt EXCEPT ![c] = @ + 1]
  ELSE /\ Goto(c, "failed")
       /\ UNCHANGED attempt

\* _usage_from: what the answer says it cost. Without usage.cost it is priced
\* from the catalogue: what was charged may be more or less than its tokens come
\* to there, and an answer that counts no tokens is booked at nothing.
Usage(c) ==
  \/ SettleAt(c, billed[Now(c)])
  \/ MayOmitCost /\ \E usd \in 0 .. Worst[c] : Settle(c, "estimated", usd)

Answer(c, limited) ==
  /\ Pending(c)
  /\ Usage(c)
  /\ Goto(c, "answered")
  /\ Noted(c, limited)
  /\ UNCHANGED attempt

\* an httpx error: nobody knows whether it was billed
ConnectionLost(c) ==
  /\ Pending(c)
  /\ SettleAt(c, Worst[c])
  /\ RetryOrFail(c)
  /\ UNCHANGED throttled

\* a status that may have been billed: 5xx is retried, any other is not
BilledError(c, retryable, limited) ==
  /\ Pending(c)
  /\ SettleAt(c, Worst[c])
  /\ IF retryable THEN RetryOrFail(c) ELSE Goto(c, "failed") /\ UNCHANGED attempt
  /\ Noted(c, limited)

\* UNBILLED_STATUSES: 429 is retried, 402 is the provider's own ceiling
UnbilledError(c, status, limited) ==
  /\ Pending(c)
  /\ billed[Now(c)] = 0
  /\ GiveBack(c)
  /\ \/ status = 429 /\ RetryOrFail(c)
     \/ status = 402 /\ Goto(c, "over_budget") /\ UNCHANGED attempt
     \/ status \notin {402, 429} /\ Goto(c, "failed") /\ UNCHANGED attempt
  /\ Noted(c, limited)

\* a 200 whose body raises before settle is reached: only finally runs
Garbled(c) ==
  /\ MayGarble
  /\ Pending(c)
  /\ Goto(c, "garbled")
  /\ run_reserved' = [run_reserved EXCEPT ![Owner[c]] = @ - Worst[c]]
  /\ \E limited \in Limits : Noted(c, limited)
  /\ UNCHANGED <<attempt, ledger, run_spent>>

-----------------------------------------------------------------------------
(* What happens to a call from outside.                                    *)

\* mutant: a call cancelled in flight gives its reservation back
CancelReleases(c) ==
  /\ pc[c] \in Waiting \cup InFlight
  /\ Free(Owner[c])
  /\ Goto(c, "cancelled")
  /\ IF pc[c] \in InFlight THEN GiveBack(c) ELSE UNCHANGED <<ledger, counters>>
  /\ UNCHANGED <<attempt, billed, throttled, remote>>

\* the batch is past its deadline: CancelledError at whatever c awaits
Cancel(c) ==
  /\ pc[c] \in Waiting \cup InFlight
  /\ Free(Owner[c])
  /\ Goto(c, "cancelled")
  /\ CASE pc[c] = "queued" -> GiveBack(c)
       [] pc[c] = "sent"   -> SettleAt(c, Worst[c])
       [] OTHER            -> UNCHANGED <<ledger, counters>>
  /\ UNCHANGED <<attempt, billed, throttled, remote>>

\* the process dies and starts again with an empty gateway
Crash(p) ==
  /\ \E c \in Calls : Owner[c] = p /\ pc[c] \in Live
  /\ pc' = [c \in Calls |-> IF Owner[c] = p /\ pc[c] \in Live THEN "dead" ELSE pc[c]]
  /\ run_spent' = [run_spent EXCEPT ![p] = 0]
  /\ run_reserved' = [run_reserved EXCEPT ![p] = 0]
  /\ throttled' = [throttled EXCEPT ![p] = FALSE]
  /\ UNCHANGED <<attempt, billed, ledger, remote>>

ThrottleOver(p) ==
  /\ throttled[p]
  /\ throttled' = [throttled EXCEPT ![p] = FALSE]
  /\ UNCHANGED <<pc, attempt, billed, ledger, counters, remote>>

Outcome(c) ==
  \/ ConnectionLost(c)
  \/ Garbled(c)
  \/ \E limited \in Limits :
       \/ Answer(c, limited)
       \/ \E retryable \in BOOLEAN : BilledError(c, retryable, limited)
       \/ \E status \in {400, 402, 429} : UnbilledError(c, status, limited)

\* what c does by itself once it has begun
Step(c) ==
  \/ pc[c] = "backoff" /\ (Begin(c) \/ BeginWithSync(c))
  \/ \E usage \in RemoteReadings : Synced(c, usage)
  \/ SyncFailed(c)
  \/ Wake(c)
  \/ Check(c)
  \/ Reserve(c)
  \/ \E usd \in 0 .. Worst[c] : Send(c, usd)
  \/ Outcome(c)

Next ==
  \/ \E c \in Calls : Step(c) \/ Cancel(c)
  \/ \E c \in Calls : pc[c] = "new" /\ (Begin(c) \/ BeginWithSync(c))
  \/ \E p \in Procs : Crash(p) \/ ThrottleOver(p)

\* Every await of a call ends: httpx has a timeout, sleeps are bounded, and
\* Postgres grants the lock to whoever waits. Nothing has to fail or be
\* cancelled, and nobody has to start a call.
Fairness == \A c \in Calls : WF_vars(Step(c))

Spec == Init /\ [][Next]_vars
FairSpec == Spec /\ Fairness

-----------------------------------------------------------------------------
\* Every variable has its type. What is reserved is an integer here: a close
\* takes away what its own reservation added.
TypeOK ==
  /\ pc \in [Calls -> {"new", "dead"} \cup Live \cup Ended]
  /\ attempt \in [Calls -> 0 .. MaxAttempts - 1]
  /\ entry \in [Attempts -> {"none", "reserved", "settled", "estimated", "released"}]
  /\ booked \in [Attempts -> Nat]
  /\ billed \in [Attempts -> Nat]
  /\ settled \in Nat
  /\ reserved \in Int
  /\ remote \in Nat
  /\ run_spent \in [Procs -> Nat]
  /\ run_reserved \in [Procs -> Int]
  /\ throttled \in [Procs -> BOOLEAN]

\* LLM-0004: "$20 means stop, not slow down". Whatever is in flight, in
\* whichever process, what the ledger counts as spent and what may still be
\* never passes the hard ceiling.
NeverPastTheCeiling == settled + reserved <= HardCeiling

\* What the ledger counts for an attempt is never less than what the provider
\* charges for it: a crash, a lost answer or a cancelled call over-counts. An
\* answer that does not say what it cost is left out: the ledger has an estimate.
Counted(a) ==
  IF entry[a] = "reserved" THEN Worst[a[1]]
  ELSE IF entry[a] \in {"settled", "estimated"} THEN booked[a] ELSE 0

EachAttemptIsCovered ==
  \A a \in Attempts : entry[a] # "estimated" => billed[a] <= Counted(a)

\* authorise: "The caller must eventually settle or release call_id". A call
\* that ended, and whose process did not die, has no reservation standing.
NothingLeftOpen ==
  \A c \in Calls : pc[c] \in Ended =>
    \A k \in 0 .. MaxAttempts - 1 : entry[<<c, k>>] # "reserved"

\* JEVE_RUN_CAP_USD: "One process may not spend more than this", counting
\* what it has in flight.
RunCapHolds == RunCap > 0 => \A p \in Procs : run_spent[p] + run_reserved[p] <= RunCap

\* Only the latest attempt of a call can be open, so a retry never starts
\* before the attempt it replaces is accounted for.
OneAttemptAtATime ==
  \A c \in Calls, k \in 0 .. MaxAttempts - 1 :
    entry[<<c, k>>] = "reserved" => k = attempt[c]

\* The rungs hold at the moment a reservation is made, not only when they were
\* looked at: no other process moved the total in between.
ReservedUnderTheRungs ==
  [][\A c \in Calls : entry'[Now(c)] = "reserved" /\ entry[Now(c)] # "reserved"
       => Allowed(c)]_vars

\* A call that has begun comes to an end.
EveryCallEnds == \A c \in Calls : pc[c] \in Live ~> pc[c] \in Ended \cup {"dead"}
=============================================================================
