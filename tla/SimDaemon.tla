------------------------------- MODULE SimDaemon -------------------------------
(***************************************************************************)
(* The run loop of jeve.sim.daemon: _supervise holds a connection to the   *)
(* world, _loop ticks it, and between them they decide when the next tick  *)
(* runs, waits, pauses or never comes (SIM-0001 to SIM-0004, CORE-0002).   *)
(* What a tick does to the world is TickTransaction's; here it commits and *)
(* costs something, or raises and may have cost something.                 *)
(***************************************************************************)
EXTENDS Integers

CONSTANTS
  Until,        \* the horizon
  Shut,         \* times at which nothing is open
  Dawn,         \* Dawn[t]: next_open of a time in Shut
  Asks,         \* times whose tick needs a live model call
  Budget,       \* --daily-budget, per window
  Costs,        \* what a tick that asks may cost
  MaxFaults,    \* bound of the model on lost connections, weather and kills
  MayLose,      \* may the connection to the database be lost?
  LosesAll,     \* does an outage take the other connections with it?
  MayKill,      \* may the process be killed?
  MayStop,      \* may somebody ask it to stop?
  Idle,         \* --idle: stay up at the horizon
  MayHalt,      \* may a tick raise what waiting cannot fix?
  HasMaxWait,   \* is there a --max-wait?
  HasRival      \* is there another daemon on this database?

Time == 0 .. Until \cup {Dawn[t] : t \in Shut}

ASSUME DaemonAssumption ==
  /\ Until \in Nat
  /\ Shut \subseteq Nat
  /\ Dawn \in [Shut -> Nat]
  /\ \A t \in Shut : Dawn[t] > t /\ Dawn[t] \notin Shut
  /\ Asks \subseteq Nat
  /\ Budget \in Nat \ {0}
  /\ Costs \subseteq Nat
  /\ MaxFaults \in Nat
  /\ {MayLose, LosesAll, MayKill, MayStop, Idle, MayHalt, HasMaxWait, HasRival}
       \subseteq BOOLEAN

VARIABLES
  time,      \* sim_meta.sim_time
  status,    \* sim_meta.status
  at,        \* where the process is
  code,      \* how it ended
  holder,    \* who has the writer lock
  used,      \* _live_spend - window_spent_from
  elapsed,   \* has the window of window_started gone by?
  failing,   \* failures > 0
  broke,     \* budget_since > 0
  ledger,    \* the gateway's connection to the spend ledger
  stop,      \* has a signal arrived?
  ran,       \* has this process committed a tick?
  bought,    \* what this process spent since a window last went by
  sessions,  \* how many sessions it spent it in
  unclamped, \* was a session, or a process, lost past the horizon? (no variable
             \* of the program holds any of these three)
  faults

vars == <<time, status, at, code, holder, used, elapsed, failing, broke, ledger,
          stop, ran, bought, sessions, unclamped, faults>>

\* at: "connecting" the top of _supervise
\*     "top"        the top of _loop
\*     "skipped"    past dead time, and maybe past the horizon
\*     "pausing"    the window's budget is spent
\*     "backoff"    the last attempt at this tick raised
\*     "idle"       at the horizon, with nothing more to do
\*     "exited"
world == <<time, status, unclamped>>
governor == <<used, elapsed, bought, sessions>>
locals == <<failing, broke>>

Init ==
  /\ time = 0
  /\ status = "paused"
  /\ at = "connecting"
  /\ code = "none"
  /\ holder = "nobody"
  /\ used = 0
  /\ elapsed = FALSE
  /\ failing = FALSE
  /\ broke = FALSE
  /\ ledger = "unopened"
  /\ stop = FALSE
  /\ ran = FALSE
  /\ bought = 0
  /\ sessions = 0
  /\ unclamped = FALSE
  /\ faults = 0

Fault ==
  /\ faults < MaxFaults
  /\ faults' = faults + 1

Exit(how) ==
  /\ at' = "exited"
  /\ code' = how
  /\ holder' = IF holder = "me" THEN "nobody" ELSE holder

-----------------------------------------------------------------------------
(* _supervise                                                              *)

\* connect, _prepare, a new Engine, and the locals of a new _loop
Connect ==
  /\ at = "connecting"
  /\ ~stop
  /\ holder = "nobody"
  /\ holder' = "me"
  /\ at' = "top"
  /\ status' = "running"
  /\ used' = 0 /\ elapsed' = FALSE
  /\ bought' = IF elapsed THEN 0 ELSE bought
  /\ sessions' = IF elapsed THEN 1 ELSE sessions + 1
  /\ failing' = FALSE /\ broke' = FALSE
  /\ UNCHANGED <<time, unclamped, code, ledger, stop, ran, faults>>

\* take_writer_lock gave up: "refusing to start"
Refused ==
  /\ at = "connecting"
  /\ ~stop
  /\ holder = "rival"
  /\ Exit("busy")
  /\ UNCHANGED <<world, governor, locals, ledger, stop, ran, faults>>

\* the database has not answered for --max-wait
GiveUp ==
  /\ HasMaxWait
  /\ at = "connecting"
  /\ Fault
  /\ Exit("no database")
  /\ UNCHANGED <<world, governor, locals, ledger, stop, ran>>

\* a signal while there is no connection: nowhere to write a status
StopWithout ==
  /\ at = "connecting"
  /\ stop
  /\ Exit("stopped")
  /\ UNCHANGED <<world, governor, locals, ledger, stop, ran, faults>>

\* DATABASE_WEATHER. Whether the sessions of the gateway thread go with it is
\* the weather's choice; SpendLedger never opens another (ledger.py:191).
SessionLost(was) ==
  /\ MayLose
  /\ Fault
  /\ at' = "connecting"
  /\ holder' = "nobody"
  /\ ledger' = IF LosesAll /\ was = "open" THEN "dead" ELSE was

\* the night ran past the horizon, and nobody is left to clamp it
Overslept == unclamped' = (unclamped \/ (at = "skipped" /\ time > Until))

Lose ==
  /\ at \in {"top", "skipped", "pausing", "backoff", "idle"}
  /\ SessionLost(ledger)
  /\ Overslept
  /\ UNCHANGED <<time, status, code, governor, locals, stop, ran>>

-----------------------------------------------------------------------------
(* _loop                                                                   *)

Stopped ==
  /\ at = "top"
  /\ stop
  /\ status' = "paused"
  /\ Exit("stopped")
  /\ UNCHANGED <<time, unclamped, governor, locals, ledger, stop, ran, faults>>

AtTheHorizon ==
  /\ at = "top"
  /\ ~stop
  /\ time >= Until
  /\ status' = "paused"
  /\ IF Idle THEN at' = "idle" /\ UNCHANGED <<code, holder>> ELSE Exit("horizon")
  /\ UNCHANGED <<time, unclamped, governor, locals, ledger, stop, ran, faults>>

\* the signal an idle process waits for
IdleOver ==
  /\ at = "idle"
  /\ stop
  /\ Exit("horizon")
  /\ UNCHANGED <<world, governor, locals, ledger, stop, ran, faults>>

\* skip_to_next_open, which knows nothing of a horizon, in its own transaction
Night ==
  /\ at = "top"
  /\ ~stop
  /\ time < Until
  /\ time \in Shut
  /\ time' = Dawn[time]
  /\ at' = "skipped"
  /\ UNCHANGED <<status, unclamped, code, holder, governor, locals, ledger, stop, ran, faults>>

\* the clamp to --until, another transaction, and the sleep
Clamp ==
  /\ at = "skipped"
  /\ time' = IF time > Until THEN Until ELSE time
  /\ at' = "top"
  /\ UNCHANGED <<status, unclamped, code, holder, governor, locals, ledger, stop, ran, faults>>

\* a window's worth of real time has gone by
WindowEnds ==
  /\ at # "exited"
  /\ ~elapsed
  /\ elapsed' = TRUE
  /\ UNCHANGED <<world, at, code, holder, used, bought, sessions, locals, ledger, stop, ran, faults>>

Due == at = "top" /\ ~stop /\ time < Until /\ time \notin Shut

\* the governor: this window's budget is spent
Pause ==
  /\ Due
  /\ ~elapsed
  /\ used >= Budget
  /\ status' = "paused_budget"
  /\ at' = "pausing"
  /\ UNCHANGED <<time, unclamped, code, holder, governor, locals, ledger, stop, ran, faults>>

\* the sleep is over when the window is, or when a signal cuts it short
Resume ==
  /\ at = "pausing"
  /\ elapsed \/ stop
  /\ status' = "running"
  /\ at' = "top"
  /\ UNCHANGED <<time, unclamped, code, holder, governor, locals, ledger, stop, ran, faults>>

\* what one attempt at a tick costs, in this window or in one that begins now
Spend(usd) ==
  /\ used' = (IF elapsed THEN 0 ELSE used) + usd
  /\ bought' = (IF elapsed THEN 0 ELSE bought) + usd
  /\ sessions' = IF elapsed THEN 1 ELSE sessions
  /\ elapsed' = FALSE

\* the gateway is opened by the first tick that needs it
Opened == IF time \in Asks /\ ledger = "unopened" THEN "open" ELSE ledger

\* mutant: the governor does not look
AttemptUngoverned(usd) ==
  /\ Due
  /\ usd \in (IF time \in Asks /\ ledger # "dead" THEN Costs ELSE {0})
  /\ Spend(usd)

\* an attempt at the tick: the governor has looked
Attempt(usd) ==
  /\ Due
  /\ elapsed \/ used < Budget
  /\ usd \in (IF time \in Asks /\ ledger # "dead" THEN Costs ELSE {0})
  /\ Spend(usd)

\* mutant: the model is back and the page is not told
TickQuietly(usd) ==
  /\ Attempt(usd)
  /\ ledger' = Opened
  /\ time \in Asks => ledger # "dead"
  /\ time' = time + 1
  /\ ran' = TRUE
  /\ failing' = FALSE /\ broke' = FALSE
  /\ UNCHANGED <<status, unclamped, at, code, holder, stop, faults>>

\* the tick commits
Tick(usd) ==
  /\ Attempt(usd)
  /\ ledger' = Opened
  /\ time \in Asks => ledger # "dead"
  /\ time' = time + 1
  /\ ran' = TRUE
  /\ status' = IF failing \/ broke THEN "running" ELSE status
  /\ failing' = FALSE /\ broke' = FALSE
  /\ UNCHANGED <<unclamped, at, code, holder, stop, faults>>

\* mutant: one HTTP 520 ends the process
WeatherIsFatal(usd) ==
  /\ Attempt(usd)
  /\ ledger' = Opened
  /\ time \in Asks
  /\ IF ledger = "dead" THEN UNCHANGED faults ELSE Fault
  /\ Exit("traceback")
  /\ UNCHANGED <<world, locals, stop, ran>>

\* MODEL_WEATHER, from the provider, or from a ledger without a connection
\* (JevPolicy._fill makes a TransportError of it)
Weather(usd) ==
  /\ Attempt(usd)
  /\ ledger' = Opened
  /\ time \in Asks
  /\ IF ledger = "dead" THEN UNCHANGED faults ELSE Fault
  /\ failing' = TRUE
  /\ status' = "waiting_on_model"
  /\ at' = "backoff"
  /\ UNCHANGED <<time, unclamped, code, holder, broke, stop, ran>>

\* the session is lost inside a tick, before its commit or on the answer to it
LoseInTick(usd) ==
  /\ Attempt(usd)
  /\ time \in Asks => ledger # "dead"
  /\ SessionLost(Opened)
  /\ time' \in {time, time + 1}
  /\ ran' = (ran \/ time' # time)
  /\ UNCHANGED <<status, unclamped, code, locals, stop>>

\* ProviderBudgetError: the account is out of credit (SIM-0003)
OutOfCredit(usd) ==
  /\ Attempt(usd)
  /\ ledger' = Opened
  /\ time \in Asks
  /\ ledger # "dead"
  /\ Fault
  /\ broke' = TRUE
  /\ status' = "waiting_on_budget"
  /\ at' = "backoff"
  /\ UNCHANGED <<time, unclamped, code, holder, failing, stop, ran>>

\* BudgetExceededError, ReplayMissError, ModelVersionDriftError
Halt(usd) ==
  /\ MayHalt
  /\ Attempt(usd)
  /\ ledger' = Opened
  /\ time \in Asks
  /\ ledger # "dead"
  /\ status' = "halted"
  /\ Exit("halted")
  /\ UNCHANGED <<time, unclamped, locals, stop, ran, faults>>

\* --max-wait is used up while the model, or the account, is out; or it is
\* shorter than the first wait
OutOfPatience(usd) ==
  /\ HasMaxWait
  /\ Attempt(usd)
  /\ ledger' = Opened
  /\ time \in Asks
  /\ IF ledger = "dead" THEN UNCHANGED faults ELSE Fault
  /\ status' = "halted"
  /\ Exit("no model")
  /\ UNCHANGED <<time, unclamped, locals, stop, ran>>

BackoffOver ==
  /\ at = "backoff"
  /\ at' = "top"
  /\ UNCHANGED <<world, code, holder, governor, locals, ledger, stop, ran, faults>>

-----------------------------------------------------------------------------
(* From outside.                                                           *)

Signal ==
  /\ MayStop
  /\ ~stop
  /\ at # "exited"
  /\ stop' = TRUE
  /\ UNCHANGED <<world, at, code, holder, governor, locals, ledger, ran, faults>>

RivalComes ==
  /\ HasRival
  /\ holder = "nobody"
  /\ Fault
  /\ holder' = "rival"
  /\ UNCHANGED <<world, at, code, governor, locals, ledger, stop, ran>>

RivalGoes ==
  /\ holder = "rival"
  /\ holder' = "nobody"
  /\ UNCHANGED <<world, at, code, governor, locals, ledger, stop, ran, faults>>

\* kill -9
Kill ==
  /\ MayKill
  /\ at # "exited"
  /\ Fault
  /\ Exit("killed")
  /\ Overslept
  /\ UNCHANGED <<time, status, governor, locals, ledger, stop, ran>>

\* a supervisor starts another process, with locals and a window of its own
Restart ==
  /\ code \in {"killed", "busy", "no database", "no model"}
  /\ at' = "connecting"
  /\ code' = "none"
  /\ used' = 0 /\ elapsed' = FALSE /\ bought' = 0 /\ sessions' = 0
  /\ failing' = FALSE /\ broke' = FALSE
  /\ ledger' = "unopened"
  /\ stop' = FALSE
  /\ ran' = FALSE
  /\ UNCHANGED <<world, holder, faults>>

Prices == Costs \cup {0}

Run ==
  \/ Connect \/ Refused \/ StopWithout
  \/ Stopped \/ AtTheHorizon \/ IdleOver \/ Night \/ Clamp \/ Pause \/ Resume \/ BackoffOver
  \/ \E usd \in Prices :
       Tick(usd) \/ Weather(usd) \/ OutOfCredit(usd) \/ Halt(usd) \/ OutOfPatience(usd)

Next ==
  \/ Run \/ Restart \/ WindowEnds
  \/ GiveUp \/ Lose \/ Signal \/ RivalComes \/ RivalGoes \/ Kill
  \/ \E usd \in Prices : LoseInTick(usd)

\* The process takes its steps, windows pass, a rival lets go, a supervisor
\* restarts what died, and faults are as many as MaxFaults and no more.
Spec == Init /\ [][Next]_vars
FairSpec ==
  /\ Spec
  /\ WF_vars(Run) /\ WF_vars(WindowEnds) /\ WF_vars(RivalGoes) /\ WF_vars(Restart)

-----------------------------------------------------------------------------

\* CORE-0002: "a sim-day's worth of real time has a model budget". What a
\* process buys in one window is the budget and the tick that went over it, for
\* each session it had in that window: a window is as local as a session.
GovernorHolds ==
  \A c \in Costs :
    (\A d \in Costs : d <= c) => bought <= sessions * (Budget + c - 1)

\* The page says it is waiting only while the tick before it has failed, and a
\* pause is over when the loop goes on.
StatusIsHonest ==
  at = "top" =>
    /\ status \in {"waiting_on_model", "waiting_on_budget"} => failing \/ broke
    /\ status # "paused_budget"
    /\ status # "halted"

\* SIM-0002, SIM-0004: weather is waited out, and the world gets to its horizon.
Over == time >= Until \/ code \in {"stopped", "halted"}

WaitingEnds == <>Over

\* The same unless an outage took the ledger's session, which nothing replaces.
WaitsAreOver == <>Over \/ <>[](ledger = "dead")
=============================================================================
