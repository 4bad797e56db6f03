# A specification of jeve in TLA+

jeve simulates a small town of firms whose people decide through a language
model. One process, the daemon, runs the world tick by tick in Postgres; an API
reads the same database; a web application draws it. What the design documents
promise (`src/docs/design`) is mostly about things going wrong: a daemon that is
killed, a provider that answers late, a bill that is paid while somebody argues
about it, money that is spent twice. These modules state those promises, check
them with TLC on small instances, and prove the most important ones with TLAPS
for instances of any size.

Paths below are relative to `src/py/src/jeve/` unless they start with `src/`.

## 1. The system

### Components

| component | code | state it keeps | what it does to it |
|---|---|---|---|
| Spend ledger | `llm/ledger.py`, migrations 0008 and 0011 | `spend_entries` (append-only), the row of `spend_totals` | open and reconcile, reserve, settle, release, `/key` baseline and reading, each under one advisory lock |
| Budget and gateway | `llm/budget.py`, `llm/gateway.py` | counters of a run, throttle, semaphore; asyncio tasks | run cap, ladder of ceilings, request, retry and backoff, settlement of whatever an attempt came to |
| Tick and log | `world/engine.py` (`tick`), `world/events.py`, `db.py`, `sim/runner.py` | `events`, `sim_meta`, sequences, the writer lock | one transaction per tick; sequences put back after a rollback; skip of nights |
| Model calls | `decide/jev_policy.py`, `decide/recorder.py` | `model_calls`, the cassette file, calls in flight | look up, fetch a batch, store first-writer-wins, write through, interpret, replay |
| Daemon | `sim/daemon.py` | status, window of the governor, connection | connect, govern, tick, wait out weather, clamp to a horizon, stop |
| Receivables | `world/engine.py` flows 4 and 5, `world/flows.py`, `world/customers.py`, `world/shocks.py`, `world/episodes.py`, `memory/store.py` | `invoices`, `payments`, `ledger_entries`, `commitments`, `jobs` | issue, pay, dispute, resolve, credit, cancel, write off, fail, promise |
| Outages and support | `world/engine.py` flows 1 to 3, `world/episodes.py`, `world/engineering.py` | `modules`, `incidents`, `outage_notices`, `tickets` | break, notice, hear, file, press, hand off, prioritise, triage, answer, close, reopen, end |
| Firms and their money | `world/flows.py`, `world/economy.py`, `world/scheduler.py` | `orgs`, `persons`, `scheduled`, `ledger_entries` | payroll, rent, tax, stock, loans, reviews, leaving, hiring, failing: chains of jobs that put their successor in the queue |
| Closing the books | `world/flows.py`, `world/shocks.py` | `scheduled`, events | plan, sign off, defer, rework, estimate, true up, audit |
| Customers | `world/customers.py` | trust, discounts, subscriptions | revise trust, hear, recover, renew, offer, leave, win back |
| Timesheets, engineering | `world/timesheets.py`, `world/engineering.py` | `timesheets`, invoices, debt and allocation | work, log, lose, bill; allocate, deploy, look back |
| Cafe and households | `world/economy.py`, `world/engine.py` | stock, prices, cash | demand, sales, complaints |
| Conversations | `world/episodes.py`, `memory/store.py` | `episodes`, `facts`, `knowledge`, cooldowns, the day's budget | open, join, speak in rounds, end, take aside, carry news |
| Space | `world/space.py`, `world/map.py` | `positions` | arrive, ask, move, send, meet |
| Policies | `decide/policy.py`, `questions.py`, `gates.py`, `sampling.py` | none between ticks | settle, ask, answer, read, draw |
| Second opinions | `decide/escalation.py`, `decide/jev_policy.py` | `escalations`, marks in `model_calls` | trigger, choose within the allowance, ask in rounds, keep, apply |
| Clock, hashing, seeds | `core/*.py` | none | pure functions |
| API, reports | `api/*.py` | none | reads, by cursor |
| Studies | `sim/soak.py` and others | none of their own | drive the same engine |
| Renderer, web application, contracts | `src/packages`, `src/apps`, `src/tools` | none of the world's | draw and poll |

### How they interact

* The daemon calls the engine in its own thread, on one database session that
  holds the writer lock. The engine asks the policy for a batch of decisions
  inside the transaction of the tick; the policy hands the batch to a second
  thread with an asyncio loop, the gateway's, and waits.
* The gateway talks to the provider and to the spend ledger, over a connection of
  its own. API and daemon are different processes on one ledger.
* Handlers of the world talk to each other through rows: an invoice and a
  `dispute.resolve` job, an incident and its tickets, a promise and its
  `commitment.due`.
* Readers page through `events` by the last `seq` they saw.

### What is hard in it

Interleaving of calls in two processes at one ceiling; reading before an await or
a lock and using afterwards; a process killed, or its session lost, between any
two statements; sequences that a rollback does not take back; a deploy that lets
two versions overlap; a batch that is late; answers that are stored before they
are understood; jobs that come due after what they are about has changed; several
roads by which a bill ends; a chain of jobs of which each must queue the next; a
meeting that opens meetings; a judgement that rests on what was true a month ago; two
programs that answer the same question; and, everywhere, that the world must go on.
`PROJECT.json` lists each of these hazards at its line, with the properties that
would catch it.

## 2. The modules

| module | models | actions correspond to |
|---|---|---|
| `SpendLedger` | the ledger and its running total | methods of `SpendLedger`, each a transaction; a process of the previous version that appends without moving the total |
| `SpendGateway` | calls of several processes under the ceilings | the stretches of `Gateway._attempt` between two awaits, and `BudgetGuard.authorise` split at its lock |
| `WorldLog` | what readers are promised: whole ticks, numbered without a gap | - (abstract) |
| `TickTransaction` | sessions, the writer lock, the transaction of a tick and the sequence of `events.seq` | statements of `Engine.tick`, `_prepare`, `resync_sequences`; the end of a session at any point |
| `ModelCalls` | the batch of a tick, `model_calls`, the cassette | `decide_many`, `_fill`, `_Bridge`, `Recorder.store` split at the file write |
| `SimDaemon` | the run loop and the sessions it loses | the branches of `_supervise` and `_loop` |
| `Receivables` | bills, disputes, credits, promises, failures | one bill's turn in each handler |
| `Firms` | firms, their staff, their bank and the household they spend in, and the queue of recurring work | handlers of due jobs, in the order of `_run_due`; the tick that takes them off the queue; an engine that starts |
| `Outages` | modules that go down, who notices, the desk, and everything that ends an outage sooner | the phases of `Engine._advance` in their order, one action for each turn somebody has in a phase |
| `Months` | what the accountant promises: every month again, what was done by hand looked into once, what it cost on one bill | - (abstract) |
| `Closes` | `close.plan` and `close.run`, attempt by attempt | branches of `plan_closes` and `close_books`; the tick that takes them off the queue |
| `Hours` | the law firm's rows of `timesheets`, its price list and its month-end run | `timesheets.day`, `bill_hours`, `_month_end`, `_issue_invoices`, `_job_invoice_run`, `raise_prices` |
| `Engineering` | the week of the vendor's engineers and the debt it leaves | `allocate`, `deploy`, `postmortem`, `_move_debt` |
| `Subscribers` | trust and subscriptions from one billing to the next | `after_outage`, `_recover`, `renewals`, `win_back`, `_subscriptions`, `fail` |
| `Talk` | the conversations of a tick and who knows what | `episodes.run`, `_hold`, `_take_aside`, `_carry_the_news`, `space.run`, `_encounters` |
| `Rounds` | one conversation from its first round to its end | `_rounds`, `_fold`, the twin's and the model's acts |
| `Whereabouts` | where people are and when they are asked | `_place`, `decision_point`, `mind_of`, `run`, `send` |
| `SecondOpinions` | what is asked again, of whom, and what of it is on record | `_second_opinions`, `_look_up` and `_ask_tier1`, round by round |
| `Weighing` | from a distribution, or two, to a value | `distribution`, `triggers`, `applied`, `agrees`, `_argmax`, `_sample` |
| `Judgements` | gates, the rules twin's answers and the options put to the model, for all 29 kinds of decision | `settle`, `RulesPolicy.decide`; the question sets |
| `MC...` | instances for TLC | - |
| `...Proofs` | theorems about the module of that name; `DecidingProofs` has those of `ModelCalls`, `SecondOpinions`, `SpendLedger`, `Weighing` and `Judgements`, and those of `Hours`, whose sums need the same lemmas; `TownProofs` has those of `Closes`, `Subscribers`, `Talk`, `Rounds` and `Whereabouts` | - |

`TickTransaction` extends `WorldLog` and implements it (`KeepsThePromise`).
`Closes` implements `Months` (`KeepsThePromiseOfMonths`): what is still to be charged
is the rework noted on the job of the next close and the true-up noted beside it, and
a client is done with when no job of theirs is left; `Months` is weakly fair, so the
refinement says too that a month that is not ended is closed again. The
modules meet where one abstracts another: a tick is one action of `SimDaemon`,
and a transaction of `TickTransaction`; a call is one action of `ModelCalls`, and
a dozen of `SpendGateway`; the total that `SpendGateway` keeps is what
`SpendLedger` shows to be the fold of the ledger. `Receivables`, `Firms` and
`Outages` are three sets of handlers of one tick over disjoint rows; where they
touch, each takes the other's effect as a step that may happen at any time the
code allows it: a firm fails (`Fail`) in all three, by the rules of `Firms`, and
people leave in `Outages` as they do there. So it is with the modules of the town's
life: an outage is a module that is up or down in `Hours`, a fact about a firm in
`Whereabouts`, something that may have ended in `Engineering` and `Subscribers`. A
conversation of `Talk` is one step, and what may happen within it is `Rounds`. A
question of `Judgements` is one that `ModelCalls` fetches an answer to;
`SecondOpinions` may ask about it again, and `Weighing` says what is made of both.

Some conventions: faults are counted, and the bound (`MaxFaults`) is a constant;
switches named `May...` say which faults a run looks at; a definition whose
comment begins with "mutant:" is not part of the model: it is a plausible bug that
must break a property, so that we know the property says something.

Variables that no program variable stands for are marked in the module:
`billed` of `SpendGateway` (what the provider charges), `served`, `lost` and
`unlined` of `ModelCalls`, `bought`, `sessions` and `unclamped` of `SimDaemon`,
`standing` of `Receivables` (the sum of the postings of a bill), `paydays` and
`lapsed` of `Firms` (how many paydays a firm has paid, and the firms whose payroll
found nobody), the field `hits` of an incident in `Outages` (which outages the
complaints that moved it were about), `charged` and `closes` of `Closes` and `Months`,
the field `due` of a close, `billed` of `Subscribers`, `line` and `together` of
`Talk`, and `settled` of `SecondOpinions`. They record history and guard nothing.
In `Hours`, the month a row was billed in stands for its mark.

Times of `Outages` are kept as what is left of them, and its calendar is a cycle:
the world has no last day and needs no horizon, so that a property about what
must end looks at endless days.

## 3. The runs

`tlc -config <cfg> <module>` in this directory.

| run | question | bounds, and why they are enough |
|---|---|---|
| `gateway` | do the ceilings hold at every interleaving? | two calls in one process and one in another, two attempts each, any of which may end in an answer that does not say what it cost; room for two of three worst cases: each of the three rungs and the run cap refuses somewhere |
| `gateway_live` | does every call end, throttled or garbled? | one call in each of two processes |
| `tick` | is the committed world that of an undisturbed run, and are cursors safe when builds change? | two processes of any build, five ticks of which two are a night, four faults: two full crash-and-restart rounds |
| `daemon` | do the governor, the horizon, the page and the waits hold? | five ticks, two nights of which one goes past the horizon, two units of budget, four faults |
| `receivables` | do both ledgers agree about every bill, is every promise scored, does every bill end? | one bill of each kind (subscription, catering between firms, services to a client) and two promises; the constraint `TwoBills` looks at any two of them together, since what a handler does to a bill depends on at most one other |
| `firms` | are wages paid in order, chains of jobs single, desks filled once and hardship real? | two firms of two people each and the town's households over seven days, which are three weeks with their paydays, one day without office hours, accounts that start too low for the second week's wages, rent, tax and stock; two hires at most. Leaving takes two late paydays and failing three, so both happen |
| `outages` | is there one outage at a time, does it only come nearer, and do complaints and tickets find it? | one module, one user, somebody on the desk who may be rung and an engineer; two outages and two tickets, so that what is left over from one meets the next; an outage of a day and more, which the quarter, the half, the floor and the rounding all shorten, and two delays of a notice, at once and after the office tick |
| `deciding` | is a decision come by honestly, from the ledger to the value? | five parts, below |
| `town` | does the town's life keep what its documents promise? | seven parts, below |

`deciding` and `town` each put several modules that share no state side by side: a
behaviour picks one `part` in its first state and runs it, and the others stand as
they start (`MCDeciding`, `MCTown`). So the state space is the sum of the parts, not
their product, and each part is checked exactly as if it were alone; fairness is
conditional on the part where it is needed.

| part | bounds, and why they are enough |
|---|---|
| `ledger` of `deciding` | two handles, two calls, costs 1 and 2, four rows: open-reserve-settle with a row of the previous version before and between |
| `calls` | three requests over three ticks, each asked twice; three faults of any kind |
| `opinions` | two questions, both unsure, wanted six times over three ticks of one day; two models, an allowance of two, two mishaps: every want meets an allowance that is free, used by shadow, used by acting ones or full, and a retry or a restart with other live sets and another catalogue |
| `weighing` | distributions of up to two parts over three options: ties, zero mass, and two distributions of different totals at each of the three primitives, two modes, three levels of stakes |
| `judgements` | every kind with every combination of its facts; numbers stand on each side of the thresholds they are compared with; four firms, of which a room shows three |
| `closes` of `town` | one client and no capacity, so that the close is put off once by the plan, three attempts, months of five working days, two things done by hand, an audit, either firm failing: a late close runs into the plan after it. The months have no end, so the refinement's liveness is about endless behaviours |
| `hours` | two earners, two clients, and days 0, 1, 6 and 7, of which the first and the last are month-ends, and the last does not end. A row may be billed by the first run, if that is blocked, by the second, or be lost at the end of day 6; an odd total divides unevenly. Prices are seeded at 100 and may rise once, at any time, so that amounts and work differ; where a module is done without by hand it is up |
| `engineering` | the real numbers; weeks without end, two long outages in each |
| `subscribers` | a firm and a person who holds two subscriptions; all levels of trust; billings without end |
| `talk` | four people of three firms, one bill, one fact, three episodes: a conversation, its aside and the aside of that. One tick, with a budget of three and seats for three |
| `rounds` | two people in every part they may have in a stake, three rounds; twin and model |
| `whereabouts` | a cafe's lead and barista and one engineer; a week of five ticks with lunch, an hour, shifts that differ and a tick in which all are at home; two troubles, one of which only the vendor's people mind |

That variables keep their types is proved and in no run (section 4 says of which
modules). `OneWriter`, `NothingLeftOpen`, `NobodyIsOverdrawn` and `FailedIsOver` are
proved too, and no run repeats them: the runs ask what is not proved, or what a small
instance shows best.

### Where the code does less than it says

Three runs end in a violation, of what a comment or a document of the repository
says:

* `daemon_ledger`: `SpendLedger` opens one connection and never another; after an
  outage that takes it, every model call is weather. The passing run shows that
  every other wait ends (`WaitsAreOver`).
* `receivables_credit`: a credit looks for a bill with no `paid_sim` and finds one
  that was written off: the receivable goes below nothing.
* `talk_pairs`: when news is carried on, the pairs of that conversation are not noted
  as accounted for, so that two people in it who had also turned to each other are
  recorded as an encounter of the same tick, which `episodes.py:661` and
  `src/docs/design/011-episodes.md:111` rule out.

Others were met on the way. The passing properties carve out exactly these, so
that TLC and the proofs cover the rest:

* `jev_policy.py:333`: an answer that does not parse is stored before it is parsed
  and found by hash ever after; the tick is run again for ever, against
  `daemon.py:74`. It is the only way a tick stays undecided (`TicksAreDecided`).
* `gateway.py:452`: a throttled call sleeps between `_check_run_cap` and its
  reservation, so two of them can pass the run cap together. `RunCapHolds` is
  checked, and proved, with `MayThrottle = FALSE`; with `TRUE` TLC refutes it.
* `gateway.py:307`: an answer that does not say what it cost is priced from the
  catalogue, which may be less than was charged, and is nothing where the usage has no
  tokens either, against `gateway.py:9` ("it is never booked as free").
  `EachAttemptIsCovered` leaves out the attempts that are booked as estimates; without
  that exception TLC refutes it (`MayOmitCost = TRUE`, which both runs and the proofs
  allow).
* `gateway.py:609`: the worst case of a decision counts its prompt and no answer. The
  module takes it at its word: what is charged, reported or estimated for an attempt is
  never more than its worst case (`Send`, `Usage`).
* `gateway.py:557`: a 200 whose body does not parse raises before `settle`, and
  its reservation stands for ever, against `gateway.py:506` ("it is closed either
  way"). `NothingLeftOpen` is proved with `MayGarble = FALSE`.
* `ledger.py:229`: a row of the previous version appended after a handle has
  looked is skipped by the next move of the total (`Overlap = TRUE`).
* `daemon.py:255`: `_stamp_engine` draws a number before `resync_sequences` has run,
  so a deploy after a crash leaves a gap in `seq`, against
  `src/py/tests/test_resume.py:158`. `WorldLog` allows a gap exactly there
  (`NewBuild`); without deploys the log is dense (`DenseLog`, proved), and no cursor
  skips a row in either case (`NothingBehindACursor`).
* `jev_policy.py:79`: a batch past its deadline drops the answers it already had,
  against `jev_policy.py:360`: `PaidOnce` counts them (`lost`).
* `recorder.py:157`: a row whose line was cut off by a death is in the table and
  never in the cassette: `Replayable` leaves these out (`unlined`).
* `daemon.py:440`: a process that dies between the skip of a night and the clamp
  leaves the world past its horizon (`unclamped`).
* `daemon.py:415`: a lost session starts a new window of the governor, against
  `daemon.py:331`: `GovernorHolds` allows one budget for each session.
* `daemon.py:341`: a rival that takes the lock during an outage ends a run without
  its summary, though the comment says that nothing of it ran.
* `flows.py:203`: a credit that settles a bill scores no promise about it; promises
  about services bills are scored (`PromisesAreScored`).
* `episodes.py:1479`: when the day of the first of two promises about a bill comes,
  both are broken.
* `customers.py:492`: a firm that fails with a bill under dispute leaves it open for
  ever; `BillsEnd` leaves these out.
* `economy.py:908`: whether a desk is empty is asked by comparing ids as text, where
  "24" comes before "6". The firm whose people have ids of one digit re-hires for
  the same desk every week; `DesksAreFilledOnce` is about ids from 10.
* `flows.py:243`: a payroll that finds nobody at work queues no successor, against
  `flows.py:219`; `PaydaysInOrder` leaves these firms out (`lapsed`).
* `economy.py:465`: interest and repayments are taken from firms that have failed,
  though a failed firm "pays nobody": `FailedPaysOnlyTheBank` says no more than that.
* `economy.py:566`: a review that is already off the queue is not seen as pending, so
  a head may look twice in one tick.
* `economy.py:99` and `flows.py:333`: the weeks that wages are late are counted from the
  day they were due, whatever held them, and the question to stay is put at every
  retry, against "Asked once per missed payday". `HardshipIsReal` counts paydays.
* `engine.py:1080`: the desk is staffed without a look at `status`: support staff who
  left, or whose firm failed, go on triaging and answering. `Triage` and `Answer`
  are modelled so, and `EverythingEnds` does not depend on it.
* `economy.py:823`: after the vendor has failed "the product's outages stop reaching
  them", but outages that are open, their notices and starts that were already
  planned outlive it, and so do tickets about them.
* `engine.py:903`: that somebody has a ticket open ("not a choice", `gates.py:48`) is
  read for everybody before anybody has filed: one person who waits on two modules
  may file for both in one tick. `Waiting` is modelled so.
* `episodes.py:262`: a complaint relayed in the tick in which the outage ends finds no
  job to move, and is recorded as relayed all the same.
* `flows.py:588`: a close that comes up while nobody of the accountant's is at work
  returns without queueing another: the client's books are closed no more. `Months`
  allows it (`End`).
* `engine.py:2067`: a run of invoices that was blocked bills what has been logged by the
  day it is tried again, next month's hours included; `BillsAreHours` says once, and at
  one price list, not in which month nor at the list of that month. A retried run that finds nothing to bill leaves its mark of being
  stuck where it was.
* `customers.py:81`: whoever has once heard bad news is asked at every billing whether
  to renew, for ever: `LostToWhatIsFresh` leaves them out. It is about those who decide
  to leave: a firm that fails loses its subscriptions, and all are lost with the vendor
  (`economy.py:879`).
* `questions.py:661`: a room is described as three firms at most, and the twin may
  turn to somebody of a fourth, or of its own: `TheTwinStaysInTheQuestion` leaves these
  out.
* `escalation.py:22` says that high stakes widen every band; `SCORE_SIDE_ABOVE` is not
  widened (`ScoreStraddles`).
* `episodes.py:1381`: those who are drawn into a carried conversation are not held to
  their cooldown. `CarryTheNews` is modelled so.
* `episodes.py:892`: a room that empties in the last round ends for its rounds.
* `src/docs/design/009-persistence.md:60` has a tick decide "outside any transaction";
  the engine decides within the transaction of the tick (`engine.py:541`), which is
  what is modelled.

### Fairness

* `SpendGateway`: weak fairness of each call's own steps. Every await of a call
  ends: httpx has a timeout, sleeps are bounded, Postgres grants the lock.
* `TickTransaction`: weak fairness of what a process does by itself; faults are
  finite, and a supervisor restarts what dies (`src/fly.toml`).
* `ModelCalls`: the same, and strong fairness of a proper answer to a request that
  is asked again and again: the provider is not broken for ever. A halt on another
  build waits for a person, who is assumed to come.
* `SimDaemon`: the loop takes its steps, windows of time pass, a rival lets go, a
  supervisor restarts a process that ended for a reason a restart may cure.
* `Receivables`: the daemon keeps ticking (`ReachesTheHorizon`, `WaitsAreOver`), and
  a tick runs what is due. Nobody has to pay.
* `Closes` and `Engineering`: weak fairness of the work of the tick and of the days of
  the week: the daemon keeps ticking. Nobody has to be at work; `LeavesTheTrap` is
  about towns in which, from some time on, somebody decides on Mondays.
* `Outages`: weak fairness of the next-state relation and of nothing else: the daemon
  keeps ticking, and a tick is finite. Nobody has to notice, answer or confirm. It
  is enough because steps within a phase each use something up, and only the clock
  goes round.

## 4. The proofs

`tlapm <module>` in this directory; all obligations are proved by Z3, Zenon and
LS4. The theorems hold for any number of processes, calls, firms, bills, outages and
people, for any costs and for calendars of any length, from the assumptions that each
module names (`GatewayAssumption`, `DaemonAssumption`, `OutagesAssumption` and so on).
They bound numbers (a trial lasts more than two rounds, a customer is at risk at no more
than the trust it starts with), say that the staff, the days and the clients are
finitely many, or say what an engine starts from: `OneFirstPayday` and
`FirstOfEachChain`, that it plans one of each recurring job. `NoneAssumption` says that
what stands for an empty column is not an answer.

* `SpendGatewayProofs`. `BooksInv` strengthens the types: what is reserved is the
  sum over open reservations, taken apart into one fact per attempt so that no sum
  has to be reasoned about, and an attempt is open only where its call stands.
  From it `EachAttemptIsCovered`, `OneAttemptAtATime`, `NothingLeftOpen`; an attempt
  that is booked at an estimate is known to be closed, and not at what.
  `CeilingInv` adds that a call that has looked and not yet reserved still holds
  the lock, so what it saw still stands; from it `NeverPastTheCeiling` and
  `ReservedUnderTheRungs`. `RunInv` says the same of the counters of one process,
  whose loop is blocked while it waits for the lock: `RunCapHolds`.
* `TickTransactionProofs`. `LockInv`: who writes holds the lock (`OneWriter`).
  `RowsInv`: committed rows rise and stay below the sequence, wherever the writer
  is (`SequenceAhead`, `NothingBehindACursor`). `NumberInv`: once the sequences are
  put back, what the open transaction writes is numbered from the last committed row
  on; from it every step is a step of `WorldLog` or a stutter (`Implements`), deploys
  included. `DenseInv`: without deploys the rows are numbered by position
  (`DenseLog`).
* `SimDaemonProofs`. `GovernorHolds` compares what was bought in a window with the
  number of sessions there; `SessionInv` says how much of it the last session has
  counted itself, and that the sessions before it bought no more than their share.
  `StatusInv` says `StatusIsHonest` at every place that leads to the top of the loop,
  not only there: a tick that ends well leaves no word of a wait behind. `LockInv` and
  `HorizonInv` say who holds the writer lock and how the world comes to be past its
  horizon; from them `OneWriter` and `Clamped`.
* `ReceivablesProofs`. `FreshInv`: nothing has happened to a bill before it is
  issued. With it `BooksAgree`, `CashIsNeverConjured`, `DisputesAreHeard` and
  `PromisesAreScored` are each preserved by every step.
* `FirmsProofs`. `Solvent` says of accounts, purses and debts what
  `NobodyIsOverdrawn` says, in the form in which a payment of what is there, or less,
  preserves it, and is carried together with the types. `PaydayInv` follows the
  payroll of a firm from the queue to the work of this tick and back, so that there
  is one for each firm in business and it is for the first unpaid payday
  (`PaydaysInOrder`); `Idle` says that a firm that failed employs
  nobody, which no hire that was already off the queue undoes (`FailedIsOver`). `HardshipIsReal` rests on the arithmetic of weeks: how many
  paydays lie between two days is a quotient, which lemmas `Quotient` and
  `Multiples` bring within the solver's reach. `ChainsInv` says of each chain of
  recurring jobs that one link of it is in the queue or taken off, and that only a
  founder's review is called at need (`OneOfEach`). `DesksInv` is stronger than
  `DesksAreFilledOnce`, which is not inductive: hiring counts the desks by their
  numbers, not by who sits at them, so one must know that whoever was ever employed in
  a role found fewer than there are desks taken by those numbered before.
* `OutagesProofs`. `OutageInv` is the conjunction of nine parts, of which these carry
  it. `EndInv`: an open outage has exactly one job that ends it, in the queue or taken
  off it, and a closed one has none; so `OneOutageAtATime`, and so what moves an end
  has one to move (`NeverLonger`). `HandoffInv`: a complaint on its way finds the outage
  it is about, or none, because no start is due between the end of that outage and the
  complaint; without it a complaint could press the next outage (`HitsInv`, the first
  half of `EverythingIsAboutItsOutage`). `TodoInv` and `TicketInv`: who is still to
  decide has not reported, and whoever reported an open outage has a ticket about it,
  triaged or not (the second half). `NoticeInv`: no notice is pending for what is over
  (`NobodyNoticesAfter`).
* `DecidingProofs`. `CallsInv` says where an answer that was paid for is (in hand, on
  record, or lost) and that table and cassette agree line by line: `PaidOnce`,
  `Replayable`, and that what is on record stands (`RecordedForGood`). `OpinionsInv`
  says that who was heard in a round is on record or marked, that one turned away found
  the allowance taken by those that act, and that what a committed decision stood on
  still is found first: `LiveOpinionsReplay`, `ShadowTakesNoLivePlace`. `LedgerInv`: the
  total says how far it goes and is the fold of the rows that far, if versions do not
  overlap (`OpenLedgerIsExact`; section 3 shows what happens if they do). `HoursInv`: a
  month whose run is still to come has nothing on its bills; `BillsAreHours` is then an
  equality of two sums, which the run's rounding leaves less than a cent per client
  apart, and the list the bills of a month were made at is one of those up to today's,
  since a list that is raised is never lower (`PricesRise`). `TheTwinStaysInTheQuestion` holds of each of the 29 kinds by itself, for any
  number of firms and people; `WeighedFairly` rests on what scanning the options from the
  first to the last leaves (`RunsUp`).
* `TownProofs`. `RoundsInv`: where there is only news, who has some was asked in the
  first round, so no conversation of that kind lasts until the rounds run out
  (`TheTwinHoldsAConversation`). `EarnedBack`: a level of trust is earned back at every
  billing but the first after an outage, and a failure only takes subscriptions away
  (`LostToWhatIsFresh`). `ClosesInv` has what each
  job that is planned or running may say, in the office and out of it; from it
  `ClosedInTime` and that each step of the closes is one of `Months` or a stutter
  (`KeepsThePromise`). `TalkInv`: the line of matters of the last episode, and the
  line each aside that is still owed will go on with, have no outage and no bill twice
  (`NeverBackToAMatter`). `NobodyKeepsAnOldMind` is a matter of one step.

Sums and scans are folds or recursive functions, and the theorems of induction are
out of the provers' reach. They are reasoned about by least counterexample instead
(`LeastNatural`, `LeastSet`): that a function with such a definition exists and satisfies
its equation, that a sum does not depend on the order, that it grows by what is put in.
So what those sums are is proved, for any finite set, and not only checked on a few.

Proved and in no run: `DenseLog` (which needs `MayDeploy = FALSE`), `OneAttemptAtATime`,
`ReservedUnderTheRungs`, `CashIsNeverConjured`, `RecordedForGood`, `Locked`, the
daemon's `OneWriter` and `Clamped`, and the types of all these modules but
`Engineering`, `Talk` and `Whereabouts`. The safety half of the refinement of `Months`
(`KeepsThePromise`) is part of what `KeepsThePromiseOfMonths` checks.

`DesksAreFilledOnce` is proved for firms whose first ids are as long as later ones;
section 3 has the firm whose are not. `RunCapHolds` is proved where nothing throttles,
with the same exception there.

Only model-checked: liveness (`EveryCallEnds`, `ReachesTheHorizon`, `TicksAreDecided`,
`WaitsAreOver`, `BillsEnd`, `EverythingEnds`, `LeavesTheTrap`, and that months go on
being closed, the fairness of `Months`). It is out of the prover's reach.


## 5. What is not modelled, and why

* The cafe's till: who refers a counter sale to cash while the point of sale is down.
  Quarterly reports. What happens to a bill of services when the run that makes it is
  blocked is in `Hours`; that a person is billed by hand instead is a count in `Closes`.
* `Outages` leaves out what somebody knows of an outage, which guards nothing, and the
  levels of severity below "blocked", which no property tells apart; when somebody
  was last asked is abstracted to "asked or not". `Talk` has what they tell.
* Probabilities. `Judgements` says what may be answered, not how often; `Weighing` has
  exact parts where the code has floats, so that a sum that misses one by the last bit
  (`_sample` falls back to the last option) does not occur.
* The demand of the cafe, the weather, prices and how much people do in a day are
  numbers drawn from tables, over which no step branches. They are chosen freely, but
  for the law firm's price list, which `Hours` has.
* Wording of prompts and dialogue, vocabulary, reports, detectors, tracing, generated
  contracts, drawing: no state the world depends on.
* Recall in `memory/store.py` ranks memories by products of floats; what it keeps of
  facts and of who knows them is in `Talk`.
* Offline studies (`sim/soak.py`, `sim/panel.py`, `sim/episode_study.py`) drive the
  engine that is modelled.

## 6. Plan

Every safety property that a run checks is also a theorem. Next, proofs, in this order:

1. What the proofs know beyond the properties, as theorems with names of their own:
   the deadlines of a complaint in `Outages`, which rows of `Receivables` a failure may
   leave, what a close that was put off still owes.
2. `Engineering`: bounds of the debt and of what is allocated, from week to week; types
   of `Talk` and `Whereabouts`.
3. Refinements with an abstract specification each: `SpendGateway` as a counter with a
   ceiling, `ModelCalls` as a table that is written once, `Outages` as a module that is
   up or down.
4. Shorter proofs: the parts of `OutagesProofs` that follow a step through conjuncts it
   does not disturb, as one lemma per part.

Then, where a property whose theorem is proved makes room: the cafe's till; the read
API's cursors over each stream of rows; the grid of the map with its walks as a pure
algorithm against a reference; the clock's `next_open` and `after_working_time`
against a search of the calendar.

Runs are kept few: a new instance shares a run with one that asks a related question
(as the bills and promises of `receivables` do), and a property whose theorem is
proved makes room for one that is only checked.
