--------------------------------- MODULE Firms ---------------------------------
(***************************************************************************)
(* What a firm owes by the calendar, and what becomes of one that cannot   *)
(* pay: wages, rent, tax, stock, a loan and its interest; the head's       *)
(* review, people who leave and people who are hired, and failure          *)
(* (jeve.world.economy and payroll in jeve.world.flows), on the queue of   *)
(* scheduled work they share (Engine._run_due).                            *)
(*                                                                         *)
(* One action is one job's handler.  A tick takes what is due off the      *)
(* queue and runs it in order before the clock moves.  Everybody's wage is *)
(* one unit of money.  What people decide is a choice; so are the amounts  *)
(* that depend on sales or on a quarter's profit, and what a firm takes in *)
(* between two ticks.  A resolution to be frugal, to chase harder or to    *)
(* raise prices only bears on such choices and is left out.                *)
(***************************************************************************)
EXTENDS Integers, FiniteSets

CONSTANTS
  Orgs,        \* the firms
  Bookkeeper,  \* the one that runs everybody's payroll
  Cafe,        \* the one that buys stock
  OrgRank,     \* the order of firms by name
  Seats,       \* the numbers in the ids of the people a world starts with
  Employer,    \* who they work for
  Role,        \* and as what
  Heads,       \* the roles of those who run a firm
  Clerks,      \* payroll and the roles that cover it
  FirstHire,   \* the number of staff, in the whole town, that a world starts with
  MaxHires,
  MaxAway,     \* how many may be off at once
  TICK, DAY, WEEK, MONTH, QUARTER,
  OfficeHours, \* the times at which offices are open
  FirstJobs,   \* the queue a world starts with
  FirstPayday,
  EconomySince,
  Rent, Fixed, \* a month's rent, and what a week costs besides wages and interest
  OpeningCash,
  Takings,     \* what firms may take in between two ticks
  StockOrders, \* what a week's stock may cost
  TaxBills,    \* what a quarter's tax may come to
  LeaveFrom, FailedAfter, \* in paydays
  ReviewCooldown,
  LoanWeeks, RepayAbove, RepayDownTo,
  Horizon

Numbers == Seats \cup FirstHire .. (FirstHire + MaxHires - 1)
OfficeKinds == {"tax.quarter", "founder.review", "hiring.review", "payroll.run"}
TownKinds == {"households.week", "loans.week"}
OrgKinds == OfficeKinds \cup {"rent.run", "supplier.order"}
Chains == {"rent.run", "tax.quarter", "hiring.review", "founder.review"}
Town == "town"

Dated(kinds, whose) ==
  [kind : kinds, org : whose,
   due : Nat,       \* due_sim_time
   for : Nat,       \* payload.due: the day a wage or a rent was owed
   held : BOOLEAN,  \* payload.held, or late
   missed : Nat,    \* payload.missed
   adHoc : BOOLEAN]

Job == Dated(OrgKinds, Orgs) \cup Dated(TownKinds, {Town})

ASSUME FirmsAssumption ==
  /\ Orgs # {} /\ Bookkeeper \in Orgs /\ Cafe \in Orgs
  /\ OrgRank \in [Orgs \cup {Town} -> Nat]
  /\ Seats \subseteq 0 .. 99 /\ FirstHire \in Nat /\ MaxHires \in Nat
  /\ \A n \in Seats : n < FirstHire
  /\ FirstHire + MaxHires <= 100
  /\ DOMAIN Employer = Seats /\ \A n \in Seats : Employer[n] \in Orgs
  /\ DOMAIN Role = Seats
  /\ MaxAway \in Nat
  /\ {TICK, DAY, WEEK, MONTH, QUARTER} \subseteq Nat \ {0}
  /\ FirstJobs \subseteq Job
  /\ {FirstPayday, EconomySince, Horizon} \subseteq Nat
  /\ Rent \in [Orgs -> Nat] /\ Fixed \in [Orgs -> Nat] /\ OpeningCash \in [Orgs -> Nat]
  /\ Takings \subseteq [Orgs -> Nat] /\ StockOrders \subseteq Nat /\ TaxBills \subseteq Nat
  /\ {LeaveFrom, FailedAfter, ReviewCooldown, LoanWeeks, RepayDownTo} \subseteq Nat
  /\ RepayAbove \in Nat \ {0}
  /\ LeaveFrom <= FailedAfter

ASSUME OneFirstPayday ==
  \A f \in Orgs : \E first \in FirstJobs :
    /\ first.for = FirstPayday /\ first.due >= FirstPayday
    /\ {j \in FirstJobs : j.kind = "payroll.run" /\ j.org = f} = {first}

\* recurring() has one of each for every firm, and all of them pay rent.
ASSUME FirstOfEachChain ==
  /\ \A j \in FirstJobs : ~j.adHoc
  /\ \A f \in Orgs, kind \in Chains :
       \E first \in FirstJobs : {j \in FirstJobs : j.kind = kind /\ j.org = f} = {first}
  /\ \A f \in Orgs : Rent[f] > 0

VARIABLES
  now,      \* sim_meta.sim_time
  queue,    \* the table of scheduled work
  ready,    \* the jobs this tick has taken off it and not yet run
  cash,     \* the balance of each firm's cash account
  purse,    \* what the households of a firm's staff have
  owed,     \* what a firm owes the bank
  people,   \* the staff ever employed: who for, as what, and if they have left
  failed,   \* the firms with a failed_sim
  reviewed, \* policy.reviewed_sim, Never before
  paydays,  \* how many paydays a firm has paid (history)
  lapsed    \* the firms whose payroll found nobody to run it (history)

vars == <<now, queue, ready, cash, purse, owed, people, failed, reviewed, paydays, lapsed>>
firm == <<cash, purse, owed, people, failed, reviewed, paydays>>

Never == -1
Person == [org : Orgs, role : {Role[n] : n \in Seats}, left : BOOLEAN]

TypeOK ==
  /\ now \in Nat
  /\ queue \subseteq Job
  /\ ready \subseteq Job
  /\ cash \in [Orgs -> Int]
  /\ purse \in [Orgs -> Int]
  /\ owed \in [Orgs -> Int]
  /\ DOMAIN people \subseteq Numbers
  /\ \A n \in DOMAIN people : people[n] \in Person
  /\ failed \subseteq Orgs
  /\ reviewed \in [Orgs -> Nat \cup {Never}]
  /\ paydays \in [Orgs -> Nat]
  /\ lapsed \subseteq Orgs

Init ==
  /\ now = 0
  /\ queue = FirstJobs
  /\ ready = {}
  /\ cash = OpeningCash
  /\ purse = [f \in Orgs |-> 0]
  /\ owed = [f \in Orgs |-> 0]
  /\ people = [n \in Seats |-> [org |-> Employer[n], role |-> Role[n], left |-> FALSE]]
  /\ failed = {}
  /\ reviewed = [f \in Orgs |-> Never]
  /\ paydays = [f \in Orgs |-> 0]
  /\ lapsed = {}

-----------------------------------------------------------------------------
(* People. *)

Employed(f) == {n \in DOMAIN people : people[n].org = f /\ ~people[n].left}

Staff(f) == {n \in Employed(f) : people[n].role \notin Heads}

HasHead(f) == Employed(f) # Staff(f)

Wages(f) == Cardinality(Employed(f))

(* Ids end in a number and are compared as text: "24" comes before "7".    *)
TextKey(n) == IF n < 10 THEN 100 * n ELSE 10 * n + 1

\* mutant: every desk somebody has left is empty
VacanciesFilledOrNot(f) == {n \in DOMAIN people : people[n].org = f /\ people[n].left}

(* The empty desks that hiring sees: somebody has left it, and nobody whose *)
(* id comes after theirs works in that role.                               *)
Vacancies(f) ==
  {n \in DOMAIN people :
     /\ people[n].org = f /\ people[n].left
     /\ ~\E m \in Employed(f) : /\ people[m].role = people[n].role
                                /\ TextKey(m) > TextKey(n)}

Gone(leavers) ==
  [n \in DOMAIN people |-> IF n \in leavers THEN [people[n] EXCEPT !.left = TRUE]
                                            ELSE people[n]]

(* Whether somebody can run this payroll while these are off: at the       *)
(* bookkeeper's, or failing that at the firm itself.                       *)
HasClerk(f, away) ==
  \/ /\ Bookkeeper \notin failed
     /\ \E n \in Employed(Bookkeeper) \ away : people[n].role \in Clerks
  \/ Employed(f) \ away # {}

Absences == {away \in SUBSET DOMAIN people : Cardinality(away) <= MaxAway}

-----------------------------------------------------------------------------
(* The queue. *)

Plain(kind, f, due, for) ==
  [kind |-> kind, org |-> f, due |-> due, for |-> for, held |-> FALSE, missed |-> 0,
   adHoc |-> FALSE]

KindRank(kind) ==
  CASE kind = "founder.review" -> 1 [] kind = "hiring.review" -> 2
    [] kind = "households.week" -> 3 [] kind = "loans.week" -> 4
    [] kind = "payroll.run" -> 5 [] kind = "rent.run" -> 6
    [] kind = "supplier.order" -> 7 [] kind = "tax.quarter" -> 8

(* ORDER BY due_sim_time, ord, kind, subject_id *)
Before(j, k) ==
  \/ j.due < k.due
  \/ /\ j.due = k.due
     /\ \/ KindRank(j.kind) < KindRank(k.kind)
        \/ j.kind = k.kind /\ OrgRank[j.org] < OrgRank[k.org]

Takeable(t) == {j \in queue : j.due <= t /\ (t \in OfficeHours \/ j.kind \notin OfficeKinds)}

(* The clock moves when everything that was ready has run, and the tick    *)
(* takes what is now due off the queue.                                    *)
Advance ==
  /\ ready = {} /\ now < Horizon
  /\ now' = now + TICK
  /\ ready' = Takeable(now')
  /\ queue' = queue \ ready'
  /\ cash' \in {[f \in Orgs |-> cash[f] + got[f]] : got \in Takings}
  /\ UNCHANGED <<purse, owed, people, failed, reviewed, paydays, lapsed>>

(* An engine starts, and queues the recurring work that is not there.      *)
Monday == (now \div WEEK + 1) * WEEK

Recurring ==
  {Plain("households.week", Town, Monday, Monday), Plain("loans.week", Town, Monday, Monday),
   Plain("supplier.order", Cafe, Monday, Monday)}
  \cup {Plain("rent.run", f, now + DAY, now + DAY) : f \in Orgs}
  \cup {Plain("founder.review", f, now + 4 * DAY, now + 4 * DAY) : f \in Orgs}
  \cup {Plain("hiring.review", f, Monday + WEEK, Monday + WEEK) : f \in Orgs}
  \cup {Plain("tax.quarter", f, now + QUARTER, now + QUARTER) : f \in Orgs}

\* mutant: what is queued under another date counts as not queued
MissingOnItsDay == {j \in Recurring : j \notin queue}

Missing == {j \in Recurring : ~\E k \in queue : k.kind = j.kind /\ k.org = j.org}

Install ==
  /\ ready = {} /\ Missing # {}
  /\ queue' = queue \cup Missing
  /\ UNCHANGED <<now, ready, firm, lapsed>>

(* Handlers take the first of what is ready. *)
Taken(j) ==
  /\ j \in ready /\ \A k \in ready \ {j} : ~Before(k, j)
  /\ ready' = ready \ {j}
  /\ UNCHANGED now

Again(j, due) == [j EXCEPT !.due = due, !.for = due]

-----------------------------------------------------------------------------
(* Failure and departure. *)

Mortal == {"payroll.run", "founder.review", "hiring.review", "rent.run", "tax.quarter",
           "supplier.order"}

FailedFirm(f, jobs) ==
  /\ failed' = failed \cup {f}
  /\ people' = Gone(Employed(f))
  /\ queue' = {k \in jobs : k.org # f \/ k.kind \notin Mortal}

-----------------------------------------------------------------------------
(* Wages. *)

Prompted(f) ==
  [Plain("founder.review", f, now + TICK, now + TICK) EXCEPT !.adHoc = TRUE]

(* request_review: not within a week of the last, nor with one coming up.  *)
MayPrompt(f) ==
  /\ reviewed[f] = Never \/ now - reviewed[f] >= ReviewCooldown
  /\ ~\E k \in queue : /\ k.kind = "founder.review" /\ k.org = f
                       /\ k.due <= now + ReviewCooldown

(* A payday's first run warns of a firm with less than two weeks of wages. *)
Warned(j) ==
  IF ~j.held /\ cash[j.org] < 2 * Wages(j.org) /\ MayPrompt(j.org)
    THEN queue \cup {Prompted(j.org)} ELSE queue

Later(a, b) == IF a >= b THEN a ELSE b

Least(a, b) == IF a <= b THEN a ELSE b

\* mutant: every retry counts as another payday
BehindByRetry(j) == j.missed + 1

(* Weeks, counted from the payday or from when the economy began.          *)
Behind(j) == Later(0, now - Later(j.for, EconomySince)) \div WEEK + 1

\* mutant: the next payday is a week from now
PaidFromToday(j) ==
  LET f == j.org  total == Wages(f) IN
  /\ cash' = [cash EXCEPT ![f] = @ - total]
  /\ purse' = [purse EXCEPT ![f] = @ + total]
  /\ paydays' = [paydays EXCEPT ![f] = @ + 1]
  /\ queue' = Warned(j) \cup {Plain("payroll.run", f, now + WEEK, now + WEEK)}
  /\ UNCHANGED <<owed, people, failed, reviewed>>

Paid(j) ==
  LET f == j.org  total == Wages(f) IN
  /\ cash' = [cash EXCEPT ![f] = @ - total]
  /\ purse' = [purse EXCEPT ![f] = @ + total]
  /\ paydays' = [paydays EXCEPT ![f] = @ + 1]
  /\ queue' = Warned(j) \cup {Plain("payroll.run", f, j.for + WEEK, j.for + WEEK)}
  /\ UNCHANGED <<owed, people, failed, reviewed>>

(* Hours that cannot be seen: looked at again in a tick.                   *)
HeldForHours(j) ==
  /\ queue' = Warned(j) \cup {[j EXCEPT !.due = now + TICK, !.held = TRUE]}
  /\ UNCHANGED firm

Retry(j) == [j EXCEPT !.due = now + DAY, !.held = TRUE, !.missed = Later(@, Behind(j))]

(* No money: looked at again tomorrow. With each week more that has gone   *)
(* by, staff consider leaving, and in the end the firm has failed.         *)
HeldForCash(j) ==
  LET f == j.org  another == Behind(j) > j.missed IN
  /\ UNCHANGED <<cash, purse, owed, reviewed, paydays>>
  /\ \/ /\ another /\ Behind(j) >= FailedAfter
        /\ FailedFirm(f, Warned(j))
     \/ /\ another /\ Behind(j) \in LeaveFrom .. (FailedAfter - 1)
        /\ \E leavers \in SUBSET Staff(f) : people' = Gone(leavers)
        /\ queue' = Warned(j) \cup {Retry(j)}
        /\ UNCHANGED failed
     \/ /\ another => Behind(j) < Least(LeaveFrom, FailedAfter)
        /\ queue' = Warned(j) \cup {Retry(j)}
        /\ UNCHANGED <<people, failed>>

(* With nobody at work to run a payroll there is none, then or ever.       *)
Unpayable(j, away) == ~HasClerk(j.org, away) \/ Wages(j.org) = 0

Affordable(f) == cash[f] >= Wages(f)

Payroll(j) ==
  /\ j.kind = "payroll.run" /\ Taken(j)
  /\ IF j.org \in failed THEN UNCHANGED <<queue, firm, lapsed>>
     ELSE \E away \in Absences :
       IF Unpayable(j, away)
         THEN lapsed' = lapsed \cup {j.org} /\ UNCHANGED <<queue, firm>>
         ELSE /\ IF Affordable(j.org) THEN Paid(j) \/ HeldForHours(j) ELSE HeldForCash(j)
              /\ UNCHANGED lapsed

-----------------------------------------------------------------------------
(* The other sinks. *)

RentRun(j) ==
  LET f == j.org IN
  /\ j.kind = "rent.run" /\ Taken(j)
  /\ UNCHANGED <<purse, owed, people, failed, reviewed, paydays, lapsed>>
  /\ IF f \in failed \/ Rent[f] = 0 THEN UNCHANGED <<queue, cash>>
     ELSE IF cash[f] < Rent[f]
       THEN /\ queue' = queue \cup {[j EXCEPT !.due = now + DAY, !.held = TRUE]}
            /\ UNCHANGED cash
       ELSE /\ queue' = queue \cup {Plain("rent.run", f, j.for + MONTH, j.for + MONTH)}
            /\ cash' = [cash EXCEPT ![f] = @ - Rent[f]]

(* What is there is paid, of tax and for stock. *)
Spend(f, wanted) == cash' = [cash EXCEPT ![f] = @ - Least(wanted, Later(0, cash[f]))]

\* mutant: whether the firm has failed is not looked at
TaxAnyway(j) ==
  /\ j.kind = "tax.quarter" /\ Taken(j)
  /\ queue' = queue \cup {Again(j, j.for + QUARTER)}
  /\ \E bill \in TaxBills : Spend(j.org, bill)
  /\ UNCHANGED <<purse, owed, people, failed, reviewed, paydays, lapsed>>

TaxQuarter(j) ==
  LET f == j.org IN
  /\ j.kind = "tax.quarter" /\ Taken(j)
  /\ queue' = queue \cup {Again(j, j.for + QUARTER)}
  /\ IF f \in failed THEN UNCHANGED cash ELSE \E bill \in TaxBills : Spend(f, bill)
  /\ UNCHANGED <<purse, owed, people, failed, reviewed, paydays, lapsed>>

SupplierOrder(j) ==
  /\ j.kind = "supplier.order" /\ Taken(j)
  /\ queue' = queue \cup {Again(j, now + WEEK)}
  /\ IF j.org \in failed THEN UNCHANGED cash ELSE \E order \in StockOrders : Spend(j.org, order)
  /\ UNCHANGED <<purse, owed, people, failed, reviewed, paydays, lapsed>>

(* Households spend nine tenths of a week's wages and what they have above *)
(* three weeks of them.                                                    *)
LivingCosts(f) ==
  LET usual == Least(purse[f], (9 * Wages(f)) \div 10)
  IN usual + Later(0, purse[f] - usual - 3 * Wages(f))

HouseholdsWeek(j) ==
  /\ j.kind = "households.week" /\ Taken(j)
  /\ queue' = queue \cup {Again(j, now + WEEK)}
  /\ purse' = [f \in Orgs |-> IF purse[f] <= 0 THEN purse[f] ELSE purse[f] - LivingCosts(f)]
  /\ UNCHANGED <<cash, owed, people, failed, reviewed, paydays, lapsed>>

-----------------------------------------------------------------------------
(* The bank. *)

\* LOAN_WEEKLY_INTEREST is a quarter of a hundredth, and at least one.
Interest(debt) == Later(1, (debt + 399) \div 400)

Outgoings(f, debt) == Wages(f) + Fixed[f] + debt \div 400

(* Interest that the firm cannot pay is added to what it owes; a firm with *)
(* plenty repays.                                                          *)
Capitalised(f) == cash[f] < Interest(owed[f])
DebtAfter(f) == IF Capitalised(f) THEN owed[f] + Interest(owed[f]) ELSE owed[f]
CashAfter(f) == IF Capitalised(f) THEN cash[f] ELSE cash[f] - Interest(owed[f])

Repayment(f) ==
  LET weekly == Outgoings(f, DebtAfter(f)) IN
  IF CashAfter(f) > RepayAbove * weekly
    THEN Later(0, Least(DebtAfter(f), CashAfter(f) - RepayDownTo * weekly)) ELSE 0

LoansWeek(j) ==
  /\ j.kind = "loans.week" /\ Taken(j)
  /\ queue' = queue \cup {Again(j, now + WEEK)}
  /\ cash' = [f \in Orgs |-> IF owed[f] > 0 THEN CashAfter(f) - Repayment(f) ELSE cash[f]]
  /\ owed' = [f \in Orgs |-> IF owed[f] > 0 THEN DebtAfter(f) - Repayment(f) ELSE owed[f]]
  /\ UNCHANGED <<purse, people, failed, reviewed, paydays, lapsed>>

Borrow(f) ==
  /\ owed[f] = 0 /\ LoanWeeks * Outgoings(f, 0) > 0
  /\ cash' = [cash EXCEPT ![f] = @ + LoanWeeks * Outgoings(f, 0)]
  /\ owed' = [owed EXCEPT ![f] = LoanWeeks * Outgoings(f, 0)]

-----------------------------------------------------------------------------
(* The head of the firm. *)

Review(j) ==
  LET f == j.org IN
  /\ j.kind = "founder.review" /\ Taken(j)
  /\ queue' = IF j.adHoc THEN queue ELSE queue \cup {Again(j, now + MONTH)}
  /\ IF f \in failed \/ ~HasHead(f) THEN UNCHANGED <<cash, owed, reviewed>>
     ELSE /\ reviewed' = [reviewed EXCEPT ![f] = now]
          /\ Borrow(f) \/ UNCHANGED <<cash, owed>>
  /\ UNCHANGED <<purse, people, failed, paydays, lapsed>>

NextHire == FirstHire + Cardinality(DOMAIN people \ Seats)

Hire(f, role) ==
  /\ NextHire \in Numbers
  /\ people' = [n \in DOMAIN people \cup {NextHire} |->
                  IF n = NextHire THEN [org |-> f, role |-> role, left |-> FALSE]
                                  ELSE people[n]]

Hiring(j) ==
  LET f == j.org IN
  /\ j.kind = "hiring.review" /\ Taken(j)
  /\ queue' = queue \cup {Again(j, now + WEEK)}
  /\ \/ f \notin failed /\ HasHead(f) /\ \E n \in Vacancies(f) : Hire(f, people[n].role)
     \/ UNCHANGED people
  /\ UNCHANGED <<cash, purse, owed, failed, reviewed, paydays, lapsed>>

-----------------------------------------------------------------------------
Run(j) ==
  \/ Payroll(j) \/ RentRun(j) \/ TaxQuarter(j) \/ SupplierOrder(j)
  \/ HouseholdsWeek(j) \/ LoansWeek(j) \/ Review(j) \/ Hiring(j)

Next == Advance \/ Install \/ \E j \in ready : Run(j)

Spec == Init /\ [][Next]_vars

-----------------------------------------------------------------------------
(* Properties. *)

\* Nobody spends what they do not have, and the bank is not owed less than nothing:
\* not by two handlers of one tick, nor by one that reads an account before another
\* one posts to it.
NobodyIsOverdrawn == \A f \in Orgs : cash[f] >= 0 /\ purse[f] >= 0 /\ owed[f] >= 0

\* A failed firm employs nobody and plans no payday, though some of its jobs may
\* have been off the queue when it failed, and recurring ones are queued again
\* when an engine starts.
FailedIsOver ==
  \A f \in failed : Employed(f) = {} /\ \A j \in queue : j.org = f => j.kind # "payroll.run"

\* ... and no money leaves it but to the bank it still owes (economy.loans_week
\* goes on).
FailedPaysOnlyTheBank ==
  [][\A f \in failed : cash'[f] < cash[f] => owed[f] > 0 /\ owed'[f] <= owed[f]]_vars

Planned == queue \cup ready
PaydaysOf(f) == {j \in Planned : j.kind = "payroll.run" /\ j.org = f}

\* Paydays are paid in order, each once, however long one is held: what is planned
\* for a firm in business is the first payday it has not paid, and nothing else,
\* unless a day came when nobody was at work to run its payroll.
PaydaysInOrder ==
  \A f \in Orgs \ (failed \cup lapsed) :
    \E j \in Planned : PaydaysOf(f) = {j} /\ j.for = FirstPayday + WEEK * paydays[f]

\* The other chains of a firm in business, which put their successor in the queue
\* themselves, neither break off nor fork; nor when an engine starts.
OneOfEach ==
  \A f \in Orgs \ failed, kind \in Chains :
    Cardinality({j \in Planned : j.kind = kind /\ j.org = f /\ ~j.adHoc}) = 1

Unpaid(f) ==
  (IF now < FirstPayday THEN 0 ELSE (now - FirstPayday) \div WEEK + 1) - paydays[f]

\* Nobody leaves for one late payday, and no firm fails that is not FailedAfter
\* paydays behind, however often each payday was retried and whatever held it.
HardshipIsReal ==
  [][\A f \in Orgs :
       /\ (\E n \in Employed(f) : people'[n].left) => Unpaid(f) >= LeaveFrom
       /\ f \in failed' \ failed => Unpaid(f) >= FailedAfter]_vars

Roles == {Role[n] : n \in Seats}
SeatsIn(f, role) == {n \in Seats : Employer[n] = f /\ Role[n] = role}

NoMoreThanItHasDesks(f) ==
  \A role \in Roles :
    Cardinality({n \in Employed(f) : people[n].role = role}) <= Cardinality(SeatsIn(f, role))

\* A desk is filled once: no firm ever employs more people in a role than it has
\* desks, if the ids of its first people are as long as those of later ones.
DesksAreFilledOnce ==
  \A f \in Orgs : (\A n \in Seats : Employer[n] = f => n >= 10) => NoMoreThanItHasDesks(f)
=============================================================================
