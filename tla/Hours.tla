--------------------------------- MODULE Hours ---------------------------------
(***************************************************************************)
(* The hours of the law firm (WORLD-0011): written down or forgotten, and  *)
(* billed at month-end (flow 3), at the price list the firm then has, by a *)
(* run that waits while the module it needs is down. A day ends with the   *)
(* job that asks who logs their hours.                                     *)
(***************************************************************************)
EXTENDS Integers, FiniteSets, FiniteSetsExt

CONSTANTS
  Earners,      \* FEE_EARNERS of the firm
  Minutes,      \* what the day of each may come to, in cents
  Customers,    \* the firm's clients
  Matters,      \* what a client's matter may be drawn to be; 0 when there is none
  Workdays,     \* bound: the days of the model
  MonthEnds,    \* those of them at which a month ends
  ForgetTenths, \* FORGET_PER_DAY
  LostAfterDays,\* LOST_AFTER_DAYS
  PriceUnit,    \* the price list as it was seeded; the code keeps four places of it
  RiseTenths,   \* PRICE_RISE
  PriceCeiling  \* PRICE_CEILING, in the units of PriceUnit

ASSUME HoursAssumption ==
  /\ Minutes \subseteq Nat \ {0} /\ Matters \subseteq Nat
  /\ Workdays \subseteq Nat /\ MonthEnds \subseteq Workdays /\ Workdays # {} /\ Customers # {}
  /\ IsFiniteSet(Earners) /\ IsFiniteSet(Workdays) /\ IsFiniteSet(Customers)
  /\ ForgetTenths \in 0 .. 10 /\ LostAfterDays \in Nat
  /\ PriceUnit \in Nat \ {0} /\ RiseTenths \in Nat /\ RiseTenths >= 10 /\ PriceCeiling \in Nat

VARIABLES
  today,
  monthsDue,    \* month-ends whose job has not run
  waiting,      \* month-ends with an invoice.run in the queue
  timetrack,    \* the modules: up (or done without, by hand) or down
  billing,
  sheet,        \* the rows of timesheets
  work,         \* work_cents of the firm's invoices, by month and client
  issued,       \* their amount_cents
  prices,       \* price_index
  engaged,      \* what each client's work of each month is drawn to be
  departed,     \* earners whose status is 'left'
  wound         \* has the firm failed?

hoursVars == <<today, monthsDue, waiting, timetrack, billing, sheet, work, issued, prices,
               engaged, departed, wound>>

invoices == <<work, issued>>
modules == <<timetrack, billing>>
people == <<departed, wound>>

Unbilled == -1
NoRow == [state |-> "none", cents |-> 0, month |-> Unbilled]
Rows == Earners \X Workdays

HoursInit ==
  /\ today = Min(Workdays)
  /\ monthsDue = MonthEnds /\ waiting = {}
  /\ timetrack = "up" /\ billing = "up"
  /\ sheet = [r \in Rows |-> NoRow]
  /\ work = [m \in MonthEnds |-> [c \in Customers |-> 0]]
  /\ issued = [m \in MonthEnds |-> [c \in Customers |-> 0]]
  /\ prices = PriceUnit
  /\ engaged \in [MonthEnds -> [Customers -> Matters]]
  /\ departed = {} /\ wound = FALSE

-----------------------------------------------------------------------------
(* The end of a working day. *)

(* n / d, to the nearest whole number; of two, the even one. *)
Rounded(n, d) ==
  LET down == n \div d
      rest == 2 * (n % d)
  IN IF rest < d \/ (rest = d /\ down % 2 = 0) THEN down ELSE down + 1

Remembered(cents, late) ==
  IF late * ForgetTenths > 10 THEN 0 ELSE Rounded(cents * (10 - late * ForgetTenths), 10)

(* Whoever is at work has a day of their own to write down, once. *)
Worked(rows, present, drawn) ==
  [r \in Rows |->
     IF r[2] = today /\ r[1] \in present /\ rows[r].state = "none"
       THEN [NoRow EXCEPT !.state = "pending", !.cents = drawn[r[1]]] ELSE rows[r]]

Lost(rows) ==
  [r \in Rows |->
     IF rows[r].state = "pending" /\ r[2] <= today - LostAfterDays
       THEN [rows[r] EXCEPT !.state = "lost"] ELSE rows[r]]

(* All that somebody has not logged, at once, less what they forgot. *)
Logged(rows, who) ==
  [r \in Rows |->
     IF rows[r].state = "pending" /\ r[1] \in who
       THEN [rows[r] EXCEPT !.state = "logged", !.cents = Remembered(@, today - r[2])]
       ELSE rows[r]]

Following == LET later == {d \in Workdays : d > today} IN
             IF later = {} THEN today ELSE Min(later)

MonthIsDue == \E m \in monthsDue : m <= today

(* The last of the Workdays does not end: that is a bound of the model. *)
EndOfDay(present, drawn, who) ==
  LET rows == Lost(Worked(sheet, present, drawn)) IN
  /\ ~MonthIsDue /\ today # Max(Workdays)
  /\ today' = Following
  /\ IF wound
       THEN UNCHANGED sheet
       ELSE /\ present \cap departed = {}
            /\ \A e \in who : e \notin departed /\ \E d \in Workdays : rows[<<e, d>>].state = "pending"
            /\ timetrack = "down" => who = {}
            /\ sheet' = Logged(rows, who)
  /\ UNCHANGED <<monthsDue, waiting, modules, invoices, prices, engaged, people>>

-----------------------------------------------------------------------------
(* Month-end. *)

Takes(rows) == {r \in Rows : rows[r].state = "logged" /\ rows[r].month = Unbilled}

CentsOf(rows, S) == MapThenSumSet(LAMBDA r : rows[r].cents, S)

(* bill_hours: all that was logged, shared by the size of the matters. With *)
(* no client, or nothing logged, the hours wait for the next month.         *)
Share(total, m, c) ==
  (total * engaged[m][c]) \div MapThenSumSet(LAMBDA d : engaged[m][d], Customers)

(* What the work came to, and what the firm charges for it: its price list. *)
Invoice(m, total) ==
  /\ work' = [work EXCEPT ![m] = [c \in Customers |-> @[c] + Share(total, m, c)]]
  /\ issued' = [issued EXCEPT ![m] =
                  [c \in Customers |-> @[c] + Rounded(Share(total, m, c) * prices, PriceUnit)]]

\* mutant: the hours of a month are not marked once they are billed
BillHoursUnmarked(m) ==
  LET total == CentsOf(sheet, Takes(sheet)) IN
  IF (\A c \in Customers : engaged[m][c] = 0) \/ total = 0
    THEN UNCHANGED <<sheet, invoices>>
    ELSE Invoice(m, total) /\ UNCHANGED sheet

BillHours(m) ==
  LET total == CentsOf(sheet, Takes(sheet)) IN
  IF (\A c \in Customers : engaged[m][c] = 0) \/ total = 0
    THEN UNCHANGED <<sheet, invoices>>
    ELSE /\ Invoice(m, total)
         /\ sheet' = [r \in Rows |->
                       IF r \in Takes(sheet) THEN [sheet[r] EXCEPT !.month = m] ELSE sheet[r]]

IssueInvoices(m) ==
  IF billing = "down"
    THEN waiting' = waiting \cup {m} /\ UNCHANGED <<sheet, invoices>>
    ELSE waiting' = waiting \ {m} /\ BillHours(m)

EndOfMonth ==
  /\ MonthIsDue
  /\ monthsDue' = monthsDue \ {Min(monthsDue)}
  /\ IF wound THEN UNCHANGED <<waiting, sheet, invoices>> ELSE IssueInvoices(Min(monthsDue))
  /\ UNCHANGED <<today, modules, prices, engaged, people>>

(* Tried at every tick. *)
RunAgain(m) ==
  /\ m \in waiting
  /\ IssueInvoices(m)
  /\ UNCHANGED <<today, monthsDue, modules, prices, engaged, people>>

-----------------------------------------------------------------------------
(* raise_prices: the head's choice at a review. That three months go by     *)
(* between two rises is left out.                                           *)
RaisePrices ==
  /\ ~wound
  /\ prices * RiseTenths <= 10 * PriceCeiling
  /\ prices' = Rounded(prices * RiseTenths, 10)
  /\ UNCHANGED <<today, monthsDue, waiting, modules, sheet, invoices, engaged, people>>

ModuleChanges ==
  /\ timetrack' \in {"up", "down"}
  /\ billing' \in {"up", "down"}
  /\ UNCHANGED <<today, monthsDue, waiting, sheet, invoices, prices, engaged, people>>

EarnerLeaves(e) ==
  /\ e \notin departed
  /\ departed' = departed \cup {e}
  /\ UNCHANGED <<today, monthsDue, waiting, modules, sheet, invoices, prices, engaged, wound>>

LawFirmFails ==
  /\ ~wound /\ wound' = TRUE
  /\ departed' = Earners
  /\ waiting' = {}
  /\ UNCHANGED <<today, monthsDue, modules, sheet, invoices, prices, engaged>>

HoursNext ==
  \/ \E present, who \in SUBSET Earners, drawn \in [Earners -> Minutes] :
        EndOfDay(present, drawn, who)
  \/ EndOfMonth
  \/ \E m \in MonthEnds : RunAgain(m)
  \/ RaisePrices
  \/ ModuleChanges
  \/ \E e \in Earners : EarnerLeaves(e)
  \/ LawFirmFails

HoursSpec == HoursInit /\ [][HoursNext]_hoursVars

-----------------------------------------------------------------------------
(* The work the clients are billed for a month is what was written down    *)
(* and not billed for another, less the cents that do not divide: an hour  *)
(* is on the bills of one month at most, however long the run was blocked. *)
(* And each of the bills of a month is that work at one price list, which  *)
(* the firm has had.                                                       *)
BillsAreHours ==
  \A m \in MonthEnds :
    /\ LET shares == MapThenSumSet(LAMBDA c : work[m][c], Customers)
           hours == CentsOf(sheet, {r \in Rows : sheet[r].month = m})
       IN shares <= hours /\ hours - shares < Cardinality(Customers)
    /\ \E p \in PriceUnit .. prices :
         \A c \in Customers : issued[m][c] = Rounded(work[m][c] * p, PriceUnit)
=============================================================================
