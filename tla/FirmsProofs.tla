------------------------------ MODULE FirmsProofs ------------------------------
(***************************************************************************)
(* Proofs about Firms, for any firms and any staff, any amounts and any    *)
(* lengths of the days, weeks and months.                                  *)
(***************************************************************************)
EXTENDS Firms, FiniteSetTheorems, TLAPS

\* The staff of a world are numbered below a hundred, so those ever employed are
\* finitely many, and wages are a number.
LEMMA WagesAreANumber ==
  ASSUME TypeOK, NEW f \in Orgs
  PROVE  Wages(f) \in Nat
<1>1. Numbers \subseteq 0 .. 99
  BY FirmsAssumption DEF Numbers
<1>2. Employed(f) \in SUBSET (0 .. 99)
  BY <1>1 DEF TypeOK, Employed
<1>3. IsFiniteSet(Employed(f))
  <2>1. 0 \in Int /\ 99 \in Int
    OBVIOUS
  <2>2. IsFiniteSet(0 .. 99)
    BY <2>1, FS_Interval
  <2> QED
    BY <1>2, <2>2, FS_Subset
<1> QED
  BY <1>3, FS_CardinalityType DEF Wages

\* The periods, as the proofs use them.
LEMMA Periods ==
  /\ TICK \in Nat \ {0} /\ DAY \in Nat \ {0} /\ WEEK \in Nat \ {0}
  /\ MONTH \in Nat \ {0} /\ QUARTER \in Nat \ {0}
  /\ FirstPayday \in Nat /\ EconomySince \in Nat /\ Horizon \in Nat
  /\ LeaveFrom \in Nat /\ FailedAfter \in Nat /\ ReviewCooldown \in Nat
  /\ LoanWeeks \in Nat /\ RepayDownTo \in Nat /\ RepayAbove \in Nat \ {0}
BY FirmsAssumption

\* A job as a handler or a fresh engine plans it.
LEMMA PlainIsAJob ==
  ASSUME NEW kind, NEW f, NEW due \in Nat, NEW for \in Nat,
         (kind \in OrgKinds /\ f \in Orgs) \/ (kind \in TownKinds /\ f = Town)
  PROVE  /\ Plain(kind, f, due, for) \in Job
         /\ Plain(kind, f, due, for).kind = kind
         /\ Plain(kind, f, due, for).org = f
         /\ Plain(kind, f, due, for).due = due
         /\ Plain(kind, f, due, for).for = for
BY DEF Plain, Job, Dated

\* A job planned again keeps its kind and its firm.
LEMMA AgainIsAJob ==
  ASSUME NEW j \in Job, NEW due \in Nat
  PROVE  /\ Again(j, due) \in Job
         /\ Again(j, due).kind = j.kind
         /\ Again(j, due).org = j.org
         /\ Again(j, due).adHoc = j.adHoc
BY DEF Again, Job, Dated

\* A product of numbers is a number.
LEMMA Products ==
  ASSUME NEW m \in Nat, NEW n \in Nat
  PROVE  m * n \in Nat
OBVIOUS

\* What a fresh engine queues are jobs, and none of them is a payday.
LEMMA RecurringAreJobs ==
  ASSUME TypeOK
  PROVE  Recurring \subseteq Job /\ \A j \in Recurring : j.kind # "payroll.run"
<1>1. now \in Nat
  BY DEF TypeOK
<1>2. now \div WEEK + 1 \in Nat
  BY <1>1, Periods
<1>3. Monday \in Nat
  BY <1>2, Periods, Products DEF Monday
<1>4. /\ now + DAY \in Nat /\ now + (4 * DAY) \in Nat /\ now + QUARTER \in Nat
      /\ Monday + WEEK \in Nat
  BY <1>1, <1>3, Periods
<1>5. SUFFICES ASSUME NEW j \in Recurring
               PROVE  j \in Job /\ j.kind # "payroll.run"
  OBVIOUS
<1>6. \/ j = Plain("households.week", Town, Monday, Monday)
      \/ j = Plain("loans.week", Town, Monday, Monday)
      \/ j = Plain("supplier.order", Cafe, Monday, Monday)
      \/ \E f \in Orgs : j = Plain("rent.run", f, now + DAY, now + DAY)
      \/ \E f \in Orgs : j = Plain("founder.review", f, now + 4 * DAY, now + 4 * DAY)
      \/ \E f \in Orgs : j = Plain("hiring.review", f, Monday + WEEK, Monday + WEEK)
      \/ \E f \in Orgs : j = Plain("tax.quarter", f, now + QUARTER, now + QUARTER)
  BY <1>5 DEF Recurring
<1>7. Cafe \in Orgs
  BY FirmsAssumption
<1>8. /\ {"supplier.order", "rent.run", "founder.review", "hiring.review", "tax.quarter"}
            \subseteq OrgKinds \ {"payroll.run"}
      /\ {"households.week", "loans.week"} \subseteq TownKinds \ {"payroll.run"}
  BY DEF OrgKinds, TownKinds, OfficeKinds
<1>9. ASSUME NEW kind, NEW f, NEW t \in Nat,
             (kind \in OrgKinds /\ f \in Orgs) \/ (kind \in TownKinds /\ f = Town)
      PROVE  Plain(kind, f, t, t) \in Job /\ Plain(kind, f, t, t).kind = kind
  <2>1. CASE kind \in OrgKinds /\ f \in Orgs
    BY <2>1 DEF Plain, Job, Dated
  <2>2. CASE kind \in TownKinds /\ f = Town
    BY <2>2 DEF Plain, Job, Dated
  <2> QED
    BY <1>9, <2>1, <2>2
<1>10. CASE \/ j = Plain("households.week", Town, Monday, Monday)
             \/ j = Plain("loans.week", Town, Monday, Monday)
             \/ j = Plain("supplier.order", Cafe, Monday, Monday)
  BY <1>3, <1>7, <1>8, <1>9, <1>10
<1>11. ASSUME NEW f \in Orgs,
              \/ j = Plain("rent.run", f, now + DAY, now + DAY)
              \/ j = Plain("founder.review", f, now + 4 * DAY, now + 4 * DAY)
              \/ j = Plain("hiring.review", f, Monday + WEEK, Monday + WEEK)
              \/ j = Plain("tax.quarter", f, now + QUARTER, now + QUARTER)
       PROVE  j \in Job /\ j.kind # "payroll.run"
  BY <1>4, <1>8, <1>9, <1>11
<1> QED
  BY <1>6, <1>10, <1>11

-----------------------------------------------------------------------------
(* Types. *)

\* A warning adds at most a review to the queue.
LEMMA WarningsAreReviews ==
  ASSUME TypeOK, NEW j \in Job, j.org \in Orgs
  PROVE  /\ queue \subseteq Warned(j) /\ Warned(j) \subseteq Job
         /\ \A k \in Warned(j) : k \in queue \/ k.kind = "founder.review"
<1> DEFINE p == Prompted(j.org)
<1>1. p \in Job /\ p.kind = "founder.review"
  <2>1. now + TICK \in Nat
    BY Periods DEF TypeOK
  <2>2. "founder.review" \in OrgKinds
    BY DEF OrgKinds, OfficeKinds
  <2>3. /\ Plain("founder.review", j.org, now + TICK, now + TICK) \in Job
        /\ Plain("founder.review", j.org, now + TICK, now + TICK).kind = "founder.review"
    BY <2>1, <2>2, PlainIsAJob
  <2> QED
    BY <2>3 DEF Prompted, Job, Dated
<1>2. Warned(j) = queue \cup {p} \/ Warned(j) = queue
  BY DEF Warned
<1> QED
  BY <1>1, <1>2 DEF TypeOK

\* A held payroll is planned again as the same payday.
LEMMA RetriesAreJobs ==
  ASSUME TypeOK, NEW j \in Job
  PROVE  /\ Retry(j) \in Job /\ [j EXCEPT !.due = now + TICK, !.held = TRUE] \in Job
         /\ Retry(j).kind = j.kind /\ Retry(j).org = j.org /\ Retry(j).for = j.for
         /\ Retry(j).due = now + DAY
<1>1. now \in Nat /\ now + DAY \in Nat /\ now + TICK \in Nat
  BY Periods DEF TypeOK
<1>2. Behind(j) \in Nat
  <2>1. j.for \in Nat
    BY DEF Job, Dated
  <2>2. now - Later(j.for, EconomySince) \in Int
    BY <1>1, <2>1, Periods DEF Later
  <2> DEFINE late == Later(0, now - Later(j.for, EconomySince))
  <2>3. late \in Nat
    BY <2>2 DEF Later
  <2> HIDE DEF late
  <2>4. late \div WEEK \in Nat
    BY <2>3, Periods
  <2> QED
    BY <2>4 DEF Behind, late
<1>3. Later(j.missed, Behind(j)) \in Nat
  BY <1>2 DEF Later, Job, Dated
<1> QED
  BY <1>1, <1>3 DEF Retry, Job, Dated

\* People who go leave everything else as it is.
LEMMA GoneKeepsTypes ==
  ASSUME TypeOK, NEW leavers
  PROVE  /\ DOMAIN Gone(leavers) = DOMAIN people
         /\ \A n \in DOMAIN people :
              /\ Gone(leavers)[n] \in Person
              /\ Gone(leavers)[n].org = people[n].org
              /\ Gone(leavers)[n].left <=> people[n].left \/ n \in leavers
<1>1. \A n \in DOMAIN people : people[n] \in Person
  BY DEF TypeOK
<1>2. ASSUME NEW p \in Person
      PROVE  /\ [p EXCEPT !.left = TRUE] \in Person
             /\ [p EXCEPT !.left = TRUE].org = p.org
             /\ [p EXCEPT !.left = TRUE].left = TRUE
  BY DEF Person
<1>3. DOMAIN Gone(leavers) = DOMAIN people
  BY DEF Gone
<1>4. ASSUME NEW n \in DOMAIN people
      PROVE  Gone(leavers)[n] = IF n \in leavers THEN [people[n] EXCEPT !.left = TRUE]
                                                 ELSE people[n]
  BY DEF Gone
<1> QED
  BY <1>1, <1>2, <1>3, <1>4

-----------------------------------------------------------------------------
(* Money. *)

\* No account is overdrawn, and every account is one of a firm's.
Solvent == cash \in [Orgs -> Nat] /\ purse \in [Orgs -> Nat] /\ owed \in [Orgs -> Nat]

\* What is paid out of an account is at most what is in it.
LEMMA SpendingWhatIsThere ==
  ASSUME Solvent, NEW f \in Orgs, NEW wanted \in Nat, Spend(f, wanted)
  PROVE  cash' \in [Orgs -> Nat]
<1>1. cash[f] \in Nat
  BY DEF Solvent
<1>2. cash[f] - Least(wanted, Later(0, cash[f])) \in Nat
  BY <1>1 DEF Least, Later
<1> QED
  BY <1>2 DEF Solvent, Spend

\* A week's living is paid from the purse.
LEMMA LivingOnThePurse ==
  ASSUME TypeOK, Solvent, NEW f \in Orgs
  PROVE  purse[f] - LivingCosts(f) \in Nat
<1> DEFINE usual == Least(purse[f], (9 * Wages(f)) \div 10)
<1>1. purse[f] \in Nat /\ Wages(f) \in Nat
  BY WagesAreANumber DEF Solvent
<1>2. (9 * Wages(f)) \div 10 \in Nat
  BY <1>1
<1>3. usual \in 0 .. purse[f]
  BY <1>1, <1>2 DEF Least
<1>4. LivingCosts(f) = usual + Later(0, purse[f] - usual - 3 * Wages(f))
  BY DEF LivingCosts
<1> HIDE DEF usual
<1>5. ASSUME NEW p \in Nat, NEW w \in Nat, NEW u \in 0 .. p
      PROVE  p - (u + Later(0, p - u - 3 * w)) \in Nat
  BY DEF Later
<1> QED
  BY <1>1, <1>3, <1>4, <1>5

\* A week of costs is a number.
LEMMA OutgoingsAreANumber ==
  ASSUME TypeOK, NEW f \in Orgs, NEW debt \in Nat
  PROVE  Outgoings(f, debt) \in Nat /\ Outgoings(f, debt) >= debt \div 400
<1>1. Wages(f) \in Nat /\ Fixed[f] \in Nat /\ debt \div 400 \in Nat
  BY WagesAreANumber, FirmsAssumption
<1> QED
  BY <1>1 DEF Outgoings

\* The bank's week: interest is paid if there is the money for it, a repayment leaves
\* something in hand and is at most what is owed, and a firm whose interest was
\* added to its debt has nothing to repay with.
LEMMA BankWeek ==
  ASSUME TypeOK, Solvent, NEW f \in Orgs, owed[f] > 0
  PROVE  /\ CashAfter(f) - Repayment(f) \in Nat
         /\ DebtAfter(f) - Repayment(f) \in Nat
         /\ \/ /\ CashAfter(f) - Repayment(f) = cash[f]
            \/ DebtAfter(f) - Repayment(f) <= owed[f]
<1> DEFINE i == Interest(owed[f])
           d == DebtAfter(f)
           c == CashAfter(f)
           w == Outgoings(f, DebtAfter(f))
           r == Repayment(f)
<1>1. owed[f] \in Nat /\ cash[f] \in Nat
  BY DEF Solvent
<1>2. /\ i \in Nat
      /\ i - 1 <= owed[f] \div 400
  BY <1>1 DEF Interest, Later
<1>3. /\ Capitalised(f) => c = cash[f] /\ d = owed[f] + i /\ cash[f] < i
      /\ ~Capitalised(f) => c = cash[f] - i /\ d = owed[f] /\ cash[f] >= i
  BY <1>1, <1>2 DEF Capitalised, CashAfter, DebtAfter
<1>4. c \in Nat /\ d \in Nat
  BY <1>1, <1>2, <1>3
<1>5. w \in Nat /\ w >= d \div 400
  BY <1>4, OutgoingsAreANumber
<1>6. RepayAbove * w \in Nat /\ RepayDownTo * w \in Nat /\ w <= RepayAbove * w
  <2>1. RepayAbove \in Nat \ {0} /\ RepayDownTo \in Nat
    BY Periods
  <2>2. ASSUME NEW m \in Nat \ {0}, NEW n \in Nat PROVE n <= m * n
    <3>1. m - 1 \in Nat
      OBVIOUS
    <3>2. (m - 1) * n \in Nat
      BY <3>1, Products
    <3>3. (m - 1) * n = m * n - n
      OBVIOUS
    <3>4. m * n \in Nat
      BY Products
    <3> QED
      BY <3>2, <3>3, <3>4
  <2> QED
    BY <1>5, <2>1, <2>2, Products
<1>7. r = IF c > RepayAbove * w THEN Later(0, Least(d, c - RepayDownTo * w)) ELSE 0
  BY DEF Repayment
<1> HIDE DEF c, d, i, w, r
<1>8. r \in Nat /\ r <= c /\ r <= d
  BY <1>4, <1>6, <1>7 DEF Later, Least
<1>9. Capitalised(f) => r = 0
  <2>1. SUFFICES ASSUME Capitalised(f) PROVE c <= RepayAbove * w
    BY <1>4, <1>6, <1>7, <2>1
  <2>2. c <= i - 1
    BY <1>1, <1>2, <1>3, <2>1
  <2>3. owed[f] \div 400 <= d \div 400
    BY <1>1, <1>2, <1>3, <2>1
  <2>4. c <= w
    BY <1>1, <1>2, <1>4, <1>5, <2>2, <2>3
  <2> QED
    BY <1>4, <1>5, <1>6, <2>4
<1>10. c - r \in Nat /\ d - r \in Nat
  BY <1>4, <1>8
<1>11. c - r = cash[f] \/ d - r <= owed[f]
  BY <1>1, <1>2, <1>3, <1>8, <1>9
<1> QED
  BY <1>10, <1>11 DEF c, d, r

\* No step overdraws an account.
LEMMA MoneyStep ==
  ASSUME TypeOK, Solvent, Next
  PROVE  Solvent'
<1>1. CASE Advance
  <2>1. PICK got \in Takings : cash' = [f \in Orgs |-> cash[f] + got[f]]
    BY <1>1 DEF Advance
  <2>2. got \in [Orgs -> Nat]
    BY FirmsAssumption
  <2> QED
    BY <1>1, <2>1, <2>2 DEF Advance, Solvent
<1>2. CASE Install
  BY <1>2 DEF Install, firm, Solvent
<1>3. ASSUME NEW j \in ready, Payroll(j)
      PROVE  Solvent'
  <2>1. CASE UNCHANGED firm
    BY <2>1 DEF firm, Solvent
  <2>2. CASE HeldForCash(j)
    BY <2>2 DEF HeldForCash, Solvent
  <2>3. CASE Paid(j) /\ Affordable(j.org) /\ j.org \notin failed
    <3> DEFINE total == Wages(j.org)
    <3>1. CASE j.org \notin Orgs
      BY <2>3, <3>1 DEF Paid, Solvent
    <3>2. CASE j.org \in Orgs
      <4>1. total \in Nat /\ cash[j.org] \in Nat /\ total <= cash[j.org] /\ purse[j.org] \in Nat
        BY <2>3, <3>2, WagesAreANumber DEF Affordable, Solvent
      <4>2. /\ cash' = [cash EXCEPT ![j.org] = @ - total]
            /\ purse' = [purse EXCEPT ![j.org] = @ + total]
            /\ owed' = owed
        BY <2>3 DEF Paid
      <4> HIDE DEF total
      <4>3. cash[j.org] - total \in Nat /\ purse[j.org] + total \in Nat
        BY <4>1
      <4> QED
        BY <4>2, <4>3 DEF Solvent
    <3> QED
      BY <3>1, <3>2
  <2> QED
    BY <1>3, <2>1, <2>2, <2>3 DEF Payroll, HeldForHours
<1>4. ASSUME NEW j \in ready, RentRun(j)
      PROVE  Solvent'
  <2>1. CASE UNCHANGED cash
    BY <1>4, <2>1 DEF RentRun, Solvent
  <2>2. CASE cash' = [cash EXCEPT ![j.org] = @ - Rent[j.org]] /\ ~(cash[j.org] < Rent[j.org])
    <3>1. CASE j.org \notin Orgs
      BY <1>4, <2>2, <3>1 DEF RentRun, Solvent
    <3>2. CASE j.org \in Orgs
      <4>1. cash[j.org] \in Nat /\ Rent[j.org] \in Nat
        BY <3>2, FirmsAssumption DEF Solvent
      <4>2. cash[j.org] - Rent[j.org] \in Nat
        BY <2>2, <4>1
      <4> QED
        BY <1>4, <2>2, <4>2 DEF RentRun, Solvent
    <3> QED
      BY <3>1, <3>2
  <2> QED
    BY <1>4, <2>1, <2>2 DEF RentRun
<1>5. ASSUME NEW j \in ready, TaxQuarter(j) \/ SupplierOrder(j)
      PROVE  Solvent'
  <2>1. CASE UNCHANGED cash
    BY <1>5, <2>1 DEF TaxQuarter, SupplierOrder, Solvent
  <2>2. CASE \E wanted \in Nat : Spend(j.org, wanted)
    <3>1. PICK wanted \in Nat : Spend(j.org, wanted)
      BY <2>2
    <3>2. CASE j.org \in Orgs
      BY <1>5, <3>1, <3>2, SpendingWhatIsThere DEF TaxQuarter, SupplierOrder, Solvent
    <3>3. CASE j.org \notin Orgs
      BY <1>5, <3>1, <3>3 DEF TaxQuarter, SupplierOrder, Solvent, Spend
    <3> QED
      BY <3>2, <3>3
  <2>3. TaxBills \subseteq Nat /\ StockOrders \subseteq Nat
    BY FirmsAssumption
  <2> QED
    BY <1>5, <2>1, <2>2, <2>3 DEF TaxQuarter, SupplierOrder
<1>6. ASSUME NEW j \in ready, HouseholdsWeek(j)
      PROVE  Solvent'
  <2>1. \A f \in Orgs : purse[f] - LivingCosts(f) \in Nat /\ purse[f] \in Nat
    BY LivingOnThePurse DEF Solvent
  <2> QED
    BY <1>6, <2>1 DEF HouseholdsWeek, Solvent
<1>7. ASSUME NEW j \in ready, LoansWeek(j)
      PROVE  Solvent'
  <2>1. ASSUME NEW f \in Orgs
        PROVE  /\ (IF owed[f] > 0 THEN CashAfter(f) - Repayment(f) ELSE cash[f]) \in Nat
               /\ (IF owed[f] > 0 THEN DebtAfter(f) - Repayment(f) ELSE owed[f]) \in Nat
    BY BankWeek DEF Solvent
  <2> QED
    BY <1>7, <2>1 DEF LoansWeek, Solvent
<1>8. ASSUME NEW j \in ready, Review(j)
      PROVE  Solvent'
  <2>1. CASE UNCHANGED <<cash, owed>>
    BY <1>8, <2>1 DEF Review, Solvent
  <2>2. CASE Borrow(j.org)
    <3> DEFINE loan == LoanWeeks * Outgoings(j.org, 0)
    <3>1. /\ cash' = [cash EXCEPT ![j.org] = @ + loan]
          /\ owed' = [owed EXCEPT ![j.org] = loan]
          /\ purse' = purse
      BY <1>8, <2>2 DEF Borrow, Review
    <3>2. CASE j.org \notin Orgs
      BY <3>1, <3>2 DEF Solvent
    <3>3. CASE j.org \in Orgs
      <4>1. Outgoings(j.org, 0) \in Nat
        BY <3>3, OutgoingsAreANumber
      <4>2. loan \in Nat
        BY <4>1, Periods, Products
      <4> HIDE DEF loan
      <4> QED
        BY <3>1, <3>3, <4>2 DEF Solvent
    <3> QED
      BY <3>2, <3>3
  <2> QED
    BY <1>8, <2>1, <2>2 DEF Review
<1>9. ASSUME NEW j \in ready, Hiring(j)
      PROVE  Solvent'
  BY <1>9 DEF Hiring, Solvent
<1> QED
  BY <1>1, <1>2, <1>3, <1>4, <1>5, <1>6, <1>7, <1>8, <1>9 DEF Next, Run

\* No step plans anything but a job.
LEMMA QueueStep ==
  ASSUME TypeOK, Next
  PROVE  queue' \subseteq Job /\ ready' \subseteq Job
<1>0. queue \subseteq Job /\ ready \subseteq Job /\ now \in Nat
  BY DEF TypeOK
<1>1. CASE Advance
  BY <1>0, <1>1 DEF Advance, Takeable
<1>2. CASE Install
  <2>1. Missing \subseteq Job
    BY RecurringAreJobs DEF Missing
  <2> QED
    BY <1>0, <1>2, <2>1 DEF Install
<1>3. ASSUME NEW j \in ready, Payroll(j)
      PROVE  queue' \subseteq Job /\ ready' \subseteq Job
  <2>1. j \in Job /\ ready' \subseteq Job /\ j.kind = "payroll.run"
    BY <1>0, <1>3 DEF Payroll, Taken
  <2>2. Warned(j) \subseteq Job
    <3>1. j.org \in Orgs
      BY <2>1 DEF Job, Dated, TownKinds
    <3> QED
      BY <2>1, <3>1, WarningsAreReviews
  <2>3. CASE queue' = queue
    BY <1>0, <2>1, <2>3
  <2>4. CASE Paid(j)
    <3>1. j.org \in Orgs /\ j.for \in Nat
      BY <2>1 DEF Job, Dated, TownKinds
    <3>2. j.for + WEEK \in Nat
      BY <3>1, Periods
    <3>3. Plain("payroll.run", j.org, j.for + WEEK, j.for + WEEK) \in Job
      BY <3>1, <3>2, PlainIsAJob DEF OrgKinds, OfficeKinds
    <3> QED
      BY <2>1, <2>2, <2>4, <3>3 DEF Paid
  <2>5. CASE HeldForHours(j)
    BY <2>1, <2>2, <2>5, RetriesAreJobs DEF HeldForHours
  <2>6. CASE HeldForCash(j)
    BY <2>1, <2>2, <2>6, RetriesAreJobs DEF HeldForCash, FailedFirm
  <2> QED
    BY <1>3, <2>3, <2>4, <2>5, <2>6 DEF Payroll
<1>4. ASSUME NEW j \in ready, RentRun(j)
      PROVE  queue' \subseteq Job /\ ready' \subseteq Job
  <2>1. j \in Job /\ ready' \subseteq Job /\ j.kind = "rent.run"
    BY <1>0, <1>4 DEF RentRun, Taken
  <2>2. j.org \in Orgs /\ j.for \in Nat
    BY <2>1 DEF Job, Dated, TownKinds
  <2>3. j.for + MONTH \in Nat /\ now + DAY \in Nat
    BY <1>0, <2>2, Periods
  <2>4. Plain("rent.run", j.org, j.for + MONTH, j.for + MONTH) \in Job
    BY <2>2, <2>3, PlainIsAJob DEF OrgKinds
  <2>5. [j EXCEPT !.due = now + DAY, !.held = TRUE] \in Job
    BY <2>1, <2>3 DEF Job, Dated
  <2>6. \/ queue' = queue
        \/ queue' = queue \cup {[j EXCEPT !.due = now + DAY, !.held = TRUE]}
        \/ queue' = queue \cup {Plain("rent.run", j.org, j.for + MONTH, j.for + MONTH)}
    BY <1>4 DEF RentRun
  <2> QED
    BY <1>0, <2>1, <2>4, <2>5, <2>6
<1>5. ASSUME NEW j \in ready, TaxQuarter(j) \/ SupplierOrder(j) \/ HouseholdsWeek(j)
                              \/ LoansWeek(j) \/ Review(j) \/ Hiring(j)
      PROVE  queue' \subseteq Job /\ ready' \subseteq Job
  <2>1. j \in Job /\ ready' \subseteq Job
    BY <1>0, <1>5 DEF Taken, TaxQuarter, SupplierOrder, HouseholdsWeek, LoansWeek, Review,
                      Hiring
  <2>2. j.for \in Nat
    BY <2>1 DEF Job, Dated
  <2>3. j.for + QUARTER \in Nat /\ now + WEEK \in Nat /\ now + MONTH \in Nat
    BY <1>0, <2>2, Periods
  <2>4. \/ queue' = queue
        \/ \E due \in {j.for + QUARTER, now + WEEK, now + MONTH} :
             queue' = queue \cup {Again(j, due)}
    BY <1>5 DEF TaxQuarter, SupplierOrder, HouseholdsWeek, LoansWeek, Review, Hiring
  <2> QED
    BY <1>0, <2>1, <2>3, <2>4, AgainIsAJob
<1> QED
  BY <1>1, <1>2, <1>3, <1>4, <1>5 DEF Next, Run

\* What a step may do to the staff: nothing, people leave, or a firm in business fills a
\* vacancy it sees.
LEMMA WhoComesAndGoes ==
  ASSUME TypeOK, Next
  PROVE  \/ UNCHANGED people
         \/ \E leavers \in SUBSET DOMAIN people : people' = Gone(leavers)
         \/ \E f \in Orgs \ failed : \E n \in Vacancies(f) : Hire(f, people[n].role)
<1>1. ASSUME NEW j \in ready, Hiring(j)
      PROVE  UNCHANGED people
             \/ \E f \in Orgs \ failed : \E n \in Vacancies(f) : Hire(f, people[n].role)
  <2>1. j.org \in Orgs
    BY <1>1 DEF Hiring, TypeOK, Job, Dated, TownKinds
  <2> QED
    BY <1>1, <2>1 DEF Hiring
<1>2. ASSUME NEW j \in ready, Payroll(j)
      PROVE  UNCHANGED people \/ \E leavers \in SUBSET DOMAIN people : people' = Gone(leavers)
  <2>1. Employed(j.org) \in SUBSET DOMAIN people /\ SUBSET Staff(j.org) \subseteq SUBSET DOMAIN people
    BY DEF Employed, Staff
  <2>2. CASE HeldForCash(j)
    BY <2>1, <2>2 DEF HeldForCash, FailedFirm
  <2> QED
    BY <1>2, <2>2 DEF Payroll, Paid, HeldForHours, firm
<1>3. CASE Advance \/ Install
  BY <1>3 DEF Advance, Install, firm
<1>4. ASSUME NEW j \in ready,
             RentRun(j) \/ TaxQuarter(j) \/ SupplierOrder(j) \/ HouseholdsWeek(j)
             \/ LoansWeek(j) \/ Review(j)
      PROVE  UNCHANGED people
  BY <1>4 DEF RentRun, TaxQuarter, SupplierOrder, HouseholdsWeek, LoansWeek, Review
<1> QED
  BY <1>1, <1>2, <1>3, <1>4 DEF Next, Run

\* No step makes anybody but a person with a number of the town's.
LEMMA PeopleStep ==
  ASSUME TypeOK, Next
  PROVE  DOMAIN people' \subseteq Numbers /\ \A n \in DOMAIN people' : people'[n] \in Person
<1>1. CASE UNCHANGED people
  BY <1>1 DEF TypeOK
<1>2. CASE \E leavers \in SUBSET DOMAIN people : people' = Gone(leavers)
  <2>1. PICK leavers \in SUBSET DOMAIN people : people' = Gone(leavers)
    BY <1>2
  <2>2. /\ DOMAIN Gone(leavers) = DOMAIN people
        /\ \A n \in DOMAIN people : Gone(leavers)[n] \in Person
    BY GoneKeepsTypes
  <2> QED
    BY <2>1, <2>2 DEF TypeOK
<1>3. CASE \E f \in Orgs \ failed : \E n \in Vacancies(f) : Hire(f, people[n].role)
  <2>0. PICK f \in Orgs \ failed : \E n \in Vacancies(f) : Hire(f, people[n].role)
    BY <1>3
  <2>1. PICK n \in Vacancies(f) : Hire(f, people[n].role)
    BY <2>0
  <2>2. n \in DOMAIN people /\ people[n] \in Person
    BY DEF Vacancies, TypeOK
  <2>3. [org |-> f, role |-> people[n].role, left |-> FALSE] \in Person
    BY <2>2 DEF Person
  <2> QED
    BY <2>1, <2>3 DEF Hire, TypeOK
<1> QED
  BY <1>1, <1>2, <1>3, WhoComesAndGoes

\* Every variable keeps its type.
LEMMA TypingStep ==
  ASSUME TypeOK, Solvent, Next
  PROVE  TypeOK'
<1>1. Solvent' /\ queue' \subseteq Job /\ ready' \subseteq Job
  BY MoneyStep, QueueStep
<1>2. DOMAIN people' \subseteq Numbers /\ \A n \in DOMAIN people' : people'[n] \in Person
  BY PeopleStep
<1>3. /\ cash' \in [Orgs -> Int] /\ purse' \in [Orgs -> Int] /\ owed' \in [Orgs -> Int]
  BY <1>1 DEF Solvent
<1>4. ASSUME NEW j \in ready, j.kind \in OrgKinds
      PROVE  j.org \in Orgs
  BY <1>4 DEF TypeOK, Job, Dated, TownKinds, OrgKinds, OfficeKinds
<1>5. /\ now' \in Nat /\ failed' \subseteq Orgs /\ reviewed' \in [Orgs -> Nat \cup {Never}]
      /\ paydays' \in [Orgs -> Nat] /\ lapsed' \subseteq Orgs
  <2> USE DEF TypeOK
  <2>1. CASE Advance
    BY <2>1, Periods DEF Advance
  <2>2. CASE Install
    BY <2>2 DEF Install, firm
  <2>3. ASSUME NEW j \in ready, Payroll(j)
        PROVE  /\ now' \in Nat /\ failed' \subseteq Orgs
               /\ reviewed' \in [Orgs -> Nat \cup {Never}]
               /\ paydays' \in [Orgs -> Nat] /\ lapsed' \subseteq Orgs
    <3>1. j.org \in Orgs
      BY <1>4, <2>3 DEF Payroll, OrgKinds, OfficeKinds
    <3>2. now' = now /\ (lapsed' = lapsed \/ lapsed' = lapsed \cup {j.org})
      BY <2>3 DEF Payroll, Taken
    <3>3. /\ reviewed' = reviewed
          /\ paydays' = paydays \/ paydays' = [paydays EXCEPT ![j.org] = @ + 1]
          /\ failed' = failed \/ failed' = failed \cup {j.org}
      BY <2>3 DEF Payroll, firm, Paid, HeldForHours, HeldForCash, FailedFirm
    <3> QED
      BY <3>1, <3>2, <3>3
  <2>4. ASSUME NEW j \in ready, Review(j)
        PROVE  /\ now' \in Nat /\ failed' \subseteq Orgs
               /\ reviewed' \in [Orgs -> Nat \cup {Never}]
               /\ paydays' \in [Orgs -> Nat] /\ lapsed' \subseteq Orgs
    BY <2>4 DEF Review, Taken
  <2>5. ASSUME NEW j \in ready,
               RentRun(j) \/ TaxQuarter(j) \/ SupplierOrder(j) \/ HouseholdsWeek(j)
               \/ LoansWeek(j) \/ Hiring(j)
        PROVE  UNCHANGED <<now, failed, reviewed, paydays, lapsed>>
    BY <2>5 DEF RentRun, TaxQuarter, SupplierOrder, HouseholdsWeek, LoansWeek, Hiring, Taken
  <2> QED
    BY <2>1, <2>2, <2>3, <2>4, <2>5 DEF Next, Run
<1> QED
  BY <1>1, <1>2, <1>3, <1>5 DEF TypeOK

\* A world starts as it should.
LEMMA TypingInit ==
  ASSUME Init
  PROVE  TypeOK /\ Solvent
<1> USE FirmsAssumption DEF Init
<1>1. queue \subseteq Job /\ ready \subseteq Job
  OBVIOUS
<1>2. cash \in [Orgs -> Nat] /\ purse \in [Orgs -> Nat] /\ owed \in [Orgs -> Nat]
  OBVIOUS
<1>3. cash \in [Orgs -> Int] /\ purse \in [Orgs -> Int] /\ owed \in [Orgs -> Int]
  BY <1>2
<1>4. DOMAIN people \subseteq Numbers
  BY DEF Numbers
<1>5. \A n \in DOMAIN people : people[n] \in Person
  BY DEF Person
<1> QED
  BY <1>1, <1>2, <1>3, <1>4, <1>5 DEF TypeOK, Solvent

\* Types and solvency together are inductive.
LEMMA SoundBooks == Spec => [](TypeOK /\ Solvent)
<1>1. Init => TypeOK /\ Solvent
  BY TypingInit
<1>2. TypeOK /\ Solvent /\ [Next]_vars => (TypeOK /\ Solvent)'
  <2>1. ASSUME TypeOK, Solvent, UNCHANGED vars
        PROVE  (TypeOK /\ Solvent)'
    BY <2>1 DEF TypeOK, Solvent, vars
  <2> QED
    BY <2>1, TypingStep, MoneyStep
<1> QED
  BY <1>1, <1>2, PTL DEF Spec

\* Every variable keeps its type.
THEOREM TypeCorrect == Spec => []TypeOK
BY SoundBooks, PTL

\* Nobody ever spends what they do not have: not a firm in any tick, whatever it
\* owes in that tick and in whatever order, nor a household, and the bank is never
\* owed less than nothing.
THEOREM NobodyOverdrawn == Spec => []NobodyIsOverdrawn
<1>1. Solvent => NobodyIsOverdrawn
  BY DEF Solvent, NobodyIsOverdrawn
<1> QED
  BY <1>1, SoundBooks, PTL

-----------------------------------------------------------------------------
(* Failure. *)

\* Whoever works for a firm after a step worked for it before, or the firm was in
\* business and has hired them.
LEMMA NobodyJoinsAFailedFirm ==
  ASSUME TypeOK, Next, NEW f \in failed
  PROVE  \A n \in DOMAIN people' : people'[n].org = f /\ ~people'[n].left => n \in Employed(f)
<1>1. CASE UNCHANGED people
  BY <1>1 DEF Employed
<1>2. CASE \E leavers \in SUBSET DOMAIN people : people' = Gone(leavers)
  <2>1. PICK leavers \in SUBSET DOMAIN people : people' = Gone(leavers)
    BY <1>2
  <2> QED
    BY <2>1, GoneKeepsTypes DEF Employed
<1>3. CASE \E g \in Orgs \ failed : \E n \in Vacancies(g) : Hire(g, people[n].role)
  <2>0. PICK g \in Orgs \ failed : \E n \in Vacancies(g) : Hire(g, people[n].role)
    BY <1>3
  <2>1. PICK n \in Vacancies(g) : Hire(g, people[n].role)
    BY <2>0
  <2>2. ASSUME NEW m \in DOMAIN people', people'[m].org = f, ~people'[m].left
        PROVE  m \in Employed(f)
    <3>1. /\ DOMAIN people' = DOMAIN people \cup {NextHire}
          /\ people'[m] = IF m = NextHire
                            THEN [org |-> g, role |-> people[n].role, left |-> FALSE]
                            ELSE people[m]
      BY <2>1, <2>2 DEF Hire
    <3>2. g # f
      BY <2>0
    <3> QED
      BY <2>2, <3>1, <3>2 DEF Employed
  <2> QED
    BY <2>2
<1> QED
  BY <1>1, <1>2, <1>3, WhoComesAndGoes

\* Nothing but a payroll touches the paydays that are planned.
LEMMA OnlyPayrollPlansPaydays ==
  ASSUME TypeOK, NEW j \in ready,
         RentRun(j) \/ TaxQuarter(j) \/ SupplierOrder(j) \/ HouseholdsWeek(j)
         \/ LoansWeek(j) \/ Review(j) \/ Hiring(j)
  PROVE  /\ j.kind # "payroll.run"
         /\ ready' = ready \ {j}
         /\ \A k : k.kind = "payroll.run" => (k \in queue' <=> k \in queue)
         /\ UNCHANGED <<now, failed, paydays, lapsed>>
<1>1. j \in Job
  BY DEF TypeOK
<1>2. j.kind # "payroll.run" /\ ready' = ready \ {j} /\ UNCHANGED <<now, failed, paydays, lapsed>>
  BY DEF RentRun, TaxQuarter, SupplierOrder, HouseholdsWeek, LoansWeek, Review, Hiring, Taken
<1>3. CASE RentRun(j)
  <2>1. Plain("rent.run", j.org, j.for + MONTH, j.for + MONTH).kind = "rent.run"
    BY DEF Plain
  <2>2. [j EXCEPT !.due = now + DAY, !.held = TRUE].kind = "rent.run"
    BY <1>1, <1>3 DEF RentRun, Job, Dated
  <2>3. \/ queue' = queue
        \/ queue' = queue \cup {[j EXCEPT !.due = now + DAY, !.held = TRUE]}
        \/ queue' = queue \cup {Plain("rent.run", j.org, j.for + MONTH, j.for + MONTH)}
    BY <1>3 DEF RentRun
  <2> QED
    BY <1>2, <2>1, <2>2, <2>3
<1>4. CASE TaxQuarter(j) \/ SupplierOrder(j) \/ HouseholdsWeek(j) \/ LoansWeek(j) \/ Review(j)
           \/ Hiring(j)
  <2>1. \/ queue' = queue
        \/ \E due : queue' = queue \cup {Again(j, due)}
    BY <1>4 DEF TaxQuarter, SupplierOrder, HouseholdsWeek, LoansWeek, Review, Hiring
  <2>2. \A due : Again(j, due).kind = j.kind
    BY <1>1 DEF Again, Job, Dated
  <2> QED
    BY <1>2, <2>1, <2>2
<1> QED
  BY <1>3, <1>4

-----------------------------------------------------------------------------
(* Paydays. *)

\* What is planned for a firm's wages: nothing once it has failed, or once nobody was
\* there to run a payroll; before that the first payday it has not paid, in the queue
\* or taken off it and not both, planned for that day or later, and run after that.
NextPayday(f, j) ==
  /\ PaydaysOf(f) = {j}
  /\ j.for = FirstPayday + WEEK * paydays[f]
  /\ ~(j \in queue /\ j \in ready)
  /\ j.for <= j.due
  /\ j \in ready => j.due <= now

Paying(f) == f \notin failed \cup lapsed

PaydaysRight(f) ==
  IF Paying(f) THEN \E j \in Planned : NextPayday(f, j) ELSE PaydaysOf(f) = {}

PaydayInv == \A f \in Orgs : PaydaysRight(f)

\* A step that leaves a firm's paydays alone.
LEMMA PaydaysUntouched ==
  ASSUME NEW f \in Orgs, PaydaysRight(f),
         \A k : k.kind = "payroll.run" /\ k.org = f =>
                  (k \in queue' <=> k \in queue) /\ (k \in ready' <=> k \in ready),
         now' = now, paydays'[f] = paydays[f],
         f \in failed' <=> f \in failed, f \in lapsed' <=> f \in lapsed
  PROVE  PaydaysRight(f)'
<1>1. PaydaysOf(f)' = PaydaysOf(f)
  BY DEF PaydaysOf, Planned
<1>2. CASE ~Paying(f)
  BY <1>1, <1>2 DEF PaydaysRight, Paying
<1>3. CASE Paying(f)
  <2>1. PICK j \in Planned : NextPayday(f, j)
    BY <1>3 DEF PaydaysRight
  <2>2. j.kind = "payroll.run" /\ j.org = f
    BY <2>1 DEF NextPayday, PaydaysOf
  <2>3. j \in Planned' /\ NextPayday(f, j)'
    BY <1>1, <2>1, <2>2 DEF NextPayday, Planned
  <2> QED
    BY <1>3, <2>3 DEF PaydaysRight, Paying
<1> QED
  BY <1>2, <1>3

\* A payroll that is run leaves one payday planned in its place, the same or the next,
\* or none if the firm fails or nobody was there.
LEMMA PaydaysMoveOn ==
  ASSUME TypeOK, PaydayInv, NEW j \in ready, Payroll(j)
  PROVE  PaydaysRight(j.org)'
<1> DEFINE f == j.org
<1>1. /\ j \in Job /\ j.kind = "payroll.run" /\ ready' = ready \ {j} /\ now' = now
      /\ j \in Planned
  BY DEF TypeOK, Payroll, Taken, Planned
<1>2. f \in Orgs /\ j.for \in Nat /\ now \in Nat
  BY <1>1 DEF Job, Dated, TownKinds, TypeOK
<1>3. j \in PaydaysOf(f)
  BY <1>1 DEF PaydaysOf
<1>4. Paying(f) /\ NextPayday(f, j) /\ j \notin queue
  <2>1. PaydaysRight(f)
    BY <1>2 DEF PaydayInv
  <2>2. Paying(f)
    BY <1>3, <2>1 DEF PaydaysRight
  <2>3. PICK k \in Planned : NextPayday(f, k)
    BY <2>1, <2>2 DEF PaydaysRight
  <2>4. k = j
    BY <1>3, <2>3 DEF NextPayday
  <2> QED
    BY <2>2, <2>3, <2>4 DEF NextPayday
<1>5. \A k : k.kind = "payroll.run" /\ k.org = f => k \notin queue /\ k \notin ready'
  BY <1>1, <1>4 DEF NextPayday, PaydaysOf, Planned
<1>6. \A k \in Warned(j) : k.kind = "payroll.run" => k \in queue
  BY <1>1, <1>2, WarningsAreReviews
\* One job has taken its place.
<1>7. ASSUME NEW k, NEW rest,
             queue' = rest \cup {k},
             \A i \in rest : i.kind = "payroll.run" => i \in queue,
             k.kind = "payroll.run", k.org = f,
             k.for = FirstPayday + WEEK * paydays'[f], k.for <= k.due,
             UNCHANGED <<failed, lapsed>>
      PROVE  PaydaysRight(f)'
  <2>1. k \in Planned'
    BY <1>7 DEF Planned
  <2>2. PaydaysOf(f)' = {k}
    BY <1>5, <1>7, <2>1 DEF PaydaysOf, Planned
  <2>3. k \notin ready'
    BY <1>5, <1>7
  <2>4. NextPayday(f, k)'
    BY <1>7, <2>2, <2>3 DEF NextPayday
  <2> QED
    BY <1>4, <1>7, <2>1, <2>4 DEF PaydaysRight, Paying
\* None has.
<1>8. ASSUME \A i \in queue' : i.kind = "payroll.run" => i.org # f \/ i \in queue,
             f \in failed' \cup lapsed'
      PROVE  PaydaysRight(f)'
  <2>1. PaydaysOf(f)' = {}
    BY <1>5, <1>8 DEF PaydaysOf, Planned
  <2> QED
    BY <1>8, <2>1 DEF PaydaysRight, Paying
<1>9. CASE Paid(j) /\ UNCHANGED lapsed
  <2> DEFINE k == Plain("payroll.run", f, j.for + WEEK, j.for + WEEK)
  <2>1. /\ k.kind = "payroll.run" /\ k.org = f /\ k.for = j.for + WEEK /\ k.due = j.for + WEEK
    BY DEF Plain
  <2>2. queue' = Warned(j) \cup {k} /\ UNCHANGED failed
    BY <1>9 DEF Paid
  <2>3. paydays'[f] = paydays[f] + 1 /\ paydays[f] \in Nat
    BY <1>2, <1>9 DEF Paid, TypeOK
  <2>4. j.for = FirstPayday + WEEK * paydays[f]
    BY <1>4 DEF NextPayday
  <2>5. k.for = FirstPayday + WEEK * paydays'[f]
    <3>1. ASSUME NEW a \in Nat, NEW w \in Nat, NEW p \in Nat
          PROVE  (a + w * p) + w = a + w * (p + 1)
      OBVIOUS
    <3> QED
      BY <2>1, <2>3, <2>4, <3>1, Periods
  <2>6. k.for <= k.due
    BY <1>2, <2>1, Periods
  <2> HIDE DEF k
  <2> QED
    BY <1>6, <1>7, <1>9, <2>1, <2>2, <2>5, <2>6
<1>10. CASE HeldForHours(j) /\ UNCHANGED lapsed
  <2> DEFINE k == [j EXCEPT !.due = now + TICK, !.held = TRUE]
  <2>1. /\ k.kind = "payroll.run" /\ k.org = f /\ k.for = j.for /\ k.due = now + TICK
    BY <1>1 DEF Job, Dated
  <2>2. queue' = Warned(j) \cup {k} /\ UNCHANGED <<failed, paydays>>
    BY <1>10 DEF HeldForHours, firm
  <2>3. j.for = FirstPayday + WEEK * paydays[f] /\ j.for <= now
    <3>1. j.due \in Nat /\ j.for <= j.due /\ j.due <= now
      BY <1>1, <1>4 DEF NextPayday, Job, Dated
    <3> QED
      BY <1>2, <1>4, <3>1 DEF NextPayday
  <2>4. k.for <= k.due
    BY <1>2, <2>1, <2>3, Periods
  <2> HIDE DEF k
  <2> QED
    BY <1>6, <1>7, <1>10, <2>1, <2>2, <2>3, <2>4
<1>11. CASE HeldForCash(j) /\ UNCHANGED lapsed
  <2>1. UNCHANGED paydays
    BY <1>11 DEF HeldForCash
  <2>2. CASE FailedFirm(f, Warned(j))
    BY <1>6, <1>8, <2>2 DEF FailedFirm
  <2>3. CASE queue' = Warned(j) \cup {Retry(j)} /\ UNCHANGED failed
    <3>1. /\ Retry(j).kind = "payroll.run" /\ Retry(j).org = f /\ Retry(j).for = j.for
          /\ Retry(j).due = now + DAY
      BY <1>1, RetriesAreJobs
    <3>2. j.for = FirstPayday + WEEK * paydays[f] /\ j.for <= now
      <4>1. j.due \in Nat /\ j.for <= j.due /\ j.due <= now
        BY <1>1, <1>4 DEF NextPayday, Job, Dated
      <4> QED
        BY <1>2, <1>4, <4>1 DEF NextPayday
    <3>3. Retry(j).for <= Retry(j).due
      BY <1>2, <3>1, <3>2, Periods
    <3> QED
      BY <1>6, <1>7, <1>11, <2>1, <2>3, <3>1, <3>2, <3>3
  <2> QED
    BY <1>11, <2>2, <2>3 DEF HeldForCash
<1>12. CASE lapsed' = lapsed \cup {f} /\ UNCHANGED queue
  BY <1>8, <1>12
<1>13. j.org \notin failed
  BY <1>4 DEF Paying
<1> QED
  BY <1>9, <1>10, <1>11, <1>12, <1>13 DEF Payroll

\* A payroll leaves the paydays of other firms alone.
LEMMA OthersPaydaysStay ==
  ASSUME TypeOK, PaydayInv, NEW j \in ready, Payroll(j), NEW f \in Orgs, f # j.org
  PROVE  PaydaysRight(f)'
<1>1. /\ j \in Job /\ j.kind = "payroll.run" /\ ready' = ready \ {j} /\ now' = now
  BY DEF TypeOK, Payroll, Taken
<1>2. j.org \in Orgs
  BY <1>1 DEF Job, Dated, TownKinds
<1>3. /\ queue \subseteq Warned(j)
      /\ \A k \in Warned(j) : k.kind = "payroll.run" => k \in queue
  BY <1>1, <1>2, WarningsAreReviews
<1>4. /\ Retry(j).org = j.org
      /\ [j EXCEPT !.due = now + TICK, !.held = TRUE].org = j.org
  BY <1>1, RetriesAreJobs DEF Job, Dated
<1>5. Plain("payroll.run", j.org, j.for + WEEK, j.for + WEEK).org = j.org
  BY DEF Plain
<1>6. \A k : k.kind = "payroll.run" /\ k.org = f =>
               (k \in queue' <=> k \in queue) /\ (k \in ready' <=> k \in ready)
  <2>1. \A k : k.org = f => (k \in ready' <=> k \in ready)
    BY <1>1
  <2>2. CASE queue' = queue
    BY <2>1, <2>2
  <2>3. CASE Paid(j)
    BY <1>3, <1>5, <2>1, <2>3 DEF Paid
  <2>4. CASE HeldForHours(j)
    BY <1>3, <1>4, <2>1, <2>4 DEF HeldForHours
  <2>5. CASE HeldForCash(j)
    <3>1. \/ queue' = {k \in Warned(j) : k.org # j.org \/ k.kind \notin Mortal}
          \/ queue' = Warned(j) \cup {Retry(j)}
      BY <2>5 DEF HeldForCash, FailedFirm
    <3> QED
      BY <1>3, <1>4, <2>1, <3>1
  <2> QED
    BY <2>2, <2>3, <2>4, <2>5 DEF Payroll
<1>7. /\ paydays'[f] = paydays[f]
      /\ f \in failed' <=> f \in failed
      /\ f \in lapsed' <=> f \in lapsed
  <2>1. \/ paydays' = paydays
        \/ paydays' = [paydays EXCEPT ![j.org] = @ + 1]
    BY DEF Payroll, firm, Paid, HeldForHours, HeldForCash
  <2>2. failed' = failed \/ failed' = failed \cup {j.org}
    BY DEF Payroll, firm, Paid, HeldForHours, HeldForCash, FailedFirm
  <2>3. lapsed' = lapsed \/ lapsed' = lapsed \cup {j.org}
    BY DEF Payroll
  <2> QED
    BY <2>1, <2>2, <2>3 DEF TypeOK
<1>8. PaydaysRight(f)
  BY DEF PaydayInv
<1> QED
  BY <1>1, <1>6, <1>7, <1>8, PaydaysUntouched

\* The paydays of every firm stay in order.
LEMMA PaydayStep ==
  ASSUME TypeOK, PaydayInv, Next
  PROVE  PaydayInv'
<1> SUFFICES ASSUME NEW f \in Orgs PROVE PaydaysRight(f)'
  BY DEF PaydayInv
<1>0. PaydaysRight(f)
  BY DEF PaydayInv
<1>1. CASE Advance
  <2>1. /\ ready = {} /\ ready' \subseteq queue /\ queue' = queue \ ready'
        /\ \A j \in ready' : j.due <= now'
        /\ UNCHANGED <<failed, lapsed, paydays>>
    BY <1>1 DEF Advance, Takeable
  <2>2. Planned' = Planned /\ PaydaysOf(f)' = PaydaysOf(f)
    BY <2>1 DEF Planned, PaydaysOf
  <2>3. CASE ~Paying(f)
    BY <1>0, <2>1, <2>2, <2>3 DEF PaydaysRight, Paying
  <2>4. CASE Paying(f)
    <3>1. PICK j \in Planned : NextPayday(f, j)
      BY <1>0, <2>4 DEF PaydaysRight
    <3>2. j \in Planned' /\ NextPayday(f, j)'
      BY <2>1, <2>2, <3>1 DEF NextPayday
    <3> QED
      BY <2>1, <2>4, <3>2 DEF PaydaysRight, Paying
  <2> QED
    BY <2>3, <2>4
<1>2. CASE Install
  <2>1. \A k \in Missing : k.kind # "payroll.run"
    BY RecurringAreJobs DEF Missing
  <2>2. /\ queue' = queue \cup Missing
        /\ UNCHANGED <<now, ready, failed, lapsed, paydays>>
    BY <1>2 DEF Install, firm
  <2>3. \A k : k.kind = "payroll.run" /\ k.org = f =>
                 (k \in queue' <=> k \in queue) /\ (k \in ready' <=> k \in ready)
    BY <2>1, <2>2
  <2> QED
    BY <1>0, <2>2, <2>3, PaydaysUntouched
<1>3. ASSUME NEW j \in ready, Payroll(j)
      PROVE  PaydaysRight(f)'
  <2>1. CASE f = j.org
    BY <1>3, <2>1, PaydaysMoveOn
  <2>2. CASE f # j.org
    BY <1>3, <2>2, OthersPaydaysStay
  <2> QED
    BY <2>1, <2>2
<1>4. ASSUME NEW j \in ready,
             RentRun(j) \/ TaxQuarter(j) \/ SupplierOrder(j) \/ HouseholdsWeek(j)
             \/ LoansWeek(j) \/ Review(j) \/ Hiring(j)
      PROVE  PaydaysRight(f)'
  <2>1. /\ j.kind # "payroll.run"
        /\ ready' = ready \ {j}
        /\ \A k : k.kind = "payroll.run" => (k \in queue' <=> k \in queue)
        /\ UNCHANGED <<now, failed, paydays, lapsed>>
    BY <1>4, OnlyPayrollPlansPaydays
  <2>2. \A k : k.kind = "payroll.run" /\ k.org = f =>
                 (k \in queue' <=> k \in queue) /\ (k \in ready' <=> k \in ready)
    BY <2>1
  <2> QED
    BY <1>0, <2>1, <2>2, PaydaysUntouched
<1> QED
  BY <1>1, <1>2, <1>3, <1>4 DEF Next, Run

\* A world starts with a payday planned for every firm.
LEMMA PaydayInit ==
  ASSUME Init
  PROVE  PaydayInv
<1> SUFFICES ASSUME NEW f \in Orgs PROVE PaydaysRight(f)
  BY DEF PaydayInv
<1>1. PICK first \in FirstJobs :
        /\ first.for = FirstPayday /\ first.due >= FirstPayday
        /\ {j \in FirstJobs : j.kind = "payroll.run" /\ j.org = f} = {first}
  BY OneFirstPayday
<1>2. queue = FirstJobs /\ ready = {} /\ paydays[f] = 0 /\ Paying(f)
  BY DEF Init, Paying
<1>3. PaydaysOf(f) = {first}
  BY <1>1, <1>2 DEF PaydaysOf, Planned
<1>4. first.for = FirstPayday + WEEK * paydays[f]
  BY <1>1, <1>2, Periods
<1>5. first \in Job
  BY FirmsAssumption
<1>6. first.for <= first.due
  BY <1>1, <1>5 DEF Job, Dated
<1> QED
  BY <1>2, <1>3, <1>4, <1>6 DEF PaydaysRight, NextPayday, Planned

\* Types, solvency and paydays hold together.
LEMMA SoundPaydays == Spec => [](TypeOK /\ Solvent /\ PaydayInv)
<1>1. Init => PaydayInv
  BY PaydayInit
<1>2. TypeOK /\ PaydayInv /\ [Next]_vars => PaydayInv'
  <2>1. ASSUME PaydayInv, UNCHANGED vars
        PROVE  PaydayInv'
    BY <2>1 DEF PaydayInv, PaydaysRight, Paying, NextPayday, PaydaysOf, Planned, vars
  <2> QED
    BY <2>1, PaydayStep
<1> QED
  BY <1>1, <1>2, SoundBooks, PTL DEF Spec

\* Paydays are paid in order, each once: what is planned for a firm in business is the
\* first payday it has not paid, and nothing else, unless nobody was there to run one.
THEOREM EveryPaydayInOrder == Spec => []PaydaysInOrder
<1>1. PaydayInv => PaydaysInOrder
  BY DEF PaydayInv, PaydaysRight, Paying, NextPayday, PaydaysInOrder
<1> QED
  BY <1>1, SoundPaydays, PTL

-----------------------------------------------------------------------------
(* What failure leaves. *)

\* Only a payroll that is held for want of money fails a firm, its own.
LEMMA HowFirmsFail ==
  ASSUME TypeOK, Next, NEW f \in failed', f \notin failed
  PROVE  \E j \in ready :
           /\ Payroll(j) /\ j.org = f /\ HeldForCash(j)
           /\ Behind(j) > j.missed /\ Behind(j) >= FailedAfter
           /\ people' = Gone(Employed(f))
<1>1. ASSUME NEW j \in ready, Payroll(j)
      PROVE  /\ j.org = f /\ HeldForCash(j)
             /\ Behind(j) > j.missed /\ Behind(j) >= FailedAfter
             /\ people' = Gone(Employed(f))
  <2>1. CASE HeldForCash(j)
    BY <2>1 DEF HeldForCash, FailedFirm
  <2>2. CASE UNCHANGED failed
    BY <2>2
  <2> QED
    BY <1>1, <2>1, <2>2 DEF Payroll, firm, Paid, HeldForHours
<1>2. ASSUME NEW j \in ready,
             RentRun(j) \/ TaxQuarter(j) \/ SupplierOrder(j) \/ HouseholdsWeek(j)
             \/ LoansWeek(j) \/ Review(j) \/ Hiring(j)
      PROVE  UNCHANGED failed
  BY <1>2, OnlyPayrollPlansPaydays
<1>3. CASE Advance \/ Install
  BY <1>3 DEF Advance, Install, firm
<1> QED
  BY <1>1, <1>2, <1>3 DEF Next, Run

\* Nobody works for a firm that has failed.
Idle == \A f \in failed : Employed(f) = {}

LEMMA IdleStep ==
  ASSUME TypeOK, Idle, Next
  PROVE  Idle'
<1> SUFFICES ASSUME NEW f \in failed' PROVE Employed(f)' = {}
  BY DEF Idle
<1>1. CASE f \in failed
  <2>1. \A n \in DOMAIN people' : people'[n].org = f /\ ~people'[n].left => n \in Employed(f)
    BY <1>1, NobodyJoinsAFailedFirm
  <2> QED
    BY <1>1, <2>1 DEF Idle, Employed
<1>2. CASE f \notin failed
  <2>1. people' = Gone(Employed(f))
    BY <1>2, HowFirmsFail
  <2> QED
    BY <2>1, GoneKeepsTypes DEF Employed
<1> QED
  BY <1>1, <1>2

\* A failed firm employs nobody and plans no payday, though some of its jobs may have
\* been off the queue when it failed, and others are queued again by later engines.
THEOREM FailureIsForGood == Spec => []FailedIsOver
<1>1. Init => Idle
  BY DEF Init, Idle
<1>2. TypeOK /\ Idle /\ [Next]_vars => Idle'
  <2>1. ASSUME Idle, UNCHANGED vars
        PROVE  Idle'
    BY <2>1 DEF Idle, Employed, vars
  <2> QED
    BY <2>1, IdleStep
<1>3. TypeOK /\ Idle /\ PaydayInv => FailedIsOver
  <2>1. ASSUME TypeOK, PaydayInv, NEW f \in failed
        PROVE  \A j \in queue : j.org = f => j.kind # "payroll.run"
    BY <2>1 DEF TypeOK, PaydayInv, PaydaysRight, Paying, PaydaysOf, Planned
  <2> QED
    BY <2>1 DEF FailedIsOver, Idle
<1> QED
  BY <1>1, <1>2, <1>3, SoundPaydays, PTL DEF Spec

\* What may leave a failed firm's account in a step.
LEMMA FailedFirmsMoney ==
  ASSUME TypeOK, Solvent, PaydayInv, Next, NEW f \in failed, cash'[f] < cash[f]
  PROVE  owed[f] > 0 /\ owed'[f] <= owed[f]
<1>0. f \in Orgs /\ cash[f] \in Nat /\ cash \in [Orgs -> Nat]
  BY DEF TypeOK, Solvent
<1>1. CASE Advance
  <2>1. PICK got \in Takings : cash' = [g \in Orgs |-> cash[g] + got[g]]
    BY <1>1 DEF Advance
  <2>2. got[f] \in Nat
    BY <1>0, FirmsAssumption
  <2> QED
    BY <1>0, <2>1, <2>2
<1>2. CASE Install
  BY <1>0, <1>2 DEF Install, firm
<1>3. ASSUME NEW j \in ready, Payroll(j)
      PROVE  FALSE
  <2>1. j.org # f
    <3>1. j.org = f => j \in PaydaysOf(f)
      BY <1>3 DEF Payroll, PaydaysOf, Planned
    <3> QED
      BY <1>0, <3>1 DEF PaydayInv, PaydaysRight, Paying
  <2>2. cash'[f] = cash[f]
    BY <1>0, <1>3, <2>1 DEF Payroll, firm, Paid, HeldForHours, HeldForCash
  <2> QED
    BY <1>0, <2>2
<1>4. ASSUME NEW j \in ready, RentRun(j) \/ TaxQuarter(j) \/ SupplierOrder(j)
      PROVE  FALSE
  <2>1. CASE j.org = f
    BY <1>0, <1>4, <2>1 DEF RentRun, TaxQuarter, SupplierOrder
  <2>2. CASE j.org # f
    <3>1. cash'[f] = cash[f]
      BY <1>0, <1>4, <2>2 DEF RentRun, TaxQuarter, SupplierOrder, Spend
    <3> QED
      BY <1>0, <3>1
  <2> QED
    BY <2>1, <2>2
<1>5. ASSUME NEW j \in ready, HouseholdsWeek(j) \/ Hiring(j)
      PROVE  FALSE
  BY <1>0, <1>5 DEF HouseholdsWeek, Hiring
<1>6. ASSUME NEW j \in ready, Review(j)
      PROVE  FALSE
  <2>1. CASE j.org = f \/ UNCHANGED cash
    BY <1>0, <1>6, <2>1 DEF Review
  <2>2. CASE j.org # f /\ Borrow(j.org)
    BY <1>0, <2>2 DEF Borrow
  <2> QED
    BY <1>6, <2>1, <2>2 DEF Review
<1>7. ASSUME NEW j \in ready, LoansWeek(j)
      PROVE  owed[f] > 0 /\ owed'[f] <= owed[f]
  <2>1. /\ cash'[f] = IF owed[f] > 0 THEN CashAfter(f) - Repayment(f) ELSE cash[f]
        /\ owed'[f] = IF owed[f] > 0 THEN DebtAfter(f) - Repayment(f) ELSE owed[f]
    BY <1>0, <1>7 DEF LoansWeek
  <2>2. owed[f] > 0
    BY <1>0, <2>1
  <2>3. \/ CashAfter(f) - Repayment(f) = cash[f]
        \/ DebtAfter(f) - Repayment(f) <= owed[f]
    BY <1>0, <2>2, BankWeek
  <2> QED
    BY <1>0, <2>1, <2>2, <2>3
<1> QED
  BY <1>1, <1>2, <1>3, <1>4, <1>5, <1>6, <1>7 DEF Next, Run

\* No money leaves a firm that has failed but to the bank it still owes.
THEOREM FailurePaysOnlyTheBank == Spec => FailedPaysOnlyTheBank
<1>1. TypeOK /\ Solvent /\ PaydayInv /\ [Next]_vars
        => [\A f \in failed : cash'[f] < cash[f] => owed[f] > 0 /\ owed'[f] <= owed[f]]_vars
  BY FailedFirmsMoney
<1> QED
  BY <1>1, SoundPaydays, PTL DEF Spec, FailedPaysOnlyTheBank

-----------------------------------------------------------------------------
(* Hardship. *)

\* What a quotient is.
LEMMA Quotient ==
  ASSUME NEW x \in Nat, NEW w \in Nat \ {0}
  PROVE  /\ x \div w \in Nat
         /\ w * (x \div w) <= x
         /\ x < w * ((x \div w) + 1)
<1>1. x \div w \in Int /\ x \div w >= 0
  OBVIOUS
<1>2. x = w * (x \div w) + (x % w) /\ x % w \in 0 .. (w - 1)
  OBVIOUS
<1> QED
  BY <1>1, <1>2

\* Less of the same multiple is less.
LEMMA Multiples ==
  ASSUME NEW w \in Nat \ {0}, NEW q \in Int, NEW r \in Int, w * q < w * (r + 1)
  PROVE  q <= r
<1>1. SUFFICES ASSUME q >= r + 1
               PROVE  w * q >= w * (r + 1)
  OBVIOUS
<1>2. q - (r + 1) \in Nat
  BY <1>1
<1>3. w * (q - (r + 1)) \in Nat
  BY <1>2, Products
<1>4. w * (q - (r + 1)) = w * q - w * (r + 1)
  OBVIOUS
<1> QED
  BY <1>3, <1>4

\* Of the weeks since a day, those since a day p weeks later are at least p fewer, and
\* fewer still since a day after that.
LEMMA WeeksSince ==
  ASSUME NEW w \in Nat \ {0}, NEW p \in Nat, NEW y \in Nat, NEW z \in Nat, z + w * p <= y
  PROVE  z \div w <= y \div w - p
<1> DEFINE q == z \div w
           r == y \div w - p
<1>1. q \in Nat /\ w * q <= z
  BY Quotient
<1>2. y \div w \in Nat /\ y < w * ((y \div w) + 1)
  BY Quotient
<1>3. w * ((y \div w) + 1) = w * (r + 1) + w * p
  <2>1. ASSUME NEW k \in Nat PROVE w * (k + 1) = w * ((k - p) + 1) + w * p
    OBVIOUS
  <2> QED
    BY <1>2, <2>1
<1>4. r \in Int
  BY <1>2
<1> HIDE DEF q, r
<1>5. w * p \in Nat /\ w * q \in Nat /\ w * (r + 1) \in Int
  BY <1>1, <1>4, Products
<1>6. w * q < w * (r + 1)
  BY <1>1, <1>2, <1>3, <1>5
<1>7. q <= r
  BY <1>1, <1>4, <1>6, Multiples
<1> QED
  BY <1>7 DEF q, r

\* A payroll never takes a firm for further behind than it is.
LEMMA BehindIsReal ==
  ASSUME TypeOK, PaydayInv, NEW j \in ready, j.kind = "payroll.run"
  PROVE  Behind(j) <= Unpaid(j.org) /\ Behind(j) \in Nat /\ Unpaid(j.org) \in Int
<1> DEFINE f == j.org
           p == paydays[f]
<1>1. j \in Job /\ j \in PaydaysOf(f)
  BY DEF TypeOK, PaydaysOf, Planned
<1>2. f \in Orgs /\ j.for \in Nat /\ j.due \in Nat /\ now \in Nat
  BY <1>1 DEF TypeOK, Job, Dated, TownKinds
<1>3. NextPayday(f, j)
  <2>1. Paying(f) /\ PaydaysRight(f)
    BY <1>1, <1>2 DEF PaydayInv, PaydaysRight
  <2>2. PICK k \in Planned : NextPayday(f, k)
    BY <2>1 DEF PaydaysRight
  <2>3. k = j
    BY <1>1, <2>2 DEF NextPayday
  <2> QED
    BY <2>2, <2>3
<1>4. p \in Nat
  BY <1>2 DEF TypeOK
<1>5. j.for = FirstPayday + WEEK * p /\ j.for <= now
  BY <1>2, <1>3 DEF NextPayday
<1> HIDE DEF p
<1>6. WEEK \in Nat \ {0} /\ FirstPayday \in Nat /\ EconomySince \in Nat /\ WEEK * p \in Nat
  BY <1>4, Periods, Products
<1> DEFINE z == Later(0, now - Later(j.for, EconomySince))
           y == now - FirstPayday
<1>7. z \in Nat /\ y \in Nat /\ z + WEEK * p <= y /\ ~(now < FirstPayday)
  BY <1>2, <1>5, <1>6 DEF Later
<1>8. Behind(j) = z \div WEEK + 1
  BY DEF Behind
<1>9. Unpaid(f) = ((y \div WEEK) + 1) - p
  BY <1>7 DEF Unpaid, p
<1> HIDE DEF z, y
<1>10. z \div WEEK \in Nat /\ y \div WEEK \in Nat /\ z \div WEEK <= y \div WEEK - p
  BY <1>4, <1>6, <1>7, WeeksSince, Quotient
<1> QED
  BY <1>4, <1>8, <1>9, <1>10

\* Who leaves, and when.
LEMMA HowPeopleLeave ==
  ASSUME TypeOK, Next, NEW f \in Orgs, NEW n \in Employed(f), people'[n].left
  PROVE  \E j \in ready :
           /\ Payroll(j) /\ j.org = f
           /\ Behind(j) >= LeaveFrom \/ Behind(j) >= FailedAfter
<1>0. n \in DOMAIN people /\ people[n].org = f /\ ~people[n].left
  BY DEF Employed
<1>1. ASSUME NEW j \in ready, Payroll(j)
      PROVE  j.org = f /\ (Behind(j) >= LeaveFrom \/ Behind(j) >= FailedAfter)
  <2>1. CASE UNCHANGED people
    BY <1>0, <2>1
  <2>2. CASE HeldForCash(j)
    <3>1. \/ /\ Behind(j) >= FailedAfter
             /\ people' = Gone(Employed(j.org))
          \/ /\ Behind(j) \in LeaveFrom .. (FailedAfter - 1)
             /\ \E leavers \in SUBSET Staff(j.org) : people' = Gone(leavers)
          \/ UNCHANGED people
      BY <2>2 DEF HeldForCash, FailedFirm
    <3>2. Behind(j) \in LeaveFrom .. (FailedAfter - 1) => Behind(j) >= LeaveFrom
      OBVIOUS
    <3>3. ASSUME NEW leavers \in SUBSET Employed(j.org), people' = Gone(leavers)
          PROVE  j.org = f
      <4>1. n \in leavers
        BY <1>0, <3>3, GoneKeepsTypes
      <4> QED
        BY <1>0, <4>1 DEF Employed
    <3>4. Staff(j.org) \subseteq Employed(j.org)
      BY DEF Staff
    <3> QED
      BY <1>0, <3>1, <3>2, <3>3, <3>4
  <2> QED
    BY <1>1, <2>1, <2>2 DEF Payroll, firm, Paid, HeldForHours
<1>2. CASE UNCHANGED people
  BY <1>0, <1>2
<1>3. ASSUME NEW j \in ready, Hiring(j)
      PROVE  UNCHANGED people
  <2>1. CASE \E m \in Vacancies(j.org) : Hire(j.org, people[m].role)
    <3>1. people'[n].left = FALSE
      <4>1. PICK m \in Vacancies(j.org) : Hire(j.org, people[m].role)
        BY <2>1
      <4>2. people'[n] = IF n = NextHire
                           THEN [org |-> j.org, role |-> people[m].role, left |-> FALSE]
                           ELSE people[n]
        BY <1>0, <4>1 DEF Hire
      <4>3. people[n].left \in BOOLEAN
        BY <1>0 DEF TypeOK, Person
      <4> QED
        BY <1>0, <4>2, <4>3
    <3> QED
      BY <3>1
  <2> QED
    BY <1>3, <2>1 DEF Hiring
<1>4. ASSUME NEW j \in ready,
             RentRun(j) \/ TaxQuarter(j) \/ SupplierOrder(j) \/ HouseholdsWeek(j)
             \/ LoansWeek(j) \/ Review(j)
      PROVE  UNCHANGED people
  BY <1>4 DEF RentRun, TaxQuarter, SupplierOrder, HouseholdsWeek, LoansWeek, Review
<1>5. CASE Advance \/ Install
  BY <1>2, <1>5 DEF Advance, Install, firm
<1> QED
  BY <1>1, <1>2, <1>3, <1>4, <1>5 DEF Next, Run

\* Nobody leaves for one late payday, and no firm fails that is not so many behind as
\* fail a firm, however often a payday was retried and whatever held it.
THEOREM HardshipReal == Spec => HardshipIsReal
<1>1. ASSUME TypeOK, PaydayInv, Next, NEW f \in Orgs
      PROVE  /\ (\E n \in Employed(f) : people'[n].left) => Unpaid(f) >= LeaveFrom
             /\ f \in failed' \ failed => Unpaid(f) >= FailedAfter
  <2>1. LeaveFrom \in Nat /\ FailedAfter \in Nat /\ LeaveFrom <= FailedAfter
    BY FirmsAssumption
  <2>2. ASSUME NEW j \in ready, Payroll(j), j.org = f
        PROVE  Behind(j) <= Unpaid(f) /\ Behind(j) \in Nat /\ Unpaid(f) \in Int
    BY <1>1, <2>2, BehindIsReal DEF Payroll
  <2>3. ASSUME NEW n \in Employed(f), people'[n].left
        PROVE  Unpaid(f) >= LeaveFrom
    <3>1. PICK j \in ready : /\ Payroll(j) /\ j.org = f
                             /\ Behind(j) >= LeaveFrom \/ Behind(j) >= FailedAfter
      BY <1>1, <2>3, HowPeopleLeave
    <3> QED
      BY <2>1, <2>2, <3>1
  <2>4. ASSUME f \in failed', f \notin failed
        PROVE  Unpaid(f) >= FailedAfter
    <3>1. PICK j \in ready : Payroll(j) /\ j.org = f /\ Behind(j) >= FailedAfter
      BY <1>1, <2>4, HowFirmsFail
    <3> QED
      BY <2>1, <2>2, <3>1
  <2> QED
    BY <2>3, <2>4
<1>2. TypeOK /\ PaydayInv /\ [Next]_vars
        => [\A f \in Orgs :
              /\ (\E n \in Employed(f) : people'[n].left) => Unpaid(f) >= LeaveFrom
              /\ f \in failed' \ failed => Unpaid(f) >= FailedAfter]_vars
  BY <1>1
<1> QED
  BY <1>2, SoundPaydays, PTL DEF Spec, HardshipIsReal

-----------------------------------------------------------------------------
(* The other chains. *)

LinksOf(f, kind) == {j \in Planned : j.kind = kind /\ j.org = f /\ ~j.adHoc}

\* One job of the chain is planned, in the queue or taken off it and not both.
OneLink(f, kind) ==
  \E j \in Planned : LinksOf(f, kind) = {j} /\ ~(j \in queue /\ j \in ready)

\* Only reviews are called at need; else the chain of a rent could be planned twice.
ReviewsAtNeed == \A j \in Planned : j.adHoc => j.kind = "founder.review"

ChainsInv ==
  /\ ReviewsAtNeed
  /\ \A f \in Orgs \ failed, kind \in Chains : OneLink(f, kind)

\* A step that leaves a chain alone, or moves what is due of it.
LEMMA ChainUntouched ==
  ASSUME NEW f, NEW kind, OneLink(f, kind),
         \A k : k.kind = kind /\ k.org = f /\ ~k.adHoc =>
                  (k \in queue' <=> k \in queue) /\ (k \in ready' <=> k \in ready)
  PROVE  OneLink(f, kind)'
<1>1. PICK j \in Planned : LinksOf(f, kind) = {j} /\ ~(j \in queue /\ j \in ready)
  BY DEF OneLink
<1>2. j.kind = kind /\ j.org = f /\ ~j.adHoc
  BY <1>1 DEF LinksOf
<1>3. LinksOf(f, kind)' = {j}
  BY <1>1 DEF LinksOf, Planned
<1>4. j \in Planned' /\ ~(j \in queue' /\ j \in ready')
  BY <1>1, <1>2 DEF Planned
<1> QED
  BY <1>3, <1>4 DEF OneLink

\* A link that runs puts the next in the queue.
LEMMA ChainGoesOn ==
  ASSUME NEW f, NEW kind, OneLink(f, kind),
         NEW j \in ready, j.kind = kind, j.org = f, ~j.adHoc, ready' = ready \ {j},
         NEW r, r.kind = kind, r.org = f, ~r.adHoc, queue' = queue \cup {r}
  PROVE  OneLink(f, kind)'
<1>1. LinksOf(f, kind) = {j} /\ j \notin queue
  BY DEF OneLink, LinksOf, Planned
<1>2. \A k \in queue \cup (ready \ {j}) : ~(k.kind = kind /\ k.org = f /\ ~k.adHoc)
  BY <1>1 DEF LinksOf, Planned
<1>3. LinksOf(f, kind)' = {r}
  BY <1>2 DEF LinksOf, Planned
<1>4. r \in Planned' /\ ~(r \in queue' /\ r \in ready')
  BY <1>2 DEF Planned
<1> QED
  BY <1>3, <1>4 DEF OneLink

\* What a payroll adds to the queue is a review at need, or of its own kind.
LEMMA PayrollLeavesChains ==
  ASSUME TypeOK, ReviewsAtNeed, NEW j \in ready, Payroll(j)
  PROVE  /\ ready' = ready \ {j} /\ j.kind = "payroll.run"
         /\ \A k \in queue' : \/ k \in queue \/ (k.kind = "founder.review" /\ k.adHoc)
                              \/ (k.kind = "payroll.run" /\ ~k.adHoc)
         /\ \A f \in Orgs \ failed' : \A k \in queue : k.org = f => k \in queue'
<1>1. j \in Job /\ j.kind = "payroll.run" /\ ready' = ready \ {j} /\ now \in Nat
  BY DEF TypeOK, Payroll, Taken
<1>2. ~j.adHoc
  BY <1>1 DEF ReviewsAtNeed, Planned
<1>3. \A k \in Warned(j) : k \in queue \/ (k.kind = "founder.review" /\ k.adHoc)
  BY DEF Warned, Prompted, Plain
<1>4. queue \subseteq Warned(j)
  BY DEF Warned
<1>5. /\ Retry(j).kind = "payroll.run" /\ ~Retry(j).adHoc
      /\ [j EXCEPT !.due = now + TICK, !.held = TRUE].kind = "payroll.run"
      /\ ~[j EXCEPT !.due = now + TICK, !.held = TRUE].adHoc
  BY <1>1, <1>2 DEF Retry, Job, Dated
<1>6. /\ Plain("payroll.run", j.org, j.for + WEEK, j.for + WEEK).kind = "payroll.run"
      /\ ~Plain("payroll.run", j.org, j.for + WEEK, j.for + WEEK).adHoc
  BY DEF Plain
<1>7. CASE queue' = queue
  BY <1>1, <1>7
<1>8. CASE Paid(j)
  BY <1>1, <1>3, <1>4, <1>6, <1>8 DEF Paid
<1>9. CASE HeldForHours(j)
  BY <1>1, <1>3, <1>4, <1>5, <1>9 DEF HeldForHours
<1>10. CASE HeldForCash(j)
  <2>1. CASE queue' = Warned(j) \cup {Retry(j)}
    BY <1>1, <1>3, <1>4, <1>5, <2>1
  <2>2. CASE FailedFirm(j.org, Warned(j))
    BY <1>1, <1>3, <1>4, <2>2 DEF FailedFirm
  <2> QED
    BY <1>10, <2>1, <2>2 DEF HeldForCash
<1> QED
  BY <1>7, <1>8, <1>9, <1>10 DEF Payroll

LEMMA ChainsStep ==
  ASSUME TypeOK, ChainsInv, Next
  PROVE  ChainsInv'
<1>0. /\ queue \subseteq Job /\ ready \subseteq Job
      /\ \A j \in Planned : j.adHoc => j.kind = "founder.review"
      /\ \A f \in Orgs \ failed, kind \in Chains : OneLink(f, kind)
  BY DEF TypeOK, ChainsInv, ReviewsAtNeed
<1>1. CASE Advance
  <2>1. ready = {} /\ ready' \subseteq queue /\ queue' = queue \ ready' /\ failed' = failed
    BY <1>1 DEF Advance, Takeable
  <2>2. Planned' = Planned
    BY <2>1 DEF Planned
  <2>3. ASSUME NEW f \in Orgs \ failed', NEW kind \in Chains PROVE OneLink(f, kind)'
    <3>1. OneLink(f, kind)
      BY <1>0, <2>1, <2>3
    <3> QED
      BY <2>1, <2>2, <3>1 DEF OneLink, LinksOf
  <2> QED
    BY <1>0, <2>2, <2>3 DEF ChainsInv, ReviewsAtNeed
<1>2. CASE Install
  <2>1. /\ ready = {} /\ ready' = {} /\ queue' = queue \cup Missing /\ failed' = failed
    BY <1>2 DEF Install, firm
  <2>2. \A j \in Missing : ~j.adHoc /\ ~\E k \in queue : k.kind = j.kind /\ k.org = j.org
    <3>1. \A j \in Recurring : ~j.adHoc
      BY DEF Recurring, Plain
    <3> QED
      BY <3>1 DEF Missing
  <2>3. ASSUME NEW f \in Orgs \ failed', NEW kind \in Chains PROVE OneLink(f, kind)'
    <3>1. OneLink(f, kind)
      BY <1>0, <2>1, <2>3
    <3>2. \E k \in queue : k.kind = kind /\ k.org = f
      BY <2>1, <3>1 DEF OneLink, LinksOf, Planned
    <3>3. \A k \in Missing : ~(k.kind = kind /\ k.org = f)
      BY <2>2, <3>2
    <3> QED
      BY <2>1, <3>1, <3>3, ChainUntouched
  <2>4. ReviewsAtNeed'
    BY <1>0, <2>1, <2>2 DEF ReviewsAtNeed, Planned
  <2> QED
    BY <2>3, <2>4 DEF ChainsInv
<1>3. ASSUME NEW j \in ready, Payroll(j)
      PROVE  ChainsInv'
  <2>1. /\ ready' = ready \ {j} /\ j.kind = "payroll.run"
        /\ \A k \in queue' : \/ k \in queue \/ (k.kind = "founder.review" /\ k.adHoc)
                             \/ (k.kind = "payroll.run" /\ ~k.adHoc)
        /\ \A f \in Orgs \ failed' : \A k \in queue : k.org = f => k \in queue'
    BY <1>3, PayrollLeavesChains DEF ChainsInv
  <2>2. failed \subseteq failed'
    BY <1>3 DEF Payroll, firm, Paid, HeldForHours, HeldForCash, FailedFirm
  <2>3. ASSUME NEW f \in Orgs \ failed', NEW kind \in Chains PROVE OneLink(f, kind)'
    <3>1. OneLink(f, kind) /\ kind # "payroll.run"
      BY <1>0, <2>2, <2>3 DEF Chains
    <3>2. \A k : k.kind = kind /\ k.org = f /\ ~k.adHoc =>
                   (k \in queue' <=> k \in queue) /\ (k \in ready' <=> k \in ready)
      BY <2>1, <2>3, <3>1
    <3> QED
      BY <3>1, <3>2, ChainUntouched
  <2>4. ReviewsAtNeed'
    BY <1>0, <2>1 DEF ReviewsAtNeed, Planned
  <2> QED
    BY <2>3, <2>4 DEF ChainsInv
<1>4. ASSUME NEW j \in ready, ready' = ready \ {j}, failed' = failed, queue' = queue,
             j.kind \notin Chains \/ j.adHoc \/ j.org \in failed
      PROVE  ChainsInv'
  <2>1. ASSUME NEW f \in Orgs \ failed', NEW kind \in Chains PROVE OneLink(f, kind)'
    <3>1. OneLink(f, kind)
      BY <1>0, <1>4, <2>1
    <3>2. \A k : k.kind = kind /\ k.org = f /\ ~k.adHoc =>
                   (k \in queue' <=> k \in queue) /\ (k \in ready' <=> k \in ready)
      BY <1>4, <2>1
    <3> QED
      BY <3>1, <3>2, ChainUntouched
  <2> QED
    BY <1>0, <1>4, <2>1 DEF ChainsInv, ReviewsAtNeed, Planned
<1>5. ASSUME NEW j \in ready, ready' = ready \ {j}, failed' = failed,
             NEW r, r.kind = j.kind, r.org = j.org, r.adHoc = FALSE, queue' = queue \cup {r},
             ~j.adHoc
      PROVE  ChainsInv'
  <2>1. ASSUME NEW f \in Orgs \ failed', NEW kind \in Chains PROVE OneLink(f, kind)'
    <3>1. OneLink(f, kind)
      BY <1>0, <1>5, <2>1
    <3>2. CASE j.kind = kind /\ j.org = f
      BY <1>5, <3>1, <3>2, ChainGoesOn
    <3>3. CASE ~(j.kind = kind /\ j.org = f)
      <4>1. \A k : k.kind = kind /\ k.org = f /\ ~k.adHoc =>
                     (k \in queue' <=> k \in queue) /\ (k \in ready' <=> k \in ready)
        BY <1>5, <3>3
      <4> QED
        BY <3>1, <4>1, ChainUntouched
    <3> QED
      BY <3>2, <3>3
  <2> QED
    BY <1>0, <1>5, <2>1 DEF ChainsInv, ReviewsAtNeed, Planned
<1>6. ASSUME NEW j \in ready, RentRun(j)
      PROVE  ChainsInv'
  <2>1. /\ j \in Job /\ j.kind = "rent.run" /\ ready' = ready \ {j} /\ failed' = failed
        /\ j.org \in Orgs /\ Rent[j.org] # 0 /\ j.adHoc = FALSE
    BY <1>0, <1>6, FirstOfEachChain, FirmsAssumption
       DEF RentRun, Taken, Job, Dated, TownKinds, Planned
  <2> DEFINE late == [j EXCEPT !.due = now + DAY, !.held = TRUE]
             next == Plain("rent.run", j.org, j.for + MONTH, j.for + MONTH)
  <2>2. late.kind = j.kind /\ late.org = j.org /\ late.adHoc = FALSE
    BY <2>1 DEF Job, Dated
  <2>3. next.kind = j.kind /\ next.org = j.org /\ next.adHoc = FALSE
    BY <2>1 DEF Plain
  <2>4. \/ queue' = queue /\ j.org \in failed
        \/ queue' = queue \cup {late}
        \/ queue' = queue \cup {next}
    BY <1>6, <2>1 DEF RentRun
  <2> HIDE DEF late, next
  <2> QED
    BY <1>4, <1>5, <2>1, <2>2, <2>3, <2>4
<1>7. ASSUME NEW j \in ready,
             TaxQuarter(j) \/ SupplierOrder(j) \/ HouseholdsWeek(j) \/ LoansWeek(j)
             \/ Review(j) \/ Hiring(j)
      PROVE  ChainsInv'
  <2>1. /\ j \in Job /\ ready' = ready \ {j} /\ failed' = failed
        /\ j.kind \in {"tax.quarter", "supplier.order", "households.week", "loans.week",
                       "founder.review", "hiring.review"}
        /\ j.kind = "founder.review" <=> Review(j)
    BY <1>0, <1>7
       DEF Taken, TaxQuarter, SupplierOrder, HouseholdsWeek, LoansWeek, Review, Hiring
  <2>2. \/ queue' = queue /\ j.adHoc
        \/ \E due : queue' = queue \cup {Again(j, due)} /\ ~j.adHoc
    BY <1>0, <1>7, <2>1
       DEF TaxQuarter, SupplierOrder, HouseholdsWeek, LoansWeek, Review, Hiring, Planned
  <2>3. ASSUME NEW due, queue' = queue \cup {Again(j, due)}, ~j.adHoc
        PROVE  ChainsInv'
    <3>1. /\ Again(j, due).kind = j.kind /\ Again(j, due).org = j.org
          /\ Again(j, due).adHoc = FALSE
      BY <2>1, <2>3 DEF Again, Job, Dated
    <3> QED
      BY <1>5, <2>1, <2>3, <3>1
  <2> QED
    BY <1>4, <2>1, <2>2, <2>3
<1> QED
  BY <1>1, <1>2, <1>3, <1>6, <1>7 DEF Next, Run

\* The chains of a firm in business neither break off nor fork, whatever prompts a review in
\* between, fails other firms or starts the engine again.
THEOREM ChainsHold == Spec => []OneOfEach
<1>1. ASSUME Init PROVE ChainsInv
  <2>1. queue = FirstJobs /\ ready = {} /\ Planned = FirstJobs
    BY <1>1 DEF Init, Planned
  <2>2. ASSUME NEW f \in Orgs \ failed, NEW kind \in Chains PROVE OneLink(f, kind)
    <3>1. PICK first \in FirstJobs : {j \in FirstJobs : j.kind = kind /\ j.org = f} = {first}
      BY <2>2, FirstOfEachChain
    <3>2. \A j \in FirstJobs : ~j.adHoc
      BY FirstOfEachChain
    <3>3. LinksOf(f, kind) = {first}
      BY <2>1, <3>1, <3>2 DEF LinksOf
    <3> QED
      BY <2>1, <3>1, <3>3 DEF OneLink
  <2> QED
    BY <2>1, <2>2, FirstOfEachChain DEF ChainsInv, ReviewsAtNeed
<1>2. TypeOK /\ ChainsInv /\ [Next]_vars => ChainsInv'
  <2>1. ASSUME ChainsInv, UNCHANGED vars PROVE ChainsInv'
    BY <2>1 DEF ChainsInv, ReviewsAtNeed, OneLink, LinksOf, Planned, vars
  <2> QED
    BY <2>1, ChainsStep
<1>3. ChainsInv => OneOfEach
  <2> SUFFICES ASSUME ChainsInv, NEW f \in Orgs \ failed, NEW kind \in Chains
               PROVE  Cardinality({j \in Planned : j.kind = kind /\ j.org = f /\ ~j.adHoc}) = 1
    BY DEF OneOfEach
  <2>1. PICK j : LinksOf(f, kind) = {j}
    BY DEF ChainsInv, OneLink
  <2>2. Cardinality({j}) = 1
    BY FS_Singleton
  <2> QED
    BY <2>1, <2>2 DEF LinksOf
<1> QED
  BY <1>1, <1>2, <1>3, TypeCorrect, PTL DEF Spec
-----------------------------------------------------------------------------
(* Desks. *)

\* The ids of a firm's first people are as long as those of later ones.
LongIds(f) == \A n \in Seats : Employer[n] = f => n >= 10

Holders(f, role) == {m \in Employed(f) : people[m].role = role}
HoldersBefore(f, role, n) == {m \in Holders(f, role) : m < n}

\* The town's hires are numbered in the order they come.
Numbered == \E h \in Nat : DOMAIN people = Seats \cup FirstHire .. (FirstHire + h - 1)

\* Whoever was ever employed came to a desk: fewer than there are desks are held by those
\* who came before.  This is what a vacancy that hiring sees is counted against: nobody
\* who came after the one who left works in that role.
CameToADesk(f) ==
  \A n \in Numbers, role \in Roles :
    n \in DOMAIN people /\ people[n].org = f /\ people[n].role = role =>
      n >= 10 /\ Cardinality(HoldersBefore(f, role, n)) < Cardinality(SeatsIn(f, role))

DesksInv ==
  /\ Numbered
  /\ \A f \in Orgs : LongIds(f) => CameToADesk(f) /\ NoMoreThanItHasDesks(f)

\* People and seats are finitely many.
LEMMA FinitelyMany ==
  ASSUME TypeOK, NEW f, NEW role
  PROVE  /\ IsFiniteSet(Holders(f, role)) /\ IsFiniteSet(SeatsIn(f, role))
         /\ DOMAIN people \subseteq Nat /\ Seats \subseteq Nat
<1>1. Numbers \subseteq 0 .. 99 /\ Seats \subseteq 0 .. 99
  BY FirmsAssumption DEF Numbers
<1>2. Holders(f, role) \in SUBSET (0 .. 99) /\ SeatsIn(f, role) \in SUBSET (0 .. 99)
  BY <1>1 DEF TypeOK, Employed, Holders, SeatsIn
<1>3. IsFiniteSet(0 .. 99)
  <2>1. 0 \in Int /\ 99 \in Int
    OBVIOUS
  <2> QED
    BY <2>1, FS_Interval
<1>4. 0 .. 99 \subseteq Nat
  OBVIOUS
<1>5. IsFiniteSet(Holders(f, role)) /\ IsFiniteSet(SeatsIn(f, role))
  BY <1>2, <1>3, FS_Subset
<1>6. DOMAIN people \subseteq Numbers
  BY DEF TypeOK
<1> QED
  BY <1>1, <1>4, <1>5, <1>6

\* The next to be hired has a number above everybody's.
LEMMA NextIsTheHighest ==
  ASSUME TypeOK, Numbered
  PROVE  /\ NextHire \in Nat /\ NextHire \notin DOMAIN people
         /\ \A n \in DOMAIN people : n < NextHire
         /\ \E h \in Nat : DOMAIN people \cup {NextHire} = Seats \cup FirstHire .. (FirstHire + h - 1)
<1>1. PICK h \in Nat : DOMAIN people = Seats \cup FirstHire .. (FirstHire + h - 1)
  BY DEF Numbered
<1>2. FirstHire \in Nat /\ (\A n \in Seats : n < FirstHire) /\ Seats \subseteq Nat
  BY FirmsAssumption, FinitelyMany
<1>3. DOMAIN people \ Seats = FirstHire .. (FirstHire + h - 1)
  BY <1>1, <1>2
<1>4. Cardinality(FirstHire .. (FirstHire + h - 1)) = h
  <2>1. FirstHire \in Int /\ FirstHire + h - 1 \in Int
    BY <1>1, <1>2
  <2>2. Cardinality(FirstHire .. (FirstHire + h - 1))
          = IF FirstHire > FirstHire + h - 1 THEN 0 ELSE (FirstHire + h - 1) - FirstHire + 1
    BY <2>1, FS_Interval
  <2> QED
    BY <1>1, <1>2, <2>2
<1>5. NextHire = FirstHire + h
  BY <1>3, <1>4 DEF NextHire
<1>6. FirstHire .. (FirstHire + (h + 1) - 1) = FirstHire .. (FirstHire + h - 1) \cup {FirstHire + h}
  BY <1>1, <1>2
<1>7. DOMAIN people \cup {NextHire} = Seats \cup FirstHire .. (FirstHire + (h + 1) - 1)
  BY <1>1, <1>5, <1>6
<1>8. h + 1 \in Nat
  BY <1>1
<1> QED
  <2>0. h \in Nat /\ FirstHire + h \in Nat
    BY <1>1, <1>2
  <2>1. ASSUME NEW n \in DOMAIN people PROVE n < FirstHire + h
    <3>1. CASE n \in Seats
      <4>1. n \in Nat /\ n < FirstHire
        BY <1>2, <3>1
      <4> QED
        BY <1>2, <2>0, <4>1
    <3>2. CASE n \in FirstHire .. (FirstHire + h - 1)
      BY <1>2, <2>0, <3>2
    <3> QED
      BY <1>1, <2>1, <3>1, <3>2
  <2>2. FirstHire + h \notin DOMAIN people
    BY <2>0, <2>1
  <2> QED
    BY <1>5, <1>7, <1>8, <2>0, <2>1, <2>2

\* Before the first step everybody sits at a desk of their own.
LEMMA DesksInit ==
  ASSUME TypeOK, Init
  PROVE  DesksInv
<1>1. /\ DOMAIN people = Seats
      /\ \A n \in Seats : /\ people[n].org = Employer[n]
                          /\ people[n].role = Role[n]
                          /\ ~people[n].left
  BY DEF Init
<1>2. Numbered
  <2>1. FirstHire .. (FirstHire + 0 - 1) = {}
    BY FirmsAssumption
  <2> QED
    BY <1>1, <2>1 DEF Numbered
<1>3. \A f, role : Holders(f, role) = SeatsIn(f, role)
  BY <1>1 DEF Holders, SeatsIn, Employed
<1>4. ASSUME NEW f \in Orgs, LongIds(f)
      PROVE  CameToADesk(f) /\ NoMoreThanItHasDesks(f)
  <2>1. ASSUME NEW n \in Seats, Employer[n] = f
        PROVE  n >= 10 /\ Cardinality(HoldersBefore(f, Role[n], n)) < Cardinality(SeatsIn(f, Role[n]))
    <3>1. n >= 10 /\ n \in SeatsIn(f, Role[n])
      BY <1>4, <2>1 DEF LongIds, SeatsIn
    <3>2. IsFiniteSet(SeatsIn(f, Role[n])) /\ n \in Nat
      BY FinitelyMany, <2>1
    <3>3. HoldersBefore(f, Role[n], n) \in SUBSET SeatsIn(f, Role[n]) /\ n \notin HoldersBefore(f, Role[n], n)
      BY <1>3, <3>2 DEF HoldersBefore
    <3>4. /\ Cardinality(HoldersBefore(f, Role[n], n)) <= Cardinality(SeatsIn(f, Role[n]))
          /\ Cardinality(SeatsIn(f, Role[n])) = Cardinality(HoldersBefore(f, Role[n], n))
                => SeatsIn(f, Role[n]) = HoldersBefore(f, Role[n], n)
          /\ IsFiniteSet(HoldersBefore(f, Role[n], n))
      BY <3>2, <3>3, FS_Subset
    <3>5. /\ Cardinality(HoldersBefore(f, Role[n], n)) \in Nat
          /\ Cardinality(SeatsIn(f, Role[n])) \in Nat
      BY <3>2, <3>4, FS_CardinalityType
    <3> QED
      BY <3>1, <3>3, <3>4, <3>5
  <2>2. CameToADesk(f)
    BY <1>1, <2>1 DEF CameToADesk, Roles
  <2>3. NoMoreThanItHasDesks(f)
    <3>1. ASSUME NEW role
          PROVE  Cardinality({n \in Employed(f) : people[n].role = role}) <= Cardinality(SeatsIn(f, role))
      <4>1. {n \in Employed(f) : people[n].role = role} = SeatsIn(f, role)
        BY <1>3 DEF Holders
      <4>2. Cardinality(SeatsIn(f, role)) \in Nat
        BY FinitelyMany, FS_CardinalityType
      <4> DEFINE c == Cardinality(SeatsIn(f, role))
      <4>3. Cardinality({n \in Employed(f) : people[n].role = role}) = c
        BY <4>1
      <4>4. c \in Nat
        BY <4>2
      <4> HIDE DEF c
      <4>5. Cardinality({n \in Employed(f) : people[n].role = role}) <= c
        BY <4>3, <4>4
      <4> QED
        BY <4>5 DEF c
    <3> QED
      BY <3>1 DEF NoMoreThanItHasDesks
  <2> QED
    BY <2>2, <2>3
<1> QED
  BY <1>2, <1>4 DEF DesksInv

\* Who leaves only makes room.
LEMMA LeavingMakesRoom ==
  ASSUME TypeOK, DesksInv, NEW leavers, people' = Gone(leavers)
  PROVE  DesksInv'
<1>1. /\ DOMAIN people' = DOMAIN people
      /\ \A n \in DOMAIN people : /\ people'[n].org = people[n].org
                                  /\ people'[n].role = people[n].role
                                  /\ people[n].left => people'[n].left
  <2>1. \A n \in DOMAIN people : people[n] \in Person
    BY DEF TypeOK
  <2>2. ASSUME NEW p \in Person
        PROVE  [p EXCEPT !.left = TRUE].role = p.role
    BY DEF Person
  <2>3. \A n \in DOMAIN people : Gone(leavers)[n].role = people[n].role
    BY <2>1, <2>2 DEF Gone
  <2> QED
    BY <2>3, GoneKeepsTypes
<1>2. Numbered'
  BY <1>1 DEF DesksInv, Numbered
<1>3. \A f, role : Holders(f, role)' \in SUBSET Holders(f, role)
  BY <1>1 DEF Holders, Employed
<1>4. ASSUME NEW f, NEW role, NEW S \in SUBSET Holders(f, role), NEW T \in SUBSET S
      PROVE  Cardinality(T) \in Nat /\ Cardinality(S) \in Nat /\ Cardinality(T) <= Cardinality(S)
  <2>1. IsFiniteSet(Holders(f, role))
    BY FinitelyMany
  <2>2. IsFiniteSet(S)
    BY <2>1, FS_Subset
  <2>3. IsFiniteSet(T) /\ Cardinality(T) <= Cardinality(S)
    BY <2>2, FS_Subset
  <2> QED
    BY <2>2, <2>3, FS_CardinalityType
<1>5. \A f, role : Cardinality(SeatsIn(f, role)) \in Nat
  BY FinitelyMany, FS_CardinalityType
<1>6. ASSUME NEW f \in Orgs, LongIds(f)
      PROVE  CameToADesk(f)' /\ NoMoreThanItHasDesks(f)'
  <2>1. CameToADesk(f) /\ NoMoreThanItHasDesks(f)
    BY <1>6 DEF DesksInv
  <2>2. ASSUME NEW n \in Numbers, NEW role \in Roles,
               n \in DOMAIN people', people'[n].org = f, people'[n].role = role
        PROVE  n >= 10 /\ Cardinality(HoldersBefore(f, role, n)') < Cardinality(SeatsIn(f, role))
    <3>1. n >= 10 /\ Cardinality(HoldersBefore(f, role, n)) < Cardinality(SeatsIn(f, role))
      BY <1>1, <2>1, <2>2 DEF CameToADesk
    <3> DEFINE S == HoldersBefore(f, role, n)
               T == HoldersBefore(f, role, n)'
    <3>2. S \in SUBSET Holders(f, role) /\ T \in SUBSET S
      BY <1>3 DEF HoldersBefore
    <3> HIDE DEF S, T
    <3>3. Cardinality(T) \in Nat /\ Cardinality(S) \in Nat /\ Cardinality(T) <= Cardinality(S)
      BY <1>4, <3>2
    <3>4. Cardinality(S) < Cardinality(SeatsIn(f, role))
      BY <3>1 DEF S
    <3>5. Cardinality(T) < Cardinality(SeatsIn(f, role))
      BY <1>5, <3>3, <3>4
    <3> QED
      BY <3>1, <3>5 DEF T
  <2>3. ASSUME NEW role \in Roles
        PROVE  Cardinality(Holders(f, role)') <= Cardinality(SeatsIn(f, role))
    <3>1. Cardinality(Holders(f, role)) <= Cardinality(SeatsIn(f, role))
      BY <2>1 DEF NoMoreThanItHasDesks, Holders
    <3> DEFINE S == Holders(f, role)
               T == Holders(f, role)'
    <3>2. S \in SUBSET Holders(f, role) /\ T \in SUBSET S
      BY <1>3
    <3> HIDE DEF S, T
    <3>3. Cardinality(T) \in Nat /\ Cardinality(S) \in Nat /\ Cardinality(T) <= Cardinality(S)
      BY <1>4, <3>2
    <3>4. Cardinality(S) <= Cardinality(SeatsIn(f, role))
      BY <3>1 DEF S
    <3>5. Cardinality(T) <= Cardinality(SeatsIn(f, role))
      BY <1>5, <3>3, <3>4
    <3> QED
      BY <3>5 DEF T
  <2> QED
    BY <2>2, <2>3 DEF CameToADesk, NoMoreThanItHasDesks, Holders
<1> QED
  BY <1>2, <1>6 DEF DesksInv

\* Whoever is hired comes after all others, to a desk whose last holder has left.
LEMMA HiringFillsADesk ==
  ASSUME TypeOK, DesksInv, NEW g \in Orgs, NEW v \in Vacancies(g), Hire(g, people[v].role)
  PROVE  DesksInv'
<1> DEFINE hired == people[v].role
           next == NextHire
<1>1. /\ v \in DOMAIN people /\ people[v].org = g /\ people[v].left
      /\ v \in Numbers /\ hired \in Roles
  BY DEF Vacancies, TypeOK, Person, Roles
<1>2. /\ next \in Nat /\ next \notin DOMAIN people /\ next \in Numbers
      /\ \A n \in DOMAIN people : n < next
      /\ \E h \in Nat : DOMAIN people \cup {next} = Seats \cup FirstHire .. (FirstHire + h - 1)
  BY NextIsTheHighest DEF DesksInv, Hire
<1>3. /\ DOMAIN people' = DOMAIN people \cup {next}
      /\ \A n \in DOMAIN people : people'[n] = people[n]
      /\ people'[next].org = g /\ people'[next].role = hired /\ ~people'[next].left
  BY <1>2 DEF Hire
<1>4. DOMAIN people \subseteq Nat
  BY FinitelyMany
<1>5. Numbered'
  BY <1>2, <1>3 DEF Numbered
<1>6. ASSUME NEW f, NEW role
      PROVE  Holders(f, role)' = IF f = g /\ role = hired THEN Holders(f, role) \cup {next}
                                                          ELSE Holders(f, role)
  BY <1>2, <1>3 DEF Holders, Employed
<1>7. ASSUME NEW f, NEW role
      PROVE  /\ Cardinality(Holders(f, role)) \in Nat
             /\ Cardinality(SeatsIn(f, role)) \in Nat
             /\ IsFiniteSet(Holders(f, role))
             /\ next \notin Holders(f, role)
  <2>1. IsFiniteSet(Holders(f, role)) /\ IsFiniteSet(SeatsIn(f, role))
    BY FinitelyMany
  <2>2. next \notin Holders(f, role)
    BY <1>2 DEF Holders, Employed
  <2> QED
    BY <2>1, <2>2, FS_CardinalityType
<1> HIDE DEF hired, next
<1>8. ASSUME NEW f \in Orgs, LongIds(f)
      PROVE  CameToADesk(f)' /\ NoMoreThanItHasDesks(f)'
  <2>1. CameToADesk(f) /\ NoMoreThanItHasDesks(f)
    BY <1>8 DEF DesksInv
  <2>2. ASSUME f = g
        PROVE  v >= 10 /\ Cardinality(Holders(f, hired)) < Cardinality(SeatsIn(f, hired))
    <3>1. v >= 10 /\ Cardinality(HoldersBefore(f, hired, v)) < Cardinality(SeatsIn(f, hired))
      BY <1>1, <2>1, <2>2 DEF CameToADesk, hired
    <3>2. ASSUME NEW m \in Holders(f, hired) PROVE m < v
      <4>1. m \in DOMAIN people /\ people[m].org = f /\ ~people[m].left /\ people[m].role = hired
        BY <3>2 DEF Holders, Employed
      <4>2. m \in Numbers /\ m \in Nat /\ v \in Nat /\ m # v
        BY <1>1, <1>4, <4>1 DEF TypeOK
      <4>3. m >= 10
        BY <1>1, <2>1, <4>1, <4>2 DEF CameToADesk
      <4>4. ~(TextKey(m) > TextKey(v))
        BY <2>2, <3>2 DEF Vacancies, Holders, hired
      <4> QED
        BY <3>1, <4>2, <4>3, <4>4 DEF TextKey
    <3>3. HoldersBefore(f, hired, v) = Holders(f, hired)
      BY <3>2 DEF HoldersBefore
    <3> QED
      BY <3>1, <3>3
  <2>3. ASSUME NEW n \in Numbers, NEW role \in Roles,
               n \in DOMAIN people', people'[n].org = f, people'[n].role = role
        PROVE  n >= 10 /\ Cardinality(HoldersBefore(f, role, n)') < Cardinality(SeatsIn(f, role))
    <3>1. CASE n = next
      <4>1. f = g /\ role = hired
        BY <1>3, <2>3, <3>1
      <4>2. HoldersBefore(f, role, n)' = Holders(f, role)
        <5>1. \A m \in Holders(f, role) : m < next
          BY <1>2 DEF Holders, Employed
        <5>2. ~(next < next)
          BY <1>2
        <5> QED
          BY <1>6, <3>1, <4>1, <5>1, <5>2 DEF HoldersBefore
      <4>3. n >= 10
        BY <1>1, <1>2, <1>4, <2>2, <3>1, <4>1
      <4> QED
        BY <2>2, <4>1, <4>2, <4>3
    <3>2. CASE n # next
      <4>1. n \in DOMAIN people /\ people[n].org = f /\ people[n].role = role
        BY <1>3, <2>3, <3>2
      <4>2. ~(next < n)
        BY <1>2, <1>4, <4>1
      <4>3. HoldersBefore(f, role, n)' = HoldersBefore(f, role, n)
        BY <1>6, <4>2 DEF HoldersBefore
      <4> QED
        BY <2>1, <4>1, <4>3 DEF CameToADesk
    <3> QED
      BY <3>1, <3>2
  <2>4. ASSUME NEW role \in Roles
        PROVE  Cardinality(Holders(f, role)') <= Cardinality(SeatsIn(f, role))
    <3>1. Cardinality(Holders(f, role)) <= Cardinality(SeatsIn(f, role))
      BY <2>1 DEF NoMoreThanItHasDesks, Holders
    <3>2. CASE f = g /\ role = hired
      <4>1. Cardinality(Holders(f, role) \cup {next}) = Cardinality(Holders(f, role)) + 1
        BY <1>7, FS_AddElement
      <4>2. Cardinality(Holders(f, role)) + 1 <= Cardinality(SeatsIn(f, role))
        BY <1>7, <2>2, <3>2
      <4> QED
        BY <1>6, <3>2, <4>1, <4>2
    <3>3. CASE ~(f = g /\ role = hired)
      BY <1>6, <3>1, <3>3
    <3> QED
      BY <3>2, <3>3
  <2> QED
    BY <2>3, <2>4 DEF CameToADesk, NoMoreThanItHasDesks, Holders
<1> QED
  BY <1>5, <1>8 DEF DesksInv

\* A desk is filled once: however many leave, and however hiring reads who is missing, no firm
\* with ids of one length employs more people in a role than it has desks for it.
THEOREM FilledOnce == Spec => []DesksAreFilledOnce
<1>1. TypeOK /\ Init => DesksInv
  BY DesksInit
<1>2. TypeOK /\ DesksInv /\ [Next]_vars => DesksInv'
  <2> SUFFICES ASSUME TypeOK, DesksInv, [Next]_vars PROVE DesksInv'
    OBVIOUS
  <2>1. CASE UNCHANGED people
    BY <2>1 DEF DesksInv, Numbered, CameToADesk, NoMoreThanItHasDesks, HoldersBefore, Holders, Employed
  <2>2. CASE \E leavers : people' = Gone(leavers)
    BY <2>2, LeavingMakesRoom
  <2>3. CASE \E g \in Orgs : \E v \in Vacancies(g) : Hire(g, people[v].role)
    BY <2>3, HiringFillsADesk
  <2>4. CASE UNCHANGED vars
    BY <2>1, <2>4 DEF vars
  <2>5. CASE Next
    BY <2>1, <2>2, <2>3, <2>5, WhoComesAndGoes
  <2> QED
    BY <2>4, <2>5
<1>3. DesksInv => DesksAreFilledOnce
  BY DEF DesksInv, DesksAreFilledOnce, LongIds
<1> QED
  BY <1>1, <1>2, <1>3, TypeCorrect, PTL DEF Spec
=============================================================================
