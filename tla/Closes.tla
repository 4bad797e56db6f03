-------------------------------- MODULE Closes --------------------------------
(***************************************************************************)
(* Closing the books (flow 9, WORLD-0011). A working day has a tick before *)
(* the offices open and one after. Times are kept as what is left of them, *)
(* so months go by without end. What the accountant decides is open, and   *)
(* so is what the decision is told: which bills are late, whose month-end  *)
(* invoices are stuck.                                                     *)
(***************************************************************************)
EXTENDS Integers, FiniteSets

CONSTANTS
  Clients,        \* whose books the accountant closes
  Accountant,
  FirstPlan,      \* ticks from the first morning to the first plan of the closes
  Month,          \* the ticks of a month
  CloseAttempts,  \* CLOSE_ATTEMPTS
  CloseCapacity,  \* CLOSE_CAPACITY
  ReworkFee,      \* REWORK_FEE_CENTS
  AuditFee,       \* AUDIT_FEE_CENTS
  TrueUp,         \* TRUE_UP_CENTS
  MayBeAway,      \* may all who could do a job be off sick at once?
  MaxByHand       \* bound: things done by hand and not looked into

DayTicks == 2

ASSUME ClosesAssumption ==
  /\ Accountant \notin Clients
  /\ CloseAttempts \in Nat \ {0} /\ CloseCapacity \in Nat
  /\ Month \in {n * DayTicks : n \in (CloseAttempts + 2) .. 100}
  /\ FirstPlan \in {n * DayTicks : n \in 1 .. 100}
  /\ ReworkFee \in Nat \ {0} /\ AuditFee \in Nat \ {0} /\ TrueUp \in Nat
  /\ MayBeAway \in BOOLEAN
  /\ MaxByHand \in Nat

VARIABLES
  office,     \* are the offices open at this tick?
  planned,    \* the rows of scheduled
  running,    \* rows taken off it at the start of this tick
  byHand,     \* invoices and records made by hand that nobody has reconciled
  audited,    \* the policy audit_pending
  trueUp,     \* the policy true_up_cents
  charged,    \* what the last fee carried beyond the fee
  closes,     \* closes completed, modulo two
  failed      \* firms that have failed

closesVars == <<office, planned, running, byHand, audited, trueUp, charged, closes, failed>>

books == <<byHand, audited, trueUp, charged, closes>>

(* A row, with the payload of a close. *)
Entry(kind, client, at, due, attempt, reconciled, rework) ==
  [kind |-> kind, client |-> client, at |-> at, due |-> due, attempt |-> attempt,
   reconciled |-> reconciled, rework |-> rework]

PlanAt(at) == Entry("close.plan", Accountant, at, 0, 0, FALSE, 0)
FreshClose(client, at) == Entry("close.run", client, at, at, 1, FALSE, 0)

ClosesInit ==
  /\ office = FALSE
  /\ planned = {PlanAt(FirstPlan)} \cup {FreshClose(c, FirstPlan + 1) : c \in Clients}
  /\ running = {}
  /\ failed = {}
  /\ byHand = [c \in Clients |-> 0]
  /\ audited = [c \in Clients |-> FALSE]
  /\ trueUp = [c \in Clients |-> 0]
  /\ charged = [c \in Clients |-> 0]
  /\ closes = [c \in Clients |-> 0]

-----------------------------------------------------------------------------
(* The queue. *)

RunsFirst(j) ==
  /\ j \in running
  /\ \A l \in running : j.at < l.at \/ (j.at = l.at /\ (l.kind = "close.plan" => j = l))

Run(j, kind) == RunsFirst(j) /\ j.kind = kind /\ running' = running \ {j}

\* the next morning's opening: what next_office_open makes of tomorrow
Tomorrow == IF office THEN DayTicks ELSE DayTicks + 1

-----------------------------------------------------------------------------
(* A quarter of an hour before the closes, one may be put off. Those that  *)
(* are already in their attempts are not looked at.                        *)

DueNext ==
  {k \in planned : k.kind = "close.run" /\ k.at = 1 /\ k.attempt = 1}

PutOff(k) == (planned \ {k}) \cup {[k EXCEPT !.at = Tomorrow]}

PlanCloses(j) ==
  LET again == PlanAt(Month) IN
  /\ Run(j, "close.plan")
  /\ \/ planned' = planned \cup {again}
     \/ /\ Accountant \notin failed /\ Cardinality(DueNext) > CloseCapacity
        /\ \E k \in DueNext : planned' = PutOff(k) \cup {again}
  /\ UNCHANGED <<office, failed, books>>

-----------------------------------------------------------------------------
(* A close. *)

\* mutant: a close that is put off forgets what it has found to charge
LaterFromScratch(j, reconciled, rework) ==
  [j EXCEPT !.at = Tomorrow, !.attempt = @ + 1]

\* mutant: the day of rework is not an attempt
LaterInItsTime(j, reconciled, rework) ==
  [j EXCEPT !.at = Tomorrow, !.attempt = IF rework > @ THEN @ ELSE @ + 1,
            !.reconciled = reconciled, !.rework = rework]

Later(j, reconciled, rework) ==
  [j EXCEPT !.at = Tomorrow, !.attempt = @ + 1, !.reconciled = reconciled, !.rework = rework]

(* The firm or the accountant has failed, or nobody is there to do it: the *)
(* job is gone, and it has put no other in the queue.                      *)
Forgotten(j) ==
  /\ j.client \in failed \/ Accountant \in failed \/ MayBeAway
  /\ UNCHANGED <<planned, books>>

PutOffAgain(j) ==
  /\ j.attempt < CloseAttempts
  /\ planned' = planned \cup {Later(j, j.reconciled, j.rework)}
  /\ UNCHANGED books

Complete(j, estimated) ==
  LET c == j.client IN
  /\ charged' = [charged EXCEPT ![c] = j.rework + trueUp[c]]
  /\ trueUp' = [trueUp EXCEPT ![c] = IF estimated THEN TrueUp ELSE 0]
  /\ closes' = [closes EXCEPT ![c] = 1 - @]
  /\ planned' = planned \cup {FreshClose(c, j.due + Month)}

(* _reconcile takes everything done by hand, whether or not it fails. *)
Reconcile(j, fee) ==
  LET c == j.client IN
  /\ \E items \in 0 .. byHand[c] :
       fee = items * ReworkFee + IF audited[c] THEN AuditFee ELSE 0
  /\ byHand' = [byHand EXCEPT ![c] = 0]
  /\ audited' = [audited EXCEPT ![c] = FALSE]

Fees == {n * ReworkFee + a : n \in 0 .. MaxByHand, a \in {0, AuditFee}}

(* The books can be closed, or are on an estimate. *)
SignOff(j, estimated) ==
  IF j.attempt < CloseAttempts /\ ~j.reconciled
    THEN \E fee \in Fees :
         /\ Reconcile(j, fee)
         /\ IF fee > 0
              THEN /\ planned' = planned \cup {Later(j, TRUE, j.rework + fee)}
                   /\ UNCHANGED <<trueUp, charged, closes>>
              ELSE Complete(j, estimated)
    ELSE Complete(j, estimated) /\ UNCHANGED <<byHand, audited>>

(* At the last attempt they are closed, ready or not. *)
CloseBooks(j) ==
  /\ Run(j, "close.run")
  /\ \/ Forgotten(j)
     \/ /\ j.client \notin failed /\ Accountant \notin failed
        /\ \/ PutOffAgain(j)
           \/ \E estimated \in BOOLEAN : SignOff(j, estimated)
           \/ /\ j.attempt = CloseAttempts
              /\ Complete(j, FALSE) /\ UNCHANGED <<byHand, audited>>
  /\ UNCHANGED <<office, failed>>

-----------------------------------------------------------------------------
(* What happens to the firms meanwhile. *)

(* An invoice sent by hand while a module is down, or a record kept on     *)
(* paper.                                                                  *)
WorkByHand(c) ==
  /\ byHand[c] < MaxByHand
  /\ byHand' = [byHand EXCEPT ![c] = @ + 1]
  /\ UNCHANGED <<office, planned, running, failed, audited, trueUp, charged, closes>>

NoticeAudit(c) ==
  /\ c \notin failed /\ Accountant \notin failed
  /\ audited' = [audited EXCEPT ![c] = TRUE]
  /\ UNCHANGED <<office, planned, running, failed, byHand, trueUp, charged, closes>>

FirmFails(f) ==
  /\ f \notin failed
  /\ failed' = failed \cup {f}
  /\ planned' = {j \in planned : ~(j.client = f /\ j.kind = "close.run")}
  /\ UNCHANGED <<office, running, books>>

NextOpening ==
  LET moved == {[j EXCEPT !.at = @ - 1, !.due = IF j.kind = "close.run" THEN @ - 1 ELSE @] :
                  j \in planned}
      taken == {j \in moved : j.at <= 0 /\ (office' \/ j.kind = "close.plan")}
  IN /\ running = {}
     /\ office' = ~office
     /\ running' = taken
     /\ planned' = moved \ taken
     /\ UNCHANGED <<failed, books>>

Work ==
  \/ \E j \in running : PlanCloses(j) \/ CloseBooks(j)
  \/ NextOpening

ClosesNext ==
  \/ Work
  \/ \E c \in Clients : WorkByHand(c) \/ NoticeAudit(c)
  \/ \E f \in Clients \cup {Accountant} : FirmFails(f)

(* The daemon keeps ticking, and a tick is finite. *)
ClosesSpec == ClosesInit /\ [][ClosesNext]_closesVars /\ WF_closesVars(Work)

-----------------------------------------------------------------------------
CloseJobs(c) == {j \in planned \cup running : j.kind = "close.run" /\ j.client = c}

(* However often it was put off, moved or worked on again, the close of a  *)
(* month is one row, and it comes up within CLOSE_ATTEMPTS working days of *)
(* the day it was due, the day it may be moved included. A late close does *)
(* not push those after it: it is always due just after a plan.            *)
ClosedInTime ==
  \A c \in Clients, p \in planned \cup running :
    /\ Cardinality(CloseJobs(c)) <= 1
    /\ \A j \in CloseJobs(c) :
         /\ j.at <= j.due + CloseAttempts * DayTicks
         /\ p.kind = "close.plan" => (j.due - p.at) % Month = 1

-----------------------------------------------------------------------------
(* What the accountant promised. *)

Rework(c) == IF CloseJobs(c) = {} THEN 0 ELSE (CHOOSE j \in CloseJobs(c) : TRUE).rework

NeverAgain == {c \in Clients : CloseJobs(c) = {}}

Promise == INSTANCE Months WITH
  owed <- [c \in Clients |-> IF c \in NeverAgain THEN 0 ELSE Rework(c) + trueUp[c]],
  ended <- NeverAgain

(* Closing the books keeps the promise of Months: every month again, what  *)
(* was done by hand looked into once, and what it cost on one bill.        *)
KeepsThePromiseOfMonths == Promise!Spec
=============================================================================
