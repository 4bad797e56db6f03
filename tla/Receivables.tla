------------------------------ MODULE Receivables ------------------------------
(***************************************************************************)
(* What firms are owed: bills issued, thought about, paid, queried, argued *)
(* down, credited after an outage, promised and written off, and the       *)
(* entries each of these makes in the issuer's receivable account.  The    *)
(* code is spread over jeve.world.engine (flows 4 and 5), flows.credits,   *)
(* customers (disputes), economy.fail, episodes (promises) and             *)
(* memory.store (commitments).                                             *)
(*                                                                         *)
(* One action is one bill's turn in its handler: a handler that goes over  *)
(* several bills in one tick does so one after the other, and reads of one *)
(* only what no other turn of the same handler writes, the payer's cash    *)
(* excepted.  Time is in days; a bill's age stops at the day from which    *)
(* its write-off is due, so no clock needs a bound.  What a person decides *)
(* is a choice; that somebody was asked already today, or was chased, only *)
(* bears on that choice and is left out.                                   *)
(***************************************************************************)
EXTENDS Integers

CONSTANTS
  Firms, Clients, \* who bills, and who else is billed
  Vendor,         \* the software firm
  Bills, From, To, Face,
  Subscription,   \* the bills that subscription.run issues; the others are services
  Monthly,        \* what a firm's subscription costs in a month
  Cash,           \* what each firm starts with
  Terms,          \* days from issue to due date
  AskFrom,        \* ASK_FROM_DAYS_BEFORE_DUE
  Window,         \* DISPUTE_WINDOW
  WriteOffAfter,  \* WRITE_OFF_AFTER
  Promises,       \* ids of commitments
  Horizon         \* PROMISE_HORIZON

ASSUME ReceivablesAssumption ==
  /\ Vendor \in Firms
  /\ From \in [Bills -> Firms]
  /\ To \in [Bills -> Firms \cup Clients]
  /\ Bills # {}
  /\ Face \in [Bills -> Nat \ {0}]
  /\ \A b \in Bills : From[b] # To[b]
  /\ Subscription \subseteq Bills
  /\ \A b \in Subscription : From[b] = Vendor
  /\ Monthly \in Nat
  /\ Cash \in [Firms -> Nat]
  /\ Firms \cap Clients = {}
  /\ {Terms, AskFrom, Window, WriteOffAfter, Horizon} \subseteq Nat
  /\ 0 < Horizon

VARIABLES
  age,        \* days since a bill was issued, Unissued before
  owed,       \* invoices.amount_cents
  paid,       \* invoices.paid_sim is set
  off,        \* invoices.written_off_sim is set
  query,      \* dispute_asked, disputed_sim and dispute_resolution
  wait,       \* days until the bill's dispute.resolve is due, NoJob without one
  standing,   \* the sum of what was posted to the issuer's receivable for a bill
  cash,       \* the balance of each firm's cash account
  failed,     \* the firms with a failed_sim
  subscribed, \* the firms with an active subscription
  promise     \* the commitments and their commitment.due jobs

vars == <<age, owed, paid, off, query, wait, standing, cash, failed, subscribed,
          promise>>

Unissued == -1
NoJob == -1
Oldest == Terms + WriteOffAfter
Queries == {"not asked", "asked", "disputed", "resolved"}
Scores == {"none", "open", "kept", "broken"}
Promise == [score : Scores, on : Bills, left : 0 .. Horizon, queued : BOOLEAN]

TypeOK ==
  /\ age \in [Bills -> Unissued .. Oldest]
  /\ owed \in [Bills -> Nat]
  /\ paid \in [Bills -> BOOLEAN]
  /\ off \in [Bills -> BOOLEAN]
  /\ query \in [Bills -> Queries]
  /\ wait \in [Bills -> {NoJob, 0, 1}]
  /\ standing \in [Bills -> Int]
  /\ cash \in [Firms -> Int]
  /\ failed \subseteq Firms
  /\ subscribed \subseteq Firms
  /\ promise \in [Promises -> Promise]

(* paid_sim IS NULL AND written_off_sim IS NULL *)
Open(b) == age[b] # Unissued /\ ~paid[b] /\ ~off[b]

Owing(b) == IF Open(b) THEN owed[b] ELSE 0

Outstanding(b) == {p \in Promises : promise[p].score = "open" /\ promise[p].on = b}

(* close_commitments_for: every open promise about a bill is scored. *)
Scored(b, score) ==
  [p \in Promises |->
     IF p \in Outstanding(b) THEN [promise[p] EXCEPT !.score = score] ELSE promise[p]]

Init ==
  /\ age = [b \in Bills |-> Unissued]
  /\ owed = Face
  /\ paid = [b \in Bills |-> FALSE]
  /\ off = [b \in Bills |-> FALSE]
  /\ query = [b \in Bills |-> "not asked"]
  /\ wait = [b \in Bills |-> NoJob]
  /\ standing = [b \in Bills |-> 0]
  /\ cash = Cash
  /\ failed = {}
  /\ subscribed = Firms \ {Vendor}
  /\ promise = [p \in Promises |-> [score |-> "none", on |-> CHOOSE b \in Bills : TRUE,
                                   left |-> 0, queued |-> FALSE]]

-----------------------------------------------------------------------------
(* Bills. *)

(* A firm that has failed bills nobody; a firm's subscription is billed    *)
(* while it has one.                                                       *)
Billable(b) ==
  /\ age[b] = Unissued
  /\ From[b] \notin failed
  /\ b \in Subscription /\ To[b] \in Firms => To[b] \in subscribed

Issue(b) ==
  /\ Billable(b)
  /\ age' = [age EXCEPT ![b] = 0]
  /\ standing' = [standing EXCEPT ![b] = @ + owed[b]]
  /\ UNCHANGED <<owed, paid, off, query, wait, cash, failed, subscribed, promise>>

(* A payer is asked from AskFrom days before the date. The gate answers    *)
(* for a bill that is argued about, and the referee for one the account    *)
(* does not cover; a firm that has failed has nobody left to ask.          *)
Payable(b) ==
  /\ Open(b)
  /\ age[b] + AskFrom >= Terms
  /\ query[b] # "disputed"
  /\ To[b] \in Firms => To[b] \notin failed /\ cash[To[b]] >= owed[b]

(* The legs of a payment: cash to the payee, and from the payer if it is a *)
(* firm (a client's account is outside the town).                          *)
Paid(b) ==
  [f \in Firms |-> cash[f] + (IF f = From[b] THEN owed[b] ELSE 0)
                           - (IF f = To[b] THEN owed[b] ELSE 0)]

\* mutant: a payment does not close the promises about its bill
PayQuietly(b) ==
  /\ Payable(b)
  /\ cash' = Paid(b)
  /\ standing' = [standing EXCEPT ![b] = @ - owed[b]]
  /\ paid' = [paid EXCEPT ![b] = TRUE]
  /\ UNCHANGED <<age, owed, off, query, wait, failed, subscribed, promise>>

Pay(b) ==
  /\ Payable(b)
  /\ cash' = Paid(b)
  /\ standing' = [standing EXCEPT ![b] = @ - owed[b]]
  /\ paid' = [paid EXCEPT ![b] = TRUE]
  /\ promise' = Scored(b, "kept")
  /\ UNCHANGED <<age, owed, off, query, wait, failed, subscribed>>

\* mutant: a bill that was ever disputed is left out, answered or not
LateAndNeverDisputed(b) ==
  /\ Open(b)
  /\ age[b] = Oldest
  /\ query[b] \notin {"disputed", "resolved"}

(* _write_off: the bill leaves the books, and its promises stay as they are. *)
LateEnough(b) ==
  /\ Open(b)
  /\ age[b] = Oldest
  /\ query[b] # "disputed"

WriteOff(b) ==
  /\ LateEnough(b)
  /\ standing' = [standing EXCEPT ![b] = @ - owed[b]]
  /\ off' = [off EXCEPT ![b] = TRUE]
  /\ UNCHANGED <<age, owed, paid, query, wait, cash, failed, subscribed, promise>>

-----------------------------------------------------------------------------
(* Disputes. *)

\* mutant: nobody is asked to answer the dispute
DisputedUnheard(b) ==
  /\ query' = [query EXCEPT ![b] = "disputed"]
  /\ UNCHANGED wait

Disputed(b) ==
  /\ query' = [query EXCEPT ![b] = "disputed"]
  /\ wait' = [wait EXCEPT ![b] = 1]

(* A payer reads a new bill once, and queries it or not. *)
Read(b) ==
  /\ Open(b) /\ b \notin Subscription
  /\ query[b] = "not asked"
  /\ age[b] <= Window
  /\ To[b] \in Firms => To[b] \notin failed
  /\ \/ Disputed(b)
     \/ query' = [query EXCEPT ![b] = "asked"] /\ UNCHANGED wait
  /\ UNCHANGED <<age, owed, paid, off, standing, cash, failed, subscribed, promise>>

(* shocks._client_dispute: out of the blue, and at any age. *)
Shock(b) ==
  /\ Open(b) /\ b \notin Subscription
  /\ To[b] \in Clients
  /\ query[b] \in {"not asked", "asked"}
  /\ Disputed(b)
  /\ UNCHANGED <<age, owed, paid, off, standing, cash, failed, subscribed, promise>>

\* mutant: the bill is not looked at again before its dispute is answered
AnsweredAnyway(b) == From[b] \notin failed

(* The issuer's head answers. The job of a bill that has ended, and of a   *)
(* firm with nobody at its head, goes without an answer.                   *)
Answered(b) == Open(b) /\ From[b] \notin failed

Cut(b) == (owed[b] * 15) \div 100

StandFirm(b) == UNCHANGED <<owed, off, standing>>

Discount(b) ==
  /\ owed' = [owed EXCEPT ![b] = @ - Cut(b)]
  /\ standing' = [standing EXCEPT ![b] = @ - Cut(b)]
  /\ UNCHANGED off

GiveUp(b) ==
  /\ off' = [off EXCEPT ![b] = TRUE]
  /\ standing' = [standing EXCEPT ![b] = @ - owed[b]]
  /\ UNCHANGED owed

Resolve(b) ==
  /\ wait[b] = 0
  /\ wait' = [wait EXCEPT ![b] = NoJob]
  /\ \/ /\ Answered(b)
        /\ query' = [query EXCEPT ![b] = "resolved"]
        /\ StandFirm(b) \/ Discount(b) \/ GiveUp(b)
     \/ /\ ~Answered(b)
        /\ UNCHANGED <<query, owed, off, standing>>
  /\ UNCHANGED <<age, paid, cash, failed, subscribed, promise>>

-----------------------------------------------------------------------------
(* Credits. An outage has ended, and the account manager credits a firm    *)
(* that subscribes: its oldest subscription bill with no paid_sim.         *)

Unpaid(f) == {b \in Subscription : To[b] = f /\ age[b] # Unissued /\ ~paid[b]}

Creditable(f) == {b \in Unpaid(f) : \A c \in Unpaid(f) : age[c] <= age[b]}

Shares == {Monthly \div 4, Monthly}

Least(a, b) == IF a <= b THEN a ELSE b

Credit(f, b, share) ==
  LET amount == Least(share, owed[b]) IN
  /\ f \in subscribed /\ Vendor \notin failed
  /\ b \in Creditable(f)
  /\ 0 < amount
  /\ standing' = [standing EXCEPT ![b] = @ - amount]
  /\ IF amount = owed[b]
       THEN paid' = [paid EXCEPT ![b] = TRUE] /\ UNCHANGED owed
       ELSE owed' = [owed EXCEPT ![b] = @ - amount] /\ UNCHANGED paid
  /\ UNCHANGED <<age, off, query, wait, cash, failed, subscribed, promise>>

-----------------------------------------------------------------------------
(* Firms. *)

Cancel(f) ==
  /\ f \in subscribed /\ Vendor \notin failed
  /\ subscribed' = subscribed \ {f}
  /\ UNCHANGED <<age, owed, paid, off, query, wait, standing, cash, failed, promise>>

(* economy.fail, whenever payroll has been short for long enough: what the *)
(* firm owes is written off at once, disputed or not; what it is owed      *)
(* stands.                                                                 *)
Dead(f) == {b \in Bills : Open(b) /\ To[b] = f}

Fail(f) ==
  /\ f \notin failed
  /\ failed' = failed \cup {f}
  /\ subscribed' = IF f = Vendor THEN {} ELSE subscribed \ {f}
  /\ off' = [b \in Bills |-> off[b] \/ b \in Dead(f)]
  /\ standing' = [b \in Bills |-> IF b \in Dead(f) THEN standing[b] - owed[b]
                                                   ELSE standing[b]]
  /\ UNCHANGED <<age, owed, paid, query, wait, cash, promise>>

-----------------------------------------------------------------------------
(* Promises, made in a conversation between two firms about a bill that is *)
(* nearly due, by the one who pays it.                                     *)

Give(p, b) ==
  /\ promise[p].score = "none"
  /\ Open(b) /\ age[b] + AskFrom >= Terms
  /\ To[b] \in Firms \ failed /\ From[b] \notin failed
  /\ promise' = [promise EXCEPT ![p] =
                   [score |-> "open", on |-> b, left |-> Horizon, queued |-> TRUE]]
  /\ UNCHANGED <<age, owed, paid, off, query, wait, standing, cash, failed, subscribed>>

Ripe(p) == promise[p].queued /\ promise[p].left = 0

(* commitment_due: if the bill has not been paid and a promise about it is *)
(* outstanding, all of them are broken.                                    *)
FallDue(p) ==
  LET b == promise[p].on
      scored == IF paid[b] THEN promise ELSE Scored(b, "broken")
  IN /\ Ripe(p)
     /\ promise' = [scored EXCEPT ![p].queued = FALSE]
     /\ UNCHANGED <<age, owed, paid, off, query, wait, standing, cash, failed,
                    subscribed>>

-----------------------------------------------------------------------------
(* A day goes by when what is due in it has been done. *)

DayDone ==
  /\ \A b \in Bills : wait[b] # 0 /\ ~LateEnough(b)
  /\ \A p \in Promises : ~Ripe(p)

NextDay ==
  /\ DayDone
  /\ age' = [b \in Bills |-> IF age[b] \in {Unissued, Oldest} THEN age[b] ELSE age[b] + 1]
  /\ wait' = [b \in Bills |-> IF wait[b] = 1 THEN 0 ELSE wait[b]]
  /\ promise' = [p \in Promises |->
                   IF promise[p].left = 0 THEN promise[p]
                   ELSE [promise[p] EXCEPT !.left = @ - 1]]
  /\ UNCHANGED <<owed, paid, off, query, standing, cash, failed, subscribed>>

Next ==
  \/ \E b \in Bills : Issue(b) \/ Pay(b) \/ WriteOff(b) \/ Read(b) \/ Shock(b) \/ Resolve(b)
  \/ \E f \in Firms, b \in Subscription, share \in Shares : Credit(f, b, share)
  \/ \E f \in Firms : Cancel(f) \/ Fail(f)
  \/ \E p \in Promises : FallDue(p) \/ \E b \in Bills : Give(p, b)
  \/ NextDay

Spec == Init /\ [][Next]_vars

(* The daemon keeps ticking, a tick runs whatever is due, and the rule that *)
(* writes a bill off asks nobody.                                          *)
FairSpec ==
  /\ Spec
  /\ WF_vars(NextDay)
  /\ \A b \in Bills : WF_vars(WriteOff(b)) /\ WF_vars(Resolve(b))
  /\ \A p \in Promises : WF_vars(FallDue(p))

-----------------------------------------------------------------------------
(* A subscription bill that was written off can still be credited. *)
Astray(b) == b \in Subscription /\ off[b]

(* The receivable account of an issuer is what its open bills come to:     *)
(* bill by bill, what the handlers posted over time adds up to the amount  *)
(* on the row while it is open and to nothing when it has ended, whichever *)
(* of payment, discount, credit, failure or write-off met it in whichever  *)
(* order. Bills gone astray are the subject of NothingIsCollectedTwice.    *)
BooksAgree == \A b \in Bills : Astray(b) \/ standing[b] = Owing(b)

(* No bill takes more off the receivable account than it put there. *)
NothingIsCollectedTwice == \A b \in Bills : standing[b] >= 0

(* The referee: whatever was decided, and in whichever order the bills of  *)
(* a firm came up, its payments never take it below nothing.               *)
CashIsNeverConjured == \A f \in Firms : cash[f] >= 0

(* Every argument gets its answer: a bill under dispute has its            *)
(* dispute.resolve ahead of it, or its issuer has failed, or it has ended. *)
DisputesAreHeard ==
  \A b \in Bills : query[b] = "disputed" =>
    wait[b] # NoJob \/ From[b] \in failed \/ ~Open(b)

(* A promise whose day has been is scored, and one on a bill whose money   *)
(* has come is scored kept; services bills only, which no credit settles.  *)
PromisesAreScored ==
  \A p \in Promises :
    promise[p].score = "open" /\ promise[p].on \notin Subscription =>
      promise[p].queued /\ ~paid[promise[p].on]

(* A bill that was issued and is not stuck in the dispute of a firm that   *)
(* has failed ends: paid, credited or written off.                         *)
Ended(b) == paid[b] \/ off[b]

BillsEnd ==
  \A b \in Bills :
    age[b] # Unissued ~> Ended(b) \/ (query[b] = "disputed" /\ From[b] \in failed)
=============================================================================
