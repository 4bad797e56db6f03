-------------------------- MODULE ReceivablesProofs --------------------------
(***************************************************************************)
(* Proofs about Receivables, for any firms, clients, bills and promises,   *)
(* any amounts and any terms. FreshInv says that nothing has happened to a *)
(* bill before it is issued; with it and the types, each of the invariants *)
(* that the runs check is preserved by every step.                         *)
(***************************************************************************)
EXTENDS Receivables, TLAPS

\* Nothing has been paid, given up or asked about before the bill exists.
FreshInv ==
  \A b \in Bills : age[b] = Unissued => ~paid[b] /\ ~off[b] /\ query[b] = "not asked"

\* The constants and the ages they make, as the proofs use them.
LEMMA Parameters ==
  /\ Horizon \in Nat /\ Terms \in Nat /\ WriteOffAfter \in Nat
  /\ Oldest \in Nat
  /\ Unissued \in Unissued .. Oldest
  /\ 0 # Unissued
<1>1. Horizon \in Nat /\ Terms \in Nat /\ WriteOffAfter \in Nat
  BY ReceivablesAssumption
<1> QED
  BY <1>1 DEF Unissued, Oldest

\* A discount is a part of what is owed.
LEMMA CutIsPart ==
  ASSUME TypeOK, NEW b \in Bills
  PROVE  Cut(b) \in 0 .. owed[b]
<1>1. owed[b] \in Nat
  BY DEF TypeOK
<1>2. ASSUME NEW o \in Nat PROVE (o * 15) \div 100 \in 0 .. o
  OBVIOUS
<1> QED
  BY <1>1, <1>2 DEF Cut

\* A credit is at most what is owed.
LEMMA LeastIsPart ==
  ASSUME TypeOK, NEW b \in Subscription, NEW share \in Shares, 0 < Least(share, owed[b])
  PROVE  Least(share, owed[b]) \in 1 .. owed[b]
<1>1. Monthly \in Nat /\ b \in Bills
  BY ReceivablesAssumption
<1>2. owed[b] \in Nat
  BY <1>1 DEF TypeOK
<1>3. share \in Nat
  <2>1. Monthly \div 4 \in Nat
    BY <1>1
  <2> QED
    BY <1>1, <2>1 DEF Shares
<1> QED
  BY <1>2, <1>3 DEF Least

\* Scoring the promises about a bill touches the scores of open ones only.
LEMMA ScoredPromises ==
  ASSUME TypeOK, NEW b \in Bills, NEW score \in Scores
  PROVE  /\ Scored(b, score) \in [Promises -> Promise]
         /\ \A p \in Promises :
              /\ Scored(b, score)[p].on = promise[p].on
              /\ Scored(b, score)[p].left = promise[p].left
              /\ Scored(b, score)[p].queued = promise[p].queued
              /\ Scored(b, score)[p].score =
                   IF promise[p].score = "open" /\ promise[p].on = b
                     THEN score ELSE promise[p].score
<1> DEFINE new(p) == IF p \in Outstanding(b)
                       THEN [promise[p] EXCEPT !.score = score] ELSE promise[p]
<1>1. ASSUME NEW p \in Promises
      PROVE  /\ promise[p] \in Promise
             /\ p \in Outstanding(b) <=> promise[p].score = "open" /\ promise[p].on = b
  BY DEF TypeOK, Outstanding
<1>2. ASSUME NEW p \in Promises
      PROVE  /\ new(p) \in Promise
             /\ new(p).on = promise[p].on
             /\ new(p).left = promise[p].left
             /\ new(p).queued = promise[p].queued
             /\ new(p).score = IF promise[p].score = "open" /\ promise[p].on = b
                                 THEN score ELSE promise[p].score
  BY <1>1 DEF Promise
<1>3. Scored(b, score) = [p \in Promises |-> new(p)]
  BY DEF Scored
<1> HIDE DEF new
<1> QED
  BY <1>2, <1>3

\* Every variable keeps its type; in particular no credit or discount takes a
\* bill below nothing.
LEMMA TypingStep ==
  ASSUME TypeOK, Next
  PROVE  TypeOK'
<1> USE ReceivablesAssumption DEF TypeOK
<1>1. ASSUME NEW b \in Bills, Issue(b) PROVE TypeOK'
  BY <1>1 DEF Issue, Unissued, Oldest
<1>2. ASSUME NEW b \in Bills, Pay(b) PROVE TypeOK'
  <2>1. promise' \in [Promises -> Promise]
    BY <1>2, ScoredPromises DEF Pay, Scores
  <2>2. cash' \in [Firms -> Int]
    BY <1>2 DEF Pay, Paid
  <2> QED
    BY <1>2, <2>1, <2>2 DEF Pay
<1>3. ASSUME NEW b \in Bills, WriteOff(b) PROVE TypeOK'
  BY <1>3 DEF WriteOff
<1>4. ASSUME NEW b \in Bills, Read(b) PROVE TypeOK'
  BY <1>4 DEF Read, Disputed, Queries
<1>5. ASSUME NEW b \in Bills, Shock(b) PROVE TypeOK'
  BY <1>5 DEF Shock, Disputed, Queries
<1>6. ASSUME NEW b \in Bills, Resolve(b) PROVE TypeOK'
  <2>1. query' \in [Bills -> Queries] /\ wait' \in [Bills -> {NoJob, 0, 1}]
    BY <1>6 DEF Resolve, Queries, NoJob
  <2>2. /\ owed' \in [Bills -> Nat]
        /\ off' \in [Bills -> BOOLEAN]
        /\ standing' \in [Bills -> Int]
    <3>1. CASE UNCHANGED <<owed, off, standing>>
      BY <3>1
    <3>2. CASE Discount(b)
      BY <3>2, CutIsPart DEF Discount
    <3>3. CASE GiveUp(b)
      BY <3>3 DEF GiveUp
    <3> QED
      BY <1>6, <3>1, <3>2, <3>3 DEF Resolve, StandFirm
  <2> QED
    BY <1>6, <2>1, <2>2 DEF Resolve
<1>7. ASSUME NEW f \in Firms, NEW b \in Subscription, NEW share \in Shares,
             Credit(f, b, share)
      PROVE  TypeOK'
  <2> DEFINE amount == Least(share, owed[b])
  <2>1. b \in Bills /\ owed[b] \in Nat /\ amount \in 1 .. owed[b]
    BY <1>7, LeastIsPart DEF Credit
  <2>2. standing' = [standing EXCEPT ![b] = @ - amount]
    BY <1>7 DEF Credit
  <2>3. \/ paid' = [paid EXCEPT ![b] = TRUE] /\ UNCHANGED owed
        \/ owed' = [owed EXCEPT ![b] = @ - amount] /\ UNCHANGED paid
    BY <1>7 DEF Credit
  <2>4. UNCHANGED <<age, off, query, wait, cash, failed, subscribed, promise>>
    BY <1>7 DEF Credit
  <2>5. owed[b] - amount \in Nat /\ standing[b] - amount \in Int
    BY <2>1
  <2> HIDE DEF amount
  <2>6. CASE paid' = [paid EXCEPT ![b] = TRUE] /\ UNCHANGED owed
    BY <2>2, <2>4, <2>5, <2>6
  <2>7. CASE owed' = [owed EXCEPT ![b] = @ - amount] /\ UNCHANGED paid
    BY <2>2, <2>4, <2>5, <2>7
  <2> QED
    BY <2>3, <2>6, <2>7
<1>8. ASSUME NEW f \in Firms, Cancel(f) PROVE TypeOK'
  BY <1>8 DEF Cancel
<1>9. ASSUME NEW f \in Firms, Fail(f) PROVE TypeOK'
  BY <1>9 DEF Fail
<1>10. ASSUME NEW p \in Promises, FallDue(p) PROVE TypeOK'
  <2>1. promise[p].on \in Bills
    BY DEF Promise
  <2>2. Scored(promise[p].on, "broken") \in [Promises -> Promise]
    BY <2>1, ScoredPromises DEF Scores
  <2>3. ASSUME NEW s \in [Promises -> Promise]
        PROVE  [s EXCEPT ![p].queued = FALSE] \in [Promises -> Promise]
    BY DEF Promise
  <2>4. promise' \in [Promises -> Promise]
    BY <1>10, <2>2, <2>3 DEF FallDue
  <2> QED
    BY <1>10, <2>4 DEF FallDue
<1>11. ASSUME NEW p \in Promises, NEW b \in Bills, Give(p, b) PROVE TypeOK'
  BY <1>11 DEF Give, Promise, Scores
<1>12. ASSUME NextDay PROVE TypeOK'
  <2>1. age' \in [Bills -> Unissued .. Oldest]
    BY <1>12 DEF NextDay, Unissued, Oldest
  <2>2. promise' \in [Promises -> Promise]
    <3>1. ASSUME NEW r \in Promise, r.left # 0
          PROVE  [r EXCEPT !.left = @ - 1] \in Promise
      <4>1. r.left \in 0 .. Horizon /\ Horizon \in Nat
        BY Parameters DEF Promise
      <4>2. r.left - 1 \in 0 .. Horizon
        BY <3>1, <4>1
      <4> QED
        BY <4>2 DEF Promise
    <3> QED
      BY <1>12, <3>1 DEF NextDay
  <2> QED
    BY <1>12, <2>1, <2>2 DEF NextDay
<1> QED
  BY <1>1, <1>2, <1>3, <1>4, <1>5, <1>6, <1>7, <1>8, <1>9, <1>10, <1>11, <1>12
     DEF Next

\* The type invariant of the ledger of bills, from the first state on.
THEOREM Typing == Spec => []TypeOK
<1>1. Init => TypeOK
  <2> SUFFICES ASSUME Init PROVE TypeOK
    OBVIOUS
  <2>1. age \in [Bills -> Unissued .. Oldest]
    BY Parameters DEF Init
  <2>2. promise \in [Promises -> Promise]
    <3>1. (CHOOSE b \in Bills : TRUE) \in Bills
      BY ReceivablesAssumption
    <3>2. 0 \in 0 .. Horizon
      BY Parameters
    <3> QED
      BY <3>1, <3>2 DEF Init, Promise, Scores
  <2>3. /\ owed = Face /\ cash = Cash
        /\ failed = {} /\ subscribed = Firms \ {Vendor}
        /\ paid = [b \in Bills |-> FALSE] /\ off = [b \in Bills |-> FALSE]
        /\ query = [b \in Bills |-> "not asked"]
        /\ wait = [b \in Bills |-> NoJob]
        /\ standing = [b \in Bills |-> 0]
    BY DEF Init
  <2>4. Face \in [Bills -> Nat] /\ Cash \in [Firms -> Int]
    BY ReceivablesAssumption
  <2>5. /\ paid \in [Bills -> BOOLEAN] /\ off \in [Bills -> BOOLEAN]
        /\ query \in [Bills -> Queries]
    BY <2>3 DEF Queries
  <2>6. wait \in [Bills -> {NoJob, 0, 1}]
    BY <2>3
  <2>7. standing \in [Bills -> Int]
    <3>1. standing = [b \in Bills |-> 0]
      BY DEF Init
    <3>2. 0 \in Int
      OBVIOUS
    <3> QED
      BY <3>1, <3>2
  <2>8. failed \subseteq Firms /\ subscribed \subseteq Firms
    BY <2>3
  <2> QED
    BY <2>1, <2>2, <2>3, <2>4, <2>5, <2>6, <2>7, <2>8 DEF TypeOK
<1>2. TypeOK /\ [Next]_vars => TypeOK'
  <2>1. CASE UNCHANGED vars
    BY <2>1 DEF vars, TypeOK
  <2> QED
    BY <2>1, TypingStep
<1> QED
  BY <1>1, <1>2, PTL DEF Spec

-----------------------------------------------------------------------------
\* A day neither issues a bill nor takes it back.
LEMMA AgesIssue ==
  ASSUME TypeOK, NextDay, NEW b \in Bills
  PROVE  age'[b] = Unissued <=> age[b] = Unissued
<1>1. age'[b] = IF age[b] \in {Unissued, Oldest} THEN age[b] ELSE age[b] + 1
  BY DEF NextDay
<1>2. age[b] \in Unissued .. Oldest /\ Oldest \in Nat
  BY Parameters DEF TypeOK
<1>3. CASE age[b] = Unissued
  BY <1>1, <1>3
<1>4. CASE age[b] # Unissued
  <2>1. age[b] \in Nat /\ age[b] + 1 # Unissued
    BY <1>2, <1>4 DEF Unissued
  <2> QED
    BY <1>1, <1>4, <2>1
<1> QED
  BY <1>3, <1>4

\* Nothing happens to a bill before it is issued.
LEMMA FreshStep ==
  ASSUME TypeOK, FreshInv, Next
  PROVE  FreshInv'
<1> USE ReceivablesAssumption DEF TypeOK, FreshInv
<1>1. ASSUME NEW b \in Bills, Issue(b) PROVE FreshInv'
  <2> SUFFICES ASSUME NEW c \in Bills, age'[c] = Unissued
               PROVE  ~paid'[c] /\ ~off'[c] /\ query'[c] = "not asked"
    OBVIOUS
  <2>1. age'[c] = IF c = b THEN 0 ELSE age[c]
    BY <1>1 DEF Issue
  <2>2. c # b
    BY <2>1, Parameters
  <2> QED
    BY <1>1, <2>1, <2>2 DEF Issue
<1>2. ASSUME NEW b \in Bills, Pay(b) \/ WriteOff(b) \/ Read(b) \/ Shock(b)
      PROVE  FreshInv'
  BY <1>2 DEF Pay, WriteOff, Read, Shock, Payable, LateEnough, Open, Disputed
<1>3. ASSUME NEW b \in Bills, Resolve(b) PROVE FreshInv'
  BY <1>3 DEF Resolve, StandFirm, Discount, GiveUp, Answered, Open
<1>4. ASSUME NEW f \in Firms, NEW b \in Subscription, NEW share \in Shares,
             Credit(f, b, share)
      PROVE  FreshInv'
  BY <1>4 DEF Credit, Creditable, Unpaid
<1>5. ASSUME NEW f \in Firms, Cancel(f) \/ Fail(f) PROVE FreshInv'
  BY <1>5 DEF Cancel, Fail, Dead, Open
<1>6. ASSUME NEW p \in Promises, FallDue(p) \/ \E b \in Bills : Give(p, b)
      PROVE  FreshInv'
  BY <1>6 DEF FallDue, Give
<1>7. ASSUME NextDay PROVE FreshInv'
  <2> SUFFICES ASSUME NEW c \in Bills, age'[c] = Unissued
               PROVE  ~paid'[c] /\ ~off'[c] /\ query'[c] = "not asked"
    OBVIOUS
  <2>1. age'[c] = Unissued => age[c] = Unissued
    BY <1>7, AgesIssue
  <2> QED
    BY <1>7, <2>1 DEF NextDay
<1> QED
  BY <1>1, <1>2, <1>3, <1>4, <1>5, <1>6, <1>7 DEF Next

\* The strengthening holds in every reachable state, with the types.
LEMMA Fresh == Spec => [](TypeOK /\ FreshInv)
<1>1. Init => FreshInv
  BY DEF Init, FreshInv
<1>2. TypeOK /\ FreshInv /\ [Next]_vars => FreshInv'
  <2>1. CASE UNCHANGED vars
    BY <2>1 DEF vars, FreshInv
  <2> QED
    BY <2>1, FreshStep
<1> QED
  BY <1>1, <1>2, Typing, PTL DEF Spec

-----------------------------------------------------------------------------
\* The books agree after every step.
LEMMA BooksStep ==
  ASSUME TypeOK, FreshInv, BooksAgree, Next
  PROVE  BooksAgree'
<1> USE ReceivablesAssumption DEF TypeOK, BooksAgree, Astray, Owing, Open
<1>1. ASSUME NEW b \in Bills, Issue(b) PROVE BooksAgree'
  <2>1. age[b] = Unissued /\ ~paid[b] /\ ~off[b] /\ standing[b] = 0
    BY <1>1 DEF Issue, Billable, FreshInv
  <2>2. age' = [age EXCEPT ![b] = 0] /\ 0 # Unissued
    BY <1>1 DEF Issue, Unissued
  <2>3. standing' = [standing EXCEPT ![b] = @ + owed[b]]
    BY <1>1 DEF Issue
  <2>4. UNCHANGED <<owed, paid, off>>
    BY <1>1 DEF Issue
  <2>5. ASSUME NEW c \in Bills, c # b PROVE Astray(c)' \/ standing'[c] = Owing(c)'
    BY <2>2, <2>3, <2>4, <2>5
  <2>6. Astray(b)' \/ standing'[b] = Owing(b)'
    BY <2>1, <2>2, <2>3, <2>4
  <2> QED
    BY <2>5, <2>6
<1>2. ASSUME NEW b \in Bills, Pay(b) PROVE BooksAgree'
  BY <1>2 DEF Pay, Payable
<1>3. ASSUME NEW b \in Bills, WriteOff(b) PROVE BooksAgree'
  BY <1>3 DEF WriteOff, LateEnough
<1>4. ASSUME NEW b \in Bills, Read(b) \/ Shock(b) PROVE BooksAgree'
  BY <1>4 DEF Read, Shock
<1>5. ASSUME NEW b \in Bills, Resolve(b) PROVE BooksAgree'
  <2>1. CASE UNCHANGED <<owed, off, standing>>
    BY <1>5, <2>1 DEF Resolve
  <2>2. CASE Answered(b) /\ Discount(b)
    BY <1>5, <2>2, CutIsPart DEF Resolve, Answered, Discount
  <2>3. CASE Answered(b) /\ GiveUp(b)
    BY <1>5, <2>3 DEF Resolve, Answered, GiveUp
  <2> QED
    BY <1>5, <2>1, <2>2, <2>3 DEF Resolve, StandFirm
<1>6. ASSUME NEW f \in Firms, NEW b \in Subscription, NEW share \in Shares,
             Credit(f, b, share)
      PROVE  BooksAgree'
  <2> DEFINE amount == Least(share, owed[b])
  <2>1. b \in Bills /\ owed[b] \in Nat /\ amount \in 1 .. owed[b]
    BY <1>6, LeastIsPart DEF Credit
  <2>2. standing' = [standing EXCEPT ![b] = @ - amount]
    BY <1>6 DEF Credit
  <2>3. \/ amount = owed[b] /\ paid' = [paid EXCEPT ![b] = TRUE] /\ UNCHANGED owed
        \/ owed' = [owed EXCEPT ![b] = @ - amount] /\ UNCHANGED paid
    BY <1>6 DEF Credit
  <2>4. UNCHANGED <<age, off>> /\ age[b] # Unissued /\ ~paid[b]
    BY <1>6 DEF Credit, Creditable, Unpaid
  <2> HIDE DEF amount
  <2>5. ASSUME NEW c \in Bills, c # b PROVE Astray(c)' \/ standing'[c] = Owing(c)'
    BY <2>1, <2>2, <2>3, <2>4, <2>5
  <2>6. Astray(b)' \/ standing'[b] = Owing(b)'
    BY <2>1, <2>2, <2>3, <2>4
  <2> QED
    BY <2>5, <2>6
<1>7. ASSUME NEW f \in Firms, Cancel(f) PROVE BooksAgree'
  BY <1>7 DEF Cancel
<1>8. ASSUME NEW f \in Firms, Fail(f) PROVE BooksAgree'
  <2> SUFFICES ASSUME NEW c \in Bills PROVE Astray(c)' \/ standing'[c] = Owing(c)'
    OBVIOUS
  <2>1. UNCHANGED <<age, owed, paid>> /\ off'[c] = (off[c] \/ c \in Dead(f))
    BY <1>8 DEF Fail
  <2>2. standing'[c] = IF c \in Dead(f) THEN standing[c] - owed[c] ELSE standing[c]
    BY <1>8 DEF Fail
  <2>3. c \in Dead(f) => Open(c)
    BY DEF Dead
  <2> HIDE DEF BooksAgree, TypeOK
  <2>4. /\ Astray(c) \/ standing[c] = Owing(c)
        /\ standing[c] \in Int /\ owed[c] \in Int
    BY DEF BooksAgree, TypeOK
  <2>5. CASE c \in Dead(f)
    <3>1. off'[c] /\ Owing(c)' = 0
      BY <2>1, <2>5
    <3>2. ~off[c] /\ standing[c] = owed[c]
      BY <2>3, <2>4, <2>5
    <3> QED
      BY <2>2, <2>4, <2>5, <3>1, <3>2
  <2>6. CASE c \notin Dead(f)
    BY <2>1, <2>2, <2>4, <2>6
  <2> QED
    BY <2>5, <2>6
<1>9. ASSUME NEW p \in Promises, FallDue(p) \/ \E b \in Bills : Give(p, b)
      PROVE  BooksAgree'
  BY <1>9 DEF FallDue, Give
<1>10. ASSUME NextDay PROVE BooksAgree'
  BY <1>10, AgesIssue DEF NextDay
<1> QED
  BY <1>1, <1>2, <1>3, <1>4, <1>5, <1>6, <1>7, <1>8, <1>9, <1>10 DEF Next

\* What the handlers post to the receivable account of a bill is, at all times,
\* what the bill's row says is owed.
THEOREM Books == Spec => []BooksAgree
<1>1. Init => BooksAgree
  BY ReceivablesAssumption DEF Init, BooksAgree, Owing, Open
<1>2. TypeOK /\ FreshInv /\ BooksAgree /\ [Next]_vars => BooksAgree'
  <2>1. CASE UNCHANGED vars
    BY <2>1 DEF vars, BooksAgree, Astray, Owing, Open
  <2> QED
    BY <2>1, BooksStep
<1> QED
  BY <1>1, <1>2, Fresh, PTL DEF Spec

-----------------------------------------------------------------------------
\* No sequence of payments takes a firm's account below nothing.
THEOREM CashHolds == Spec => []CashIsNeverConjured
<1>1. Init => CashIsNeverConjured
  <2>1. Init => cash = Cash
    BY DEF Init
  <2>2. Cash \in [Firms -> Nat]
    BY ReceivablesAssumption
  <2> QED
    BY <2>1, <2>2 DEF CashIsNeverConjured
<1>2. TypeOK /\ CashIsNeverConjured /\ [Next]_vars => CashIsNeverConjured'
  <2> SUFFICES ASSUME TypeOK, CashIsNeverConjured, [Next]_vars
               PROVE  CashIsNeverConjured'
    OBVIOUS
  <2> USE DEF CashIsNeverConjured
  <2>1. ASSUME NEW b \in Bills, Pay(b) PROVE CashIsNeverConjured'
    <3>1. owed[b] \in Nat /\ From[b] # To[b]
      BY ReceivablesAssumption DEF TypeOK
    <3>2. To[b] \in Firms => cash[To[b]] >= owed[b]
      BY <2>1 DEF Pay, Payable
    <3> SUFFICES ASSUME NEW f \in Firms PROVE cash'[f] >= 0
      OBVIOUS
    <3>3. cash[f] \in Int /\ cash[f] >= 0
      BY DEF TypeOK
    <3>4. cash'[f] = cash[f] + (IF f = From[b] THEN owed[b] ELSE 0)
                             - (IF f = To[b] THEN owed[b] ELSE 0)
      BY <2>1 DEF Pay, Paid
    <3> QED
      BY <3>1, <3>2, <3>3, <3>4
  <2>2. UNCHANGED cash => CashIsNeverConjured'
    OBVIOUS
  <2>3. UNCHANGED cash \/ \E b \in Bills : Pay(b)
    BY DEF Next, vars, Issue, WriteOff, Read, Shock, Resolve, Credit, Cancel, Fail,
           FallDue, Give, NextDay
  <2> QED
    BY <2>1, <2>2, <2>3
<1> QED
  BY <1>1, <1>2, Typing, PTL DEF Spec

-----------------------------------------------------------------------------
\* A dispute that is not answered has its job, or nobody to answer it, or
\* nothing to be answered about.
LEMMA HeardStep ==
  ASSUME TypeOK, FreshInv, DisputesAreHeard, Next
  PROVE  DisputesAreHeard'
<1> USE DEF TypeOK, DisputesAreHeard, Open
<1>1. ASSUME NEW b \in Bills, Issue(b) PROVE DisputesAreHeard'
  <2>1. query[b] = "not asked"
    BY <1>1 DEF Issue, Billable, FreshInv
  <2> QED
    BY <1>1, <2>1 DEF Issue
<1>2. ASSUME NEW b \in Bills, Pay(b) \/ WriteOff(b) PROVE DisputesAreHeard'
  BY <1>2 DEF Pay, WriteOff
<1>3. ASSUME NEW b \in Bills, Read(b) \/ Shock(b) PROVE DisputesAreHeard'
  <2>1. 1 # NoJob
    BY DEF NoJob
  <2>2. UNCHANGED <<age, paid, off, failed>>
    BY <1>3 DEF Read, Shock
  <2>3. \/ query' = [query EXCEPT ![b] = "disputed"] /\ wait' = [wait EXCEPT ![b] = 1]
        \/ query' = [query EXCEPT ![b] = "asked"] /\ UNCHANGED wait
    BY <1>3 DEF Read, Shock, Disputed
  <2> QED
    BY <2>1, <2>2, <2>3
<1>4. ASSUME NEW b \in Bills, Resolve(b) PROVE DisputesAreHeard'
  <2>1. CASE Answered(b)
    BY <1>4, <2>1 DEF Resolve, Answered, StandFirm, Discount, GiveUp
  <2>2. CASE ~Answered(b)
    BY <1>4, <2>2 DEF Resolve, Answered
  <2> QED
    BY <2>1, <2>2
<1>5. ASSUME NEW f \in Firms, NEW b \in Subscription, NEW share \in Shares,
             Credit(f, b, share)
      PROVE  DisputesAreHeard'
  <2>1. b \in Bills
    BY ReceivablesAssumption
  <2>2. UNCHANGED <<age, off, query, wait, failed>>
    BY <1>5 DEF Credit
  <2>3. \A c \in Bills : paid[c] => paid'[c]
    BY <1>5, <2>1 DEF Credit
  <2> QED
    BY <2>2, <2>3
<1>6. ASSUME NEW f \in Firms, Cancel(f) \/ Fail(f) PROVE DisputesAreHeard'
  BY <1>6 DEF Cancel, Fail
<1>7. ASSUME NEW p \in Promises, FallDue(p) \/ \E b \in Bills : Give(p, b)
      PROVE  DisputesAreHeard'
  BY <1>7 DEF FallDue, Give
<1>8. ASSUME NextDay PROVE DisputesAreHeard'
  <2>1. ASSUME NEW b \in Bills
        PROVE  /\ wait'[b] = NoJob => wait[b] = NoJob
               /\ age'[b] = Unissued <=> age[b] = Unissued
    BY <1>8, AgesIssue DEF NextDay, NoJob
  <2> QED
    BY <1>8, <2>1 DEF NextDay
<1> QED
  BY <1>1, <1>2, <1>3, <1>4, <1>5, <1>6, <1>7, <1>8 DEF Next

\* Every dispute with a firm that is still in business gets its answer.
THEOREM DisputesHeard == Spec => []DisputesAreHeard
<1>1. Init => DisputesAreHeard
  BY DEF Init, DisputesAreHeard
<1>2. TypeOK /\ FreshInv /\ DisputesAreHeard /\ [Next]_vars => DisputesAreHeard'
  <2>1. CASE UNCHANGED vars
    BY <2>1 DEF vars, DisputesAreHeard, Open
  <2> QED
    BY <2>1, HeardStep
<1> QED
  BY <1>1, <1>2, Fresh, PTL DEF Spec

-----------------------------------------------------------------------------
\* Promises about services bills are scored by the payment or by their day.
LEMMA ScoredStep ==
  ASSUME TypeOK, PromisesAreScored, Next
  PROVE  PromisesAreScored'
<1> USE DEF PromisesAreScored
<1>1. ASSUME NEW p \in Promises
      PROVE  promise[p].on \in Bills
  BY DEF TypeOK, Promise
<1>2. ASSUME NEW b \in Bills, Pay(b) PROVE PromisesAreScored'
  <2> SUFFICES ASSUME NEW p \in Promises,
                      promise'[p].score = "open", promise'[p].on \notin Subscription
               PROVE  promise'[p].queued /\ ~paid'[promise'[p].on]
    OBVIOUS
  <2>1. /\ promise'[p].on = promise[p].on
        /\ promise'[p].queued = promise[p].queued
        /\ promise'[p].score = IF promise[p].score = "open" /\ promise[p].on = b
                                 THEN "kept" ELSE promise[p].score
    BY <1>2, ScoredPromises DEF Pay, Scores
  <2>2. promise[p].score = "open" /\ promise[p].on # b
    BY <2>1
  <2>3. paid'[promise[p].on] = paid[promise[p].on]
    BY <1>1, <1>2, <2>2 DEF Pay, TypeOK
  <2> QED
    BY <2>1, <2>2, <2>3
<1>3. ASSUME NEW f \in Firms, NEW b \in Subscription, NEW share \in Shares,
             Credit(f, b, share)
      PROVE  PromisesAreScored'
  <2>1. UNCHANGED promise
    BY <1>3 DEF Credit
  <2>2. \A c \in Bills : c \notin Subscription => paid'[c] = paid[c]
    BY <1>3 DEF Credit, TypeOK
  <2> QED
    BY <1>1, <2>1, <2>2
<1>4. ASSUME NEW p \in Promises, FallDue(p) PROVE PromisesAreScored'
  <2> DEFINE b == promise[p].on
  <2> SUFFICES ASSUME NEW q \in Promises,
                      promise'[q].score = "open", promise'[q].on \notin Subscription
               PROVE  promise'[q].queued /\ ~paid'[promise'[q].on]
    OBVIOUS
  <2>1. UNCHANGED paid
    BY <1>4 DEF FallDue
  <2>2. CASE paid[b]
    <3>1. promise' = [promise EXCEPT ![p].queued = FALSE]
      BY <1>4, <2>2 DEF FallDue
    <3>2. /\ promise'[q].score = promise[q].score
          /\ promise'[q].on = promise[q].on
          /\ q # p => promise'[q].queued = promise[q].queued
      BY <3>1 DEF TypeOK, Promise
    <3>3. q # p
      BY <2>2, <3>2
    <3> QED
      BY <2>1, <3>2, <3>3
  <2>3. CASE ~paid[b]
    <3> DEFINE scored == Scored(b, "broken")
    <3>1. promise' = [scored EXCEPT ![p].queued = FALSE]
      BY <1>4, <2>3 DEF FallDue
    <3>2. /\ scored \in [Promises -> Promise]
          /\ scored[q].on = promise[q].on
          /\ scored[q].queued = promise[q].queued
          /\ scored[q].score = IF promise[q].score = "open" /\ promise[q].on = b
                                 THEN "broken" ELSE promise[q].score
      BY <1>1, ScoredPromises DEF Scores
    <3> HIDE DEF scored
    <3>3. /\ promise'[q].score = scored[q].score
          /\ promise'[q].on = scored[q].on
          /\ q # p => promise'[q].queued = scored[q].queued
      BY <3>1, <3>2 DEF Promise
    <3>4. promise[q].score = "open" /\ promise[q].on # b
      BY <3>2, <3>3
    <3> QED
      BY <2>1, <3>2, <3>3, <3>4
  <2> QED
    BY <2>2, <2>3
<1>5. ASSUME NEW p \in Promises, NEW b \in Bills, Give(p, b) PROVE PromisesAreScored'
  <2>1. UNCHANGED paid /\ ~paid[b]
    BY <1>5 DEF Give, Open
  <2>2. promise' = [promise EXCEPT ![p] =
                      [score |-> "open", on |-> b, left |-> Horizon, queued |-> TRUE]]
    BY <1>5 DEF Give
  <2>3. ASSUME NEW q \in Promises
        PROVE  IF q = p THEN promise'[q].on = b /\ promise'[q].queued
                        ELSE promise'[q] = promise[q]
    BY <2>2 DEF TypeOK
  <2> QED
    BY <2>1, <2>3
<1>6. ASSUME NextDay PROVE PromisesAreScored'
  <2>1. ASSUME NEW p \in Promises
        PROVE  /\ promise'[p].score = promise[p].score
               /\ promise'[p].on = promise[p].on
               /\ promise'[p].queued = promise[p].queued
    BY <1>6 DEF NextDay, TypeOK, Promise
  <2> QED
    BY <1>6, <2>1 DEF NextDay
<1>7. CASE UNCHANGED <<paid, promise>>
  BY <1>7
<1>8. ASSUME NEW b \in Bills, Issue(b) \/ WriteOff(b) \/ Read(b) \/ Shock(b) \/ Resolve(b)
      PROVE  UNCHANGED <<paid, promise>>
  BY <1>8 DEF Issue, WriteOff, Read, Shock, Resolve
<1>9. ASSUME NEW f \in Firms, Cancel(f) \/ Fail(f) PROVE UNCHANGED <<paid, promise>>
  BY <1>9 DEF Cancel, Fail
<1> QED
  BY <1>2, <1>3, <1>4, <1>5, <1>6, <1>7, <1>8, <1>9 DEF Next

\* No promise about a services bill outlives its day or the payment of its bill.
THEOREM PromisesScored == Spec => []PromisesAreScored
<1>1. Init => PromisesAreScored
  <2>1. Init => \A p \in Promises : promise[p].score = "none"
    <3> DEFINE none == [score |-> "none", on |-> CHOOSE b \in Bills : TRUE,
                        left |-> 0, queued |-> FALSE]
    <3>1. Init => promise = [p \in Promises |-> none]
      BY DEF Init
    <3>2. none.score = "none"
      OBVIOUS
    <3> HIDE DEF none
    <3> QED
      BY <3>1, <3>2
  <2> QED
    BY <2>1 DEF PromisesAreScored
<1>2. TypeOK /\ PromisesAreScored /\ [Next]_vars => PromisesAreScored'
  <2>1. CASE UNCHANGED vars
    BY <2>1 DEF vars, PromisesAreScored
  <2> QED
    BY <2>1, ScoredStep
<1> QED
  BY <1>1, <1>2, Typing, PTL DEF Spec
=============================================================================
