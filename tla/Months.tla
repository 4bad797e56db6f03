-------------------------------- MODULE Months --------------------------------
(***************************************************************************)
(* What the accountant promises its clients (flow 9, WORLD-0011): a month  *)
(* is closed again and again until something ends the arrangement for good; *)
(* work done by hand is looked into once; what that costs, and what a close *)
(* on an estimate costs later, is on the bill of exactly one close.         *)
(***************************************************************************)
EXTENDS Integers

CONSTANTS
  Clients,      \* whose books are closed
  ReworkFee,    \* for one thing done by hand that did not reconcile
  AuditFee,     \* for an audit
  TrueUp        \* for a month that was closed on an estimate

VARIABLES
  byHand,       \* things done by hand that nobody has looked into
  audited,      \* has there been an audit notice nobody has looked into?
  owed,         \* what the next close will cost beyond its fee
  charged,      \* what the last close cost beyond its fee
  closes,       \* the closes so far, modulo two
  ended         \* the clients whose books are not closed, or not any more

months == <<byHand, audited, owed, charged, closes, ended>>

Init ==
  /\ byHand = [c \in Clients |-> 0]
  /\ audited = [c \in Clients |-> FALSE]
  /\ owed = [c \in Clients |-> 0]
  /\ charged = [c \in Clients |-> 0]
  /\ closes = [c \in Clients |-> 0]
  /\ ended \in SUBSET Clients

WorkByHand ==
  /\ byHand' \in [Clients -> Nat]
  /\ \A c \in Clients : byHand[c] <= byHand'[c]
  /\ UNCHANGED <<audited, owed, charged, closes, ended>>

Audit(c) ==
  /\ audited' = [audited EXCEPT ![c] = TRUE]
  /\ UNCHANGED <<byHand, owed, charged, closes, ended>>

LookInto(c) ==
  /\ byHand' = [byHand EXCEPT ![c] = 0]
  /\ audited' = [audited EXCEPT ![c] = FALSE]

(* Some of it does not reconcile. *)
Rework(c) ==
  /\ c \notin ended
  /\ LookInto(c)
  /\ \E n \in 0 .. byHand[c] :
       owed' = [owed EXCEPT ![c] = @ + n * ReworkFee + IF audited[c] THEN AuditFee ELSE 0]
  /\ UNCHANGED <<charged, closes, ended>>

(* All of it does, or it is left for another month. *)
Close(c) ==
  /\ c \notin ended
  /\ \/ UNCHANGED <<byHand, audited>>
     \/ ~audited[c] /\ LookInto(c)
  /\ charged' = [charged EXCEPT ![c] = owed[c]]
  /\ \E late \in {0, TrueUp} : owed' = [owed EXCEPT ![c] = late]
  /\ closes' = [closes EXCEPT ![c] = 1 - @]
  /\ UNCHANGED ended

End(S) ==
  /\ ended' = ended \cup S
  /\ owed' = [c \in Clients |-> IF c \in S THEN 0 ELSE owed[c]]
  /\ UNCHANGED <<byHand, audited, charged, closes>>

Next ==
  \/ WorkByHand
  \/ \E c \in Clients : Audit(c) \/ Rework(c) \/ Close(c)
  \/ \E S \in SUBSET Clients : End(S)

Spec == Init /\ [][Next]_months /\ \A c \in Clients : WF_months(Close(c))
=============================================================================
