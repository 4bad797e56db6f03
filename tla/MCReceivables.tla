---------------------------- MODULE MCReceivables ----------------------------
(* Receivables for TLC: a vendor and a cafe; the cafe subscribes, caters    *)
(* for the vendor and has a client.                                         *)
EXTENDS Receivables, FiniteSets

CONSTANTS vendor, cafe, client, fee, lunch, party

MCFrom == [b \in Bills |-> IF b = fee THEN vendor ELSE cafe]
MCTo == [b \in Bills |-> CASE b = fee -> cafe
                           [] b = lunch -> vendor
                           [] b = party -> client]
MCFace == [b \in Bills |-> IF b = lunch THEN 10 ELSE 8]
MCCash == [f \in Firms |-> IF f = vendor THEN 12 ELSE 4]

(* Any two of the three bills, and promises only where there is no          *)
(* subscription bill.                                                       *)
TwoBills ==
  /\ Cardinality({b \in Bills : age[b] # Unissued}) <= 2
  /\ age[fee] # Unissued => \A p \in Promises : promise[p].score = "none"
=============================================================================
