------------------------------- MODULE MCFirms -------------------------------
(* Firms for TLC: the bookkeeper and the cafe, each with a head and one     *)
(* other, numbered as in the seeded world.                                  *)
EXTENDS Firms, TLC

CONSTANTS books, cafe

MCOrgs == {books, cafe}
MCRank == books :> 1 @@ cafe :> 2 @@ Town :> 0
MCSeats == {13, 16, 18, 20}
MCEmployer == 13 :> books @@ 16 :> books @@ 18 :> cafe @@ 20 :> cafe
MCRole == 13 :> "principal" @@ 16 :> "payroll" @@ 18 :> "owner" @@ 20 :> "barista"
MCHeads == {"principal", "owner", "founder"}
MCClerks == {"payroll", "principal"}
MCOne == [f \in Orgs |-> 1]
MCNone == [f \in Orgs |-> 0]
MCOpening == [f \in Orgs |-> IF f = books THEN 4 ELSE 1]
MCTakings == {[f \in Orgs |-> 0], [f \in Orgs |-> IF f = cafe THEN 2 ELSE 0]}
MCOpen == (0 .. Horizon) \ {3}

MCJobs ==
  {Plain("payroll.run", f, FirstPayday, FirstPayday) : f \in Orgs}
  \cup {Plain(kind, f, 2, 2) : kind \in {"rent.run", "hiring.review"}, f \in Orgs}
  \cup {Plain("founder.review", f, 4, 4) : f \in Orgs}
  \cup {Plain("tax.quarter", f, 5, 5) : f \in Orgs}
  \cup {Plain("households.week", Town, 2, 2), Plain("loans.week", Town, 2, 2),
        Plain("supplier.order", Cafe, 2, 2)}
=============================================================================
