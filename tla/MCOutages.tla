------------------------------ MODULE MCOutages ------------------------------
(* Outages for TLC: one module and one user, somebody on the desk and an    *)
(* engineer; a day is an office tick, an evening tick of the cafe, and the  *)
(* night.                                                                   *)
EXTENDS Outages

CONSTANTS invoicing, ann, clerk, engineer

MCUses == [m \in Modules |-> People]
MCSeeded == <<>>
MCCalendar == <<[office |-> TRUE, gap |-> 2], [office |-> FALSE, gap |-> 6]>>
=============================================================================
