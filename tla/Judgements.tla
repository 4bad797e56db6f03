----------------------------- MODULE Judgements -----------------------------
(***************************************************************************)
(* What may be answered to each kind of decision. A gate settles what the   *)
(* world leaves no choice about, for either policy. What is left the rules  *)
(* twin answers from a table and its luck, and Jev by choosing among the    *)
(* options of the questions put to it, which code then reads. Two programs  *)
(* answer the same 29 decisions, and one is the control arm of the other.   *)
(*                                                                         *)
(* A chance is here whether it can be 0 or 1, never how large; numbers are  *)
(* on the side of each threshold that the code compares them with.          *)
(***************************************************************************)
EXTENDS Integers, FiniteSets

CONSTANTS
  Firms, Vendor, Cafe, Accountant,   \* organisations
  GroupsShown,                       \* a room is described as so many firms
  Dealings,                          \* the firms there may be a live bill with
  Waiting                            \* the sets of clients an accountant may close

ASSUME JudgementsAssumption ==
  /\ {Vendor, Cafe, Accountant} \subseteq Firms
  /\ GroupsShown \in Nat /\ \A W \in Waiting : W # {} /\ W \subseteq Firms \ {Accountant}

VARIABLES
  kind, facts,   \* the decision
  chosen         \* the twin's answer, once there is one

judgeVars == <<kind, facts, chosen>>

Undecided == [undecided |-> TRUE]

(* A yes with its reason, or a no with its own.                            *)
YesOr(field, yes, no) ==
  {[answer |-> field, is |-> TRUE, reason |-> yes], [answer |-> field, is |-> FALSE, reason |-> no]}
Yes(field, why) == {[answer |-> field, is |-> TRUE, reason |-> why]}
No(field, why) == {[answer |-> field, is |-> FALSE, reason |-> why]}
One(field, options) == {[answer |-> field, is |-> o] : o \in options}

\* no gate, no reason, nothing but a yes or a no
Plain == {"ticket.answer", "chase.invoice", "deploy.decision", "invoice.dispute",
          "escalation.handoff", "retention.offer", "catering.accept"}
Flows == {"file.ticket", "ticket.triage", "payment.timing", "cafe.purchase", "ticket.confirm"}
Office == {"credit.decision", "payroll.release", "close.signoff"}
OfAFirm == {"leave.consider", "founder.review", "hire.decision"}
OfTheVendor == {"eng.allocation", "vendor.trust", "subscription.renew"}
Loops == OfTheVendor \cup
  {"dispute.resolution", "time.log", "cover.shift", "close.order", "supplier.order", "catering.order"}

Kinds == Plain \cup Flows \cup Office \cup OfAFirm \cup Loops \cup {"agent.tick", "episode.round"}

Roles == {"holder", "asker", "bystander"}
Places == Firms \cup {"plaza"}

(* The facts each is decided on.                                           *)
FactsOf(k) ==
  CASE k = "file.ticket" -> [down : BOOLEAN, open : BOOLEAN, hours : {0, 4}]
    [] k = "ticket.triage" -> [down : BOOLEAN, billing : BOOLEAN]
    [] k = "payment.timing" -> [disputed : BOOLEAN, afford : BOOLEAN, due : {0, 2, 3}, autopay : BOOLEAN]
    [] k = "cafe.purchase" -> [afford : BOOLEAN, soldOut : BOOLEAN, queue : {0, 1}, down : BOOLEAN]
    [] k = "agent.tick" ->
         {f \in [org : Firms, here : Places, present : SUBSET Firms, outage : BOOLEAN,
                 dealings : Dealings, mind : {2}, canRaise : BOOLEAN] :
            f.here \in {f.org, Cafe, "plaza"} /\ f.org \notin f.dealings}
    [] k = "credit.decision" -> [hours : {0, 3, 12}, blocked : BOOLEAN, escalated : BOOLEAN]
    [] k = "payroll.release" -> [afford : BOOLEAN, ready : BOOLEAN]
    [] k = "close.signoff" -> [stuck : BOOLEAN, attempt : 1 .. 3, overdue : BOOLEAN]
    [] k = "catering.order" -> [afford : BOOLEAN, held : BOOLEAN, short : BOOLEAN]
    [] k = "ticket.confirm" -> [down : BOOLEAN]
    [] k = "episode.round" ->
         [role : Roles, pressed : BOOLEAN, promised : BOOLEAN, refused : BOOLEAN,
          tellable : BOOLEAN, first : BOOLEAN, tense : BOOLEAN]
    [] k = "leave.consider" -> [head : BOOLEAN]
    [] k = "founder.review" -> [held : BOOLEAN, loan : BOOLEAN, loss : BOOLEAN, raised : BOOLEAN,
                                owed : BOOLEAN, short : BOOLEAN]
    [] k = "hire.decision" -> [frugal : BOOLEAN, held : BOOLEAN, runway : {20, 21, 28}]
    [] k = "eng.allocation" -> [debt : BOOLEAN, fires : BOOLEAN]
    [] k = "vendor.trust" -> [trust : 0 .. 4, bad : BOOLEAN]
    [] k = "subscription.renew" -> [trust : 0 .. 2, heard : BOOLEAN, rise : BOOLEAN,
                                    discount : BOOLEAN, relies : BOOLEAN]
    [] k = "dispute.resolution" -> [short : BOOLEAN, large : BOOLEAN, firm : BOOLEAN]
    [] k = "time.log" -> [down : BOOLEAN, paper : BOOLEAN]
    [] k = "cover.shift" -> [short : BOOLEAN]
    [] k = "close.order" -> [clients : Waiting, stuck : SUBSET Firms]
    [] k = "supplier.order" -> [down : BOOLEAN, trend : {"up", "level", "down"}]
    [] k \in Plain -> [none : {0}]

-----------------------------------------------------------------------------
(* Gates: what leaves nothing to decide, in the order the code tests it.   *)
Gated(k, f) ==
  CASE k = "file.ticket" -> IF ~f.down \/ f.open THEN No("file", "") ELSE {}
    [] k = "payment.timing" ->
         IF f.disputed THEN No("pay", "disputed")
         ELSE IF ~f.afford THEN No("pay", "insufficient_cash")
         ELSE IF f.due > 2 THEN No("pay", "not_due")
         ELSE IF f.autopay /\ f.due <= 0 THEN Yes("pay", "standing_instruction") ELSE {}
    [] k = "ticket.confirm" -> IF f.down THEN No("confirm", "still_down") ELSE {}
    [] k = "payroll.release" -> IF ~f.afford THEN No("release", "insufficient_cash") ELSE {}
    [] k = "catering.order" -> IF ~f.afford \/ f.held THEN One("order", {"none"}) ELSE {}
    [] k = "cafe.purchase" ->
         IF ~f.afford THEN No("buy", "no_money")
         ELSE IF f.soldOut THEN No("buy", "sold_out")
         ELSE IF f.queue = 0 /\ ~f.down THEN Yes("buy", "no_line") ELSE {}
    [] k = "leave.consider" -> IF f.head THEN No("leave", "runs_the_firm") ELSE {}
    [] k = "hire.decision" -> IF f.frugal \/ f.held \/ f.runway < 21 THEN No("hire", "") ELSE {}
    [] k = "time.log" -> IF f.down /\ ~f.paper THEN No("log", "timetrack_down") ELSE {}
    [] OTHER -> {}

-----------------------------------------------------------------------------
(* The twin's answers: a table where there is no luck in it.               *)

Is(field, value) == One(field, {value})

TwinInTheFlows(k, f) ==
  CASE k = "ticket.triage" ->
         {[queue |-> IF f.billing /\ ~f.down THEN "billing" ELSE "technical",
           severity |-> IF f.down THEN 2 ELSE 1]}
    [] k = "payment.timing" -> YesOr("pay", "due", "deferred")
    [] k = "cafe.purchase" -> YesOr("buy", "bought", IF f.queue > 0 THEN "queue" ELSE "changed_mind")
    [] k = "file.ticket" ->
         {[file |-> b, workaround |-> w] :
            b \in BOOLEAN,
            w \in {"wait", "call_account_manager", "other_tool"}
                  \cup IF f.hours < 4 THEN {} ELSE {"by_hand"}}
    [] k = "ticket.confirm" -> YesOr("confirm", "confirmed", "silent")

\* where next, and whom to turn to, always a person with something to say
TwinAtATick(f) ==
  {a \in [next : {f.here} \cup IF f.here # f.org THEN {f.org}
                               ELSE IF f.org = Cafe THEN {} ELSE {Cafe, "plaza"},
          with : {"nobody"} \cup f.present,
          topic : {"none", "small_talk"} \cup IF f.outage THEN {"the_outage"} ELSE {},
          mood : {f.mind}, raise : {FALSE, f.canRaise}] :
     /\ (a.with = "nobody") = (a.topic = "none")
     /\ a.raise => a.with # "nobody"}

TwinInTheOffice(k, f) ==
  CASE k = "credit.decision" ->
         Is("credit", IF f.hours >= 12 \/ f.blocked THEN "full_month"
                      ELSE IF f.hours >= 3 \/ f.escalated THEN "partial" ELSE "none")
    [] k = "payroll.release" ->
         IF f.ready THEN Yes("release", "released") ELSE No("release", "timesheets")
    [] k = "close.signoff" ->
         IF f.stuck
           THEN {[readiness |-> 0, late |-> IF f.attempt <= 1 THEN "wait"
                                            ELSE IF f.attempt <= 2 THEN "nag" ELSE "estimate"]}
           ELSE {[readiness |-> IF f.overdue THEN 1 ELSE 2, late |-> "wait"]}

\* mutant: a bystander presses too
ActsOfAnybody(f) == {"press", "ask", "small_talk"}

(* One round of a conversation: what is left to say for this part in it.   *)
TwinActs(f) ==
  {"leave"} \cup
  CASE f.role = "holder" /\ f.pressed /\ ~f.promised -> {"promise", "decline"}
    [] f.role = "holder" /\ ~f.pressed /\ ~f.promised -> {"explain", "ask"}
    [] f.role = "asker" /\ ~f.pressed /\ ~f.promised -> {"press", "explain"}
    [] f.role = "asker" /\ f.pressed /\ ~f.promised -> {"ask", "small_talk"}
    [] f.role = "bystander" -> {"ask", "small_talk"}
    [] OTHER -> {"small_talk"}

TwinInARound(f) ==
  [act : TwinActs(f),
   done : {\/ f.promised \/ f.refused
           \/ f.role = "asker" /\ f.pressed /\ ~f.first
           \/ f.role = "bystander" /\ ~f.tellable},
   mood : {IF f.tense THEN 1 ELSE 2}, mention : {FALSE, f.tellable}]

TwinOfAFirm(k, f) ==
  CASE k = "leave.consider" -> YesOr("leave", "unpaid", "stays")
    [] k = "founder.review" ->
         Is("choice", IF f.held /\ ~f.loan THEN "borrow"
                      ELSE IF f.loss /\ ~f.raised THEN "raise_prices"
                      ELSE IF f.owed THEN "chase_debts"
                      ELSE IF f.short THEN "cut_costs" ELSE "hold_course")
    [] k = "hire.decision" -> IF f.runway >= 28 THEN Yes("hire", "") ELSE No("hire", "")

(* Renewal, in hundredths: sure where nothing is left to leave for.        *)
ChanceOfLeaving(f) ==
  2 + 8 * (2 - f.trust) + (IF f.heard THEN 10 ELSE 0) + (IF f.rise THEN 5 ELSE 0)
    - (IF f.discount THEN 10 ELSE 0) - (IF f.relies THEN 8 ELSE 0)

TwinInTheLoops(k, f) ==
  CASE k = "eng.allocation" ->
         Is("allocation", IF f.debt THEN "debt" ELSE IF f.fires THEN "firefight" ELSE "roadmap")
    [] k = "vendor.trust" -> Is("trust", IF f.bad /\ f.trust > 0 THEN f.trust - 1 ELSE f.trust)
    [] k = "subscription.renew" ->
         Yes("renew", "") \cup IF ChanceOfLeaving(f) > 0 THEN No("renew", "") ELSE {}
    [] k = "dispute.resolution" ->
         Is("resolution", IF ~f.short /\ (f.large \/ f.firm) THEN "discount" ELSE "stand_firm")
    [] k = "time.log" -> YesOr("log", "", "")
    [] k = "cover.shift" -> Is("cover", IF f.short THEN "cover_it" ELSE "call_in")
    [] k = "close.order" ->
         One("waits", IF f.clients \cap f.stuck # {} THEN f.clients \cap f.stuck ELSE f.clients)
    [] k = "supplier.order" ->
         Is("order", IF f.down \/ f.trend = "level" THEN "usual"
                     ELSE IF f.trend = "up" THEN "more" ELSE "less")
    [] k = "catering.order" -> One("order", {"small", "none"} \cup IF f.short THEN {} ELSE {"large"})

TwinAnswers(k, f) ==
  CASE k \in Flows -> TwinInTheFlows(k, f)
    [] k = "agent.tick" -> TwinAtATick(f)
    [] k \in Office -> TwinInTheOffice(k, f)
    [] k = "episode.round" -> TwinInARound(f)
    [] k \in OfAFirm -> TwinOfAFirm(k, f)
    [] k \in Loops -> TwinInTheLoops(k, f)
    [] k \in Plain -> YesOr(k, "", "")

-----------------------------------------------------------------------------
(* The model's answers: the options put to it, as code reads them. "Other"  *)
(* is always among them, and code takes it for the option that does least.  *)

OfferedInTheFlows(k, f) ==
  CASE k = "file.ticket" ->
         [file : BOOLEAN,
          workaround : {"wait", "by_hand", "other_tool", "call_account_manager", "other"}]
    [] k = "ticket.triage" ->
         [queue : {"technical", "billing", "account", "other"}, severity : 0 .. 2]
    [] k = "payment.timing" -> YesOr("pay", "due", "deferred")
    [] k = "cafe.purchase" -> YesOr("buy", "bought", IF f.queue > 0 THEN "queue" ELSE "changed_mind")
    [] k = "ticket.confirm" -> YesOr("confirm", "confirmed", "silent")

(* The firms of a room that are described: the vendor to who is cut off,    *)
(* then those with a bill between them; of equals any, for what breaks the  *)
(* tie is heads and names.                                                 *)
Rank(f, firm) ==
  (IF f.outage /\ firm = Vendor /\ f.org # Vendor THEN 0 ELSE 2)
    + (IF firm \in f.dealings THEN 0 ELSE 1)

Shown(f) ==
  {firm \in f.present :
     Cardinality({g \in f.present : Rank(f, g) < Rank(f, firm)}) < GroupsShown}

OfferedAtATick(f) ==
  {a \in [next : {f.here, f.org, "plaza", Cafe, Vendor},
          with : {"nobody"} \cup Shown(f),
          topic : {"none", "work", "money", "small_talk", "other"}
                  \cup IF f.outage THEN {"the_outage"} ELSE {},
          mood : 0 .. 3, raise : {FALSE, f.canRaise}] :
     /\ (a.with = "nobody") = (a.topic = "none")
     /\ a.raise => a.with # "nobody"}

OfferedInTheOffice(k, f) ==
  CASE k = "credit.decision" -> One("credit", {"none", "partial", "full_month"})
    [] k = "payroll.release" -> YesOr("release", "released", "timesheets")
    [] k = "close.signoff" ->
         [readiness : 0 .. 2, late : IF f.stuck THEN {"wait", "estimate", "nag", "other"} ELSE {"wait"}]
    [] k = "catering.order" -> One("order", {"none", "small", "large"})

ActsByRole(role) ==
  CASE role = "holder" -> {"promise", "explain", "decline", "ask", "small_talk", "leave"}
    [] role = "asker" -> {"press", "explain", "ask", "small_talk", "leave"}
    [] role = "bystander" -> {"ask", "small_talk", "leave"}

OfferedInARound(f) ==
  [act : ActsByRole(f.role) \cup {"other"}, done : BOOLEAN, mood : 0 .. 3,
   mention : {FALSE, f.tellable}]

OfferedToAFirm(k, f) ==
  CASE k = "leave.consider" -> YesOr("leave", "unpaid", "stays")
    [] k = "founder.review" ->
         One("choice", {"raise_prices", "cut_costs", "chase_debts", "borrow", "hold_course"})
    [] k = "hire.decision" -> YesOr("hire", "", "")

OfferedToTheVendor(k, f) ==
  CASE k = "eng.allocation" -> One("allocation", {"roadmap", "debt", "firefight"})
    [] k = "vendor.trust" -> One("trust", 0 .. 4)
    [] k = "subscription.renew" -> YesOr("renew", "", "")

OfferedOfBillsAndShifts(k, f) ==
  CASE k = "dispute.resolution" -> One("resolution", {"stand_firm", "discount", "write_off"})
    [] k = "time.log" -> YesOr("log", "", "")
    [] k = "cover.shift" -> One("cover", {"cover_it", "call_in", "run_short"})
    [] k = "close.order" -> One("waits", f.clients \cup {""})
    [] k = "supplier.order" -> One("order", {"usual", "more", "less"})

MayAnswer(k, f) ==
  IF Gated(k, f) # {} THEN Gated(k, f)
  ELSE CASE k \in Flows -> OfferedInTheFlows(k, f)
         [] k = "agent.tick" -> OfferedAtATick(f)
         [] k \in Office \cup {"catering.order"} -> OfferedInTheOffice(k, f)
         [] k = "episode.round" -> OfferedInARound(f)
         [] k \in OfAFirm -> OfferedToAFirm(k, f)
         [] k \in OfTheVendor -> OfferedToTheVendor(k, f)
         [] k \in Loops \ (OfTheVendor \cup {"catering.order"}) -> OfferedOfBillsAndShifts(k, f)
         [] k \in Plain -> YesOr(k, "", "")

-----------------------------------------------------------------------------
JudgementsInit ==
  /\ kind \in Kinds /\ facts \in FactsOf(kind)
  /\ chosen = Undecided

(* RulesPolicy.decide: the gate first, and no luck is spent on what it     *)
(* settles.                                                                *)
TwinDecides ==
  /\ chosen = Undecided
  /\ chosen' \in IF Gated(kind, facts) # {} THEN Gated(kind, facts)
                 ELSE TwinAnswers(kind, facts)
  /\ UNCHANGED <<kind, facts>>

JudgementsSpec == JudgementsInit /\ [][TwinDecides]_judgeVars

-----------------------------------------------------------------------------
(* The control arm answers the question that is put to the model: whatever *)
(* the twin does, the model could have answered of the same facts. One     *)
(* thing apart: in a room of more firms than are described the twin may    *)
(* turn to one that is left out.                                           *)
TheTwinStaysInTheQuestion ==
  chosen # Undecided =>
    \/ chosen \in MayAnswer(kind, facts)
    \/ kind = "agent.tick" /\ chosen.with \in facts.present \ Shown(facts)
=============================================================================
