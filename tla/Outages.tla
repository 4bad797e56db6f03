------------------------------- MODULE Outages -------------------------------
(***************************************************************************)
(* Outages and the support desk (WORLD-0003, WORLD-0011, WORLD-0012): a    *)
(* module of the software company goes down and comes back, its users      *)
(* notice or are told, report it, press somebody about it, and the queue   *)
(* of tickets is worked. A tick is a run through the phases in the order   *)
(* of Engine._advance; times are kept as what is left of them, so the      *)
(* calendar is a cycle and the world has no last day.                      *)
(***************************************************************************)
EXTENDS Integers, Sequences, FiniteSets

CONSTANTS
  Modules,       \* what the software company sells
  People,        \* who uses it
  Uses,          \* module -> the people who do
  Agents,        \* the software company's staff
  Support,       \* agents on the desk
  Engineers,     \* agents who can act on an outage themselves
  Managers,      \* agents a customer may ring
  Nobody,
  Seeded,        \* the tickets of the first morning: a sequence of [by, mod]
  Tick,          \* a quarter of an hour, in the unit of all times
  Calendar,      \* the ticks at which something is open: [office, gap] to the next
  Lengths,       \* how long an outage may be expected to run
  Afters,        \* how long after the decision a start may be planned
  Delays,        \* how long it may take somebody to notice
  Floor,         \* ESCALATION_FLOOR
  PressedKeeps,  \* ESCALATION_KEEPS
  QueueKeeps,    \* PRIORITY_KEEPS
  Timeout,       \* TICKET_TIMEOUT
  ReopenWindow,  \* REOPEN_WINDOW
  EnoughBlocked, \* INTERNAL_ESCALATION_TICKETS
  MaxIncidents,  \* bound: outages begun or planned
  MaxTickets     \* bound: tickets

ASSUME OutagesAssumption ==
  /\ Uses \in [Modules -> SUBSET People]
  /\ Support \subseteq Agents /\ Engineers \subseteq Agents /\ Managers \subseteq Agents
  /\ Nobody \notin Agents
  /\ Tick \in Nat \ {0} /\ Floor \in Nat \ {0}
  /\ PressedKeeps \in Nat \ {0} /\ QueueKeeps \in Nat \ {0}
  /\ Lengths \subseteq Nat \ {0} /\ Delays \subseteq Nat
  /\ Afters \subseteq {n * Tick : n \in 0 .. 100}
  /\ Timeout \in Nat /\ ReopenWindow \in Nat /\ EnoughBlocked \in Nat
  /\ MaxIncidents \in Nat /\ MaxTickets \in Nat
  /\ Seeded \in Seq([by : People, mod : Modules]) /\ Len(Seeded) <= MaxTickets
  /\ Calendar \in Seq([office : BOOLEAN, gap : {n * Tick : n \in 1 .. 1000}])
  /\ Calendar # <<>>

VARIABLES
  clock,       \* where in the calendar sim_time is
  phase,       \* where in _advance the tick is
  todo,        \* what the phase has still to go through
  status,      \* modules.status
  incidents,   \* the rows of incidents
  news,        \* outages whose fact has no stale_sim
  queue,       \* the rows of scheduled
  ready,       \* rows taken off it at the start of this tick
  notices,     \* the rows of outage_notices
  tickets,     \* the rows of tickets
  left,        \* agents whose status is 'left'
  gone         \* has the software company failed?

vars == <<clock, phase, todo, status, incidents, news, queue, ready, notices, tickets,
          left, gone>>

Ids == 1 .. MaxIncidents
TicketIds == 1 .. MaxTickets
NoNotice == -1
NoTicket == 0
Ways == {"none", "other", "call"}
MaxAge == IF Timeout > ReopenWindow THEN Timeout ELSE ReopenWindow + 1

Row == [about : Ids, by : People, free : BOOLEAN]

NewTicket(p, m, i) ==
  [by |-> p, mod |-> m, about |-> i, severity |-> 1, status |-> "open", age |-> 0]

Init ==
  /\ clock = 1 /\ phase = "due" /\ todo = {}
  /\ status = [m \in Modules |-> "up"]
  /\ incidents = <<>> /\ news = {}
  /\ queue = {} /\ ready = {}
  /\ notices = [i \in Ids |-> [p \in People |->
                  [wait |-> NoNotice, ticket |-> NoTicket, way |-> "none"]]]
  /\ tickets = [k \in 1 .. Len(Seeded) |-> NewTicket(Seeded[k].by, Seeded[k].mod, 0)]
  /\ left = {} /\ gone = FALSE

-----------------------------------------------------------------------------
(* The queue of due work: by due time, then by the name of the kind. *)

Before(j, l) ==
  LET rank == [handoff |-> 1, end |-> 2, start |-> 3] IN
  j.due < l.due \/ (j.due = l.due /\ rank[j.kind] <= rank[l.kind])

First(j) == j \in ready /\ \A l \in ready : Before(j, l)

Running(j, kind) == phase = "due" /\ j.kind = kind /\ First(j) /\ ready' = ready \ {j}

Planned(kind, due, m, i, a, phone, length) ==
  [kind |-> kind, due |-> due, mod |-> m, about |-> i, holder |-> a, phone |-> phone,
   length |-> length]

OpenOn(m) == {i \in 1 .. Len(incidents) : incidents[i].mod = m /\ incidents[i].open}

\* the job that ends an outage of m, if it is in the queue
Ends(m) == {j \in queue : j.kind = "end" /\ j.mod = m}

Lowest(S) == CHOOSE i \in S : \A l \in S : i <= l

Highest(S) == CHOOSE i \in S : \A l \in S : l <= i

-----------------------------------------------------------------------------
(* An outage begins and ends. *)

Begin(m, length) ==
  LET i == Len(incidents) + 1
      users == IF gone THEN {} ELSE Uses[m]
  IN /\ status' = [status EXCEPT ![m] = "down"]
     /\ incidents' = Append(incidents, [mod |-> m, open |-> TRUE, escalated |-> FALSE,
                                        prioritised |-> FALSE, hits |-> {}])
     /\ news' = news \cup {i}
     /\ queue' = queue \cup {Planned("end", length, m, i, Nobody, FALSE, 0)}
     /\ \E drawn \in [users -> Delays] :
          notices' = [notices EXCEPT ![i] = [p \in People |->
                        IF p \in users THEN [@[p] EXCEPT !.wait = drawn[p]] ELSE @[p]]]

\* mutant: a module that is down goes down again
StartAnyway(m, length) == Begin(m, length)

Start(m, length) ==
  IF status[m] = "down"
    THEN UNCHANGED <<status, incidents, news, queue, notices>>
    ELSE Begin(m, length)

RunStart(j) ==
  /\ Running(j, "start")
  /\ Start(j.mod, j.length)
  /\ UNCHANGED <<clock, phase, todo, tickets, left, gone>>

Starts(jobs) == {j \in jobs : j.kind = "start"}

Room == Len(incidents) + Cardinality(Starts(queue)) + Cardinality(Starts(ready)) < MaxIncidents

(* The hazard of an hour, by the module. *)
Hazard(m) ==
  /\ phase = "hazard" /\ ~gone /\ status[m] = "up" /\ Room
  /\ \E length \in Lengths : Begin(m, length)
  /\ UNCHANGED <<clock, phase, todo, ready, tickets, left, gone>>

(* A deploy that breaks something, later; a shock, now. Either only puts   *)
(* the start in the queue, behind what this tick has already taken off.    *)
Plan(m, after, length) ==
  /\ phase = "due" /\ ~gone /\ Room
  /\ queue' = queue \cup {Planned("start", after, m, 0, Nobody, FALSE, length)}
  /\ UNCHANGED <<clock, phase, todo, status, incidents, news, ready, notices, tickets, left,
                 gone>>

\* mutant: whoever was going to notice still will
WithdrawNone(i) == [p \in People |-> notices[i][p]]

(* Whoever had not tried the feature by now never found it broken. *)
Withdraw(i) ==
  [p \in People |->
     IF notices[i][p].wait > 0 /\ notices[i][p].ticket = NoTicket
       THEN [notices[i][p] EXCEPT !.wait = NoNotice, !.way = "none"]
       ELSE notices[i][p]]

RunEnd(j) ==
  /\ Running(j, "end")
  /\ IF incidents[j.about].open
       THEN /\ incidents' = [incidents EXCEPT ![j.about].open = FALSE]
            /\ status' = [status EXCEPT ![j.mod] = "up"]
            /\ notices' = [notices EXCEPT ![j.about] = Withdraw(j.about)]
            /\ news' = news \ {j.about}
       ELSE UNCHANGED <<incidents, status, notices, news>>
  /\ UNCHANGED <<clock, phase, todo, queue, tickets, left, gone>>

-----------------------------------------------------------------------------
(* Somebody gets it fixed sooner. *)

\* mutant: half an hour is what is left even of less
SoonerOrLater(due, keeps) ==
  LET keep == IF due \div keeps < Floor THEN Floor ELSE due \div keeps
  IN ((keep + Tick - 1) \div Tick) * Tick

(* A share of what is left, no less than the floor, in whole ticks; and    *)
(* never more than was left.                                               *)
Sooner(due, keeps) ==
  LET keep == IF due \div keeps < Floor THEN Floor ELSE due \div keeps
      whole == ((keep + Tick - 1) \div Tick) * Tick
  IN IF whole < due THEN whole ELSE due

Brought(m, keeps) ==
  LET j == CHOOSE j \in Ends(m) : TRUE
  IN (queue \ {j}) \cup {[j EXCEPT !.due = Sooner(@, keeps)]}

(* Every open ticket about it jumps the queue. *)
Urgent(rows, m) ==
  [k \in 1 .. Len(rows) |->
     IF rows[k].mod = m /\ rows[k].status \in {"open", "triaged"}
       THEN [rows[k] EXCEPT !.severity = 3] ELSE rows[k]]

Pressable(m) ==
  OpenOn(m) # {} /\ ~incidents[Lowest(OpenOn(m))].escalated

(* escalate, once it has reached somebody who can fix it. An outage that   *)
(* ends in this very tick has no job left to move.                         *)
Press(m, about, rows) ==
  IF Pressable(m) /\ Ends(m) # {}
    THEN LET i == Lowest(OpenOn(m)) IN
         /\ incidents' = [incidents EXCEPT ![i].escalated = TRUE,
                                           ![i].hits = @ \cup {about}]
         /\ queue' = Brought(m, PressedKeeps)
         /\ tickets' = Urgent(rows, m)
    ELSE tickets' = rows /\ UNCHANGED <<incidents, queue>>

Prioritise(m, about) ==
  IF OpenOn(m) # {} /\ ~incidents[Lowest(OpenOn(m))].prioritised /\ Ends(m) # {}
    THEN LET i == Lowest(OpenOn(m)) IN
         /\ incidents' = [incidents EXCEPT ![i].prioritised = TRUE,
                                           ![i].hits = @ \cup {about}]
         /\ queue' = Brought(m, QueueKeeps)
    ELSE UNCHANGED <<incidents, queue>>

(* An engineer acts on it; anybody else has it to pass on, a tick later.   *)
Tell(m, a, phone, rows) ==
  IF a \in Engineers
    THEN Press(m, Lowest(OpenOn(m)), rows)
    ELSE /\ queue' = queue \cup
              {Planned("handoff", Tick, m, Lowest(OpenOn(m)), a, phone, 0)}
         /\ tickets' = rows
         /\ UNCHANGED incidents

RunHandoff(j) ==
  /\ Running(j, "handoff")
  /\ \/ UNCHANGED <<incidents, queue, tickets>>
     \/ /\ j.holder \notin left /\ Pressable(j.mod)
        /\ IF j.phone THEN Prioritise(j.mod, j.about) /\ UNCHANGED tickets
                      ELSE Press(j.mod, j.about, tickets)
  /\ UNCHANGED <<clock, phase, todo, status, news, notices, left, gone>>

-----------------------------------------------------------------------------
(* The rest of the work that is due: people leave, and the firm may fail.  *)

Leave(a) ==
  /\ phase = "due" /\ a \notin left
  /\ left' = left \cup {a}
  /\ UNCHANGED <<clock, phase, todo, status, incidents, news, queue, ready, notices,
                 tickets, gone>>

Fail ==
  /\ phase = "due" /\ ~gone
  /\ gone' = TRUE /\ left' = Agents
  /\ UNCHANGED <<clock, phase, todo, status, incidents, news, queue, ready, notices, tickets>>

-----------------------------------------------------------------------------
(* People meet. *)

(* Somebody who is stuck corners somebody who works there. *)
Corner(m, a) ==
  /\ phase = "meet" /\ status[m] = "down" /\ ~gone /\ a \notin left
  /\ Tell(m, a, FALSE, tickets)
  /\ UNCHANGED <<clock, phase, todo, status, news, ready, notices, left, gone>>

(* Somebody is told, while it is news, and knows now. *)
Hear(i, p) ==
  /\ phase = "meet" /\ i \in news /\ ~gone
  /\ p \in Uses[incidents[i].mod]
  /\ notices[i][p].ticket = NoTicket /\ notices[i][p].wait # 0
  /\ notices' = [notices EXCEPT ![i][p].wait = 0]
  /\ UNCHANGED <<clock, phase, todo, status, incidents, news, queue, ready, tickets, left,
                 gone>>

-----------------------------------------------------------------------------
(* The desk. Each of the support staff has a turn, and spends it on the    *)
(* oldest ticket nobody has looked at, or else on the most severe one.     *)

InState(s) == {k \in 1 .. Len(tickets) : tickets[k].status = s}

Worst ==
  LET top == {k \in InState("triaged") :
                \A l \in InState("triaged") : tickets[l].severity <= tickets[k].severity}
  IN Lowest(top)

Blocked(rows, i) ==
  Cardinality({k \in 1 .. Len(rows) : /\ rows[k].about = i /\ rows[k].severity >= 2
                                      /\ rows[k].status \in {"triaged", "answered"}})

(* _escalate_internally, after a triage that leaves these rows. *)
Enough(m, rows) ==
  IF status[m] = "down" /\ OpenOn(m) # {}
       /\ Blocked(rows, Lowest(OpenOn(m))) >= EnoughBlocked
    THEN Prioritise(m, Lowest(OpenOn(m)))
    ELSE UNCHANGED <<incidents, queue>>

Triage(a) ==
  LET k == Lowest(InState("open")) IN
  /\ phase = "support" /\ a \in todo /\ InState("open") # {}
  /\ \E severity \in {1, 2} :
       LET rows == [tickets EXCEPT ![k].status = "triaged", ![k].severity = severity] IN
       /\ tickets' = rows
       /\ Enough(tickets[k].mod, rows)
  /\ todo' = todo \ {a}
  /\ UNCHANGED <<clock, phase, status, news, ready, notices, left, gone>>

Answer(a) ==
  /\ phase = "support" /\ a \in todo
  /\ InState("open") = {} /\ InState("triaged") # {}
  /\ tickets' = [tickets EXCEPT ![Worst].status = "answered", ![Worst].age = 0]
  /\ todo' = todo \ {a}
  /\ UNCHANGED <<clock, phase, status, incidents, news, queue, ready, notices, left, gone>>

(* In a conversation, with nothing to do, or not now. *)
Pass(a) ==
  /\ phase = "support" /\ a \in todo
  /\ todo' = todo \ {a}
  /\ UNCHANGED <<clock, phase, status, incidents, news, queue, ready, notices, tickets,
                 left, gone>>

-----------------------------------------------------------------------------
(* Those who have noticed decide. Whether somebody has a ticket open       *)
(* already is read for everybody before anybody has filed one.             *)

Waiting ==
  {r \in Row : /\ r.about \in 1 .. Len(incidents) /\ incidents[r.about].open
               /\ notices[r.about][r.by].wait = 0
               /\ notices[r.about][r.by].ticket = NoTicket
               /\ r.free = \A k \in 1 .. Len(tickets) :
                             tickets[k].by = r.by => tickets[k].status = "closed"}

Recent(p, m) ==
  {k \in InState("closed") :
     tickets[k].by = p /\ tickets[k].mod = m /\ tickets[k].age <= ReopenWindow}

\* the last of them to be closed
Latest(p, m) ==
  Highest({k \in Recent(p, m) : \A l \in Recent(p, m) : tickets[k].age <= tickets[l].age})

\* mutant: a reopened ticket keeps what it was about
ReopenedAsItWas(k, i) == [tickets EXCEPT ![k].status = "triaged", ![k].age = 0]

Reopened(k, i) == [tickets EXCEPT ![k].status = "triaged", ![k].about = i, ![k].age = 0]

Filed(i, p) ==
  LET m == incidents[i].mod
  IN IF Recent(p, m) # {} THEN Reopened(Latest(p, m), i)
                          ELSE Append(tickets, NewTicket(p, m, i))

FiledAs(i, p) ==
  LET m == incidents[i].mod
  IN IF Recent(p, m) # {} THEN Latest(p, m) ELSE Len(tickets) + 1

(* File it or not; carry on, do it some other way, or ring the account     *)
(* manager. The same answer as yesterday is not something that happened.   *)
Consider(r, file, way) ==
  LET i == r.about
      p == r.by
      rows == IF file THEN Filed(i, p) ELSE tickets
      ring == way = "call" /\ notices[i][p].way # "call"
  IN /\ phase = "customers" /\ r \in todo
     /\ file => r.free /\ (Len(tickets) < MaxTickets \/ Recent(p, incidents[i].mod) # {})
     /\ way = "none" => notices[i][p].way = "none"
     /\ notices' = [notices EXCEPT ![i][p] = [notices[i][p] EXCEPT
                      !.way = way, !.ticket = IF file THEN FiledAs(i, p) ELSE @]]
     /\ \/ /\ ring
           /\ \E a \in Managers \ left : Tell(incidents[i].mod, a, TRUE, rows)
        \/ /\ ring => Managers \subseteq left
           /\ tickets' = rows
           /\ UNCHANGED <<incidents, queue>>
     /\ todo' = todo \ {r}
     /\ UNCHANGED <<clock, phase, status, news, ready, left, gone>>

-----------------------------------------------------------------------------
(* An answered ticket ends: confirmed by its reporter, or timed out.       *)

\* mutant: nothing times out
TimedOutNever(k) == FALSE

TimedOut(k) == tickets[k].age >= Timeout

FollowUp(k) ==
  /\ phase = "followups" /\ k \in todo
  /\ \/ /\ TimedOut(k) \/ status[tickets[k].mod] = "up"
        /\ tickets' = [tickets EXCEPT ![k].status = "closed", ![k].age = 0]
     \/ ~TimedOut(k) /\ UNCHANGED tickets
  /\ todo' = todo \ {k}
  /\ UNCHANGED <<clock, phase, status, incidents, news, queue, ready, notices, left, gone>>

-----------------------------------------------------------------------------
(* From one phase to the next, and from one tick to the next.              *)

Office == Calendar[clock].office

Go(from, to, work) ==
  /\ phase = from /\ phase' = to /\ todo' = work
  /\ UNCHANGED <<clock, status, incidents, news, queue, ready, notices, tickets, left, gone>>

Proceed ==
  \/ ready = {} /\ Go("due", IF Office THEN "hazard" ELSE "meet", {})
  \/ Go("hazard", "meet", {})
  \/ Office /\ Go("meet", "support", Support)
  \/ todo = {} /\ Go("support", "customers", Waiting)
  \/ todo = {} /\ Go("customers", "followups", InState("answered"))

Older(k) ==
  IF tickets[k].status \in {"open", "triaged"} THEN 0
  ELSE IF tickets[k].age + Calendar[clock].gap > MaxAge THEN MaxAge
  ELSE tickets[k].age + Calendar[clock].gap

Nearer(wait) == IF wait > Calendar[clock].gap THEN wait - Calendar[clock].gap ELSE 0

(* The clock moves to the next tick at which something is open, and what   *)
(* is due by then is taken off the queue before any of it runs.            *)
Advance ==
  LET moved == {[j EXCEPT !.due = @ - Calendar[clock].gap] : j \in queue} IN
  /\ IF Office THEN phase = "followups" /\ todo = {} ELSE phase = "meet"
  /\ clock' = (clock % Len(Calendar)) + 1
  /\ phase' = "due" /\ todo' = {}
  /\ ready' = {j \in moved : j.due <= 0}
  /\ queue' = {j \in moved : j.due > 0}
  /\ notices' = [i \in Ids |-> [p \in People |->
                   IF notices[i][p].wait = NoNotice THEN notices[i][p]
                   ELSE [notices[i][p] EXCEPT !.wait = Nearer(@)]]]
  /\ tickets' = [k \in 1 .. Len(tickets) |-> [tickets[k] EXCEPT !.age = Older(k)]]
  /\ UNCHANGED <<status, incidents, news, left, gone>>

Next ==
  \/ \E j \in ready : RunStart(j) \/ RunEnd(j) \/ RunHandoff(j)
  \/ \E m \in Modules, after \in Afters, length \in Lengths : Plan(m, after, length)
  \/ \E a \in Agents : Leave(a) \/ Triage(a) \/ Answer(a) \/ Pass(a)
  \/ Fail
  \/ \E m \in Modules : Hazard(m) \/ \E a \in Agents : Corner(m, a)
  \/ \E i \in Ids, p \in People : Hear(i, p)
  \/ \E r \in todo, file \in BOOLEAN, way \in Ways : Consider(r, file, way)
  \/ \E k \in TicketIds : FollowUp(k)
  \/ Proceed
  \/ Advance

Spec == Init /\ [][Next]_vars

(* The daemon keeps ticking, and a tick is finite. *)
FairSpec == Spec /\ WF_vars(Next)

-----------------------------------------------------------------------------
(* A module is down exactly while one outage of it is open, and that       *)
(* outage has one job ahead of it that ends it, whoever moved the job.     *)
OneOutageAtATime ==
  \A m \in Modules :
    /\ Cardinality(OpenOn(m)) = IF status[m] = "down" THEN 1 ELSE 0
    /\ LET ends == {j \in queue \cup ready : j.kind = "end" /\ j.mod = m} IN
         {j.about : j \in ends} = OpenOn(m) /\ Cardinality(ends) = Cardinality(OpenOn(m))

(* Nothing anybody does about an outage makes it longer: the job that ends *)
(* it is never lost or put back, and it is taken off the queue only to run. *)
NeverLonger ==
  [][\A j \in queue : j.kind = "end" =>
       \E l \in queue' \cup ready' : l.kind = "end" /\ l.about = j.about /\ l.due <= j.due]_vars

(* Nobody finds out about an outage that is over: no notice of one is made *)
(* or brought forward, and none is left that was still to come.            *)
NobodyNoticesAfter ==
  [][\A i \in 1 .. Len(incidents) : ~incidents'[i].open =>
       \A p \in People :
         notices'[i][p].wait # NoNotice => notices'[i][p].wait = 0 /\ notices[i][p].wait = 0]_vars

(* Nothing anybody has in hand about an outage is ever taken for another:  *)
(* a complaint that is passed on by hand a tick later finds the outage it  *)
(* was made about, and while an outage is open whoever has reported it has *)
(* a ticket of their own that is about it, reopened ones included.         *)
EverythingIsAboutItsOutage ==
  /\ \A i \in 1 .. Len(incidents) : incidents[i].hits \subseteq {i}
  /\ \A i \in 1 .. Len(incidents), p \in People :
       LET k == notices[i][p].ticket IN
       incidents[i].open /\ k # NoTicket => tickets[k].about = i /\ tickets[k].by = p

(* Every outage ends, and every ticket that was answered is closed.        *)
EverythingEnds ==
  /\ \A i \in Ids :
       i \in DOMAIN incidents /\ incidents[i].open ~> i \in DOMAIN incidents /\ ~incidents[i].open
  /\ \A k \in TicketIds :
       k \in DOMAIN tickets /\ tickets[k].status = "answered" ~>
         k \in DOMAIN tickets /\ tickets[k].status = "closed"
=============================================================================
