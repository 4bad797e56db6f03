---------------------------- MODULE OutagesProofs ----------------------------
(***************************************************************************)
(* Proofs about Outages, for any modules, people, staff, calendar and      *)
(* lengths, and any number of outages and tickets:                         *)
(*   EndInv      an outage that is open has exactly one job that ends it,  *)
(*               on the queue or taken off it to run;                      *)
(*   HandoffInv  a complaint on its way finds the outage it is about, or   *)
(*               none: no outage begins between the end of that one and    *)
(*               the complaint;                                            *)
(*   NoticeInv   nobody is still to notice an outage that is over;         *)
(*   TicketInv   whoever has reported an open outage has a ticket about it.*)
(***************************************************************************)
EXTENDS Outages, SequenceTheorems, FiniteSetTheorems, FunctionTheorems, TLAPS

Incident ==
  [mod : Modules, open : BOOLEAN, escalated : BOOLEAN, prioritised : BOOLEAN,
   hits : SUBSET Nat]

Ticket ==
  [by : People, mod : Modules, about : Nat, severity : Nat,
   status : {"open", "triaged", "answered", "closed"}, age : Nat]

Notice == [wait : Nat \cup {NoNotice}, ticket : Nat, way : Ways]

Job ==
  [kind : {"handoff", "end", "start"}, due : Int, mod : Modules, about : Nat,
   holder : Agents \cup {Nobody}, phone : BOOLEAN, length : Nat]

Jobs == queue \cup ready

TypeOK ==
  /\ clock \in 1 .. Len(Calendar)
  /\ phase \in {"due", "hazard", "meet", "support", "customers", "followups"}
  /\ status \in [Modules -> {"up", "down"}]
  /\ incidents \in Seq(Incident)
  /\ queue \subseteq Job /\ ready \subseteq Job
  /\ notices \in [Ids -> [People -> Notice]]
  /\ tickets \in Seq(Ticket)

\* Due work is taken off the queue at the start of a tick and done before anything
\* else, and there is room for every outage that is planned.
RoomInv ==
  /\ IsFiniteSet(queue) /\ IsFiniteSet(ready)
  /\ ready # {} => phase = "due"
  /\ Len(incidents) + Cardinality(Starts(queue)) + Cardinality(Starts(ready))
       <= MaxIncidents

\* One job ends each open outage and no other; a module is down while it has one open.
EndInv ==
  /\ \A j \in Jobs : j.kind = "end" =>
       /\ j.about \in 1 .. Len(incidents)
       /\ incidents[j.about].open /\ incidents[j.about].mod = j.mod
  /\ \A j, l \in Jobs : j.kind = "end" /\ l.kind = "end" /\ j.about = l.about => j = l
  /\ \A i \in 1 .. Len(incidents) : incidents[i].open =>
       /\ status[incidents[i].mod] = "down"
       /\ \E j \in Jobs : j.kind = "end" /\ j.about = i
  /\ \A i, k \in 1 .. Len(incidents) :
       incidents[i].open /\ incidents[k].open /\ incidents[i].mod = incidents[k].mod => i = k
  /\ \A m \in Modules : status[m] = "down" =>
       \E i \in 1 .. Len(incidents) : incidents[i].open /\ incidents[i].mod = m

\* What is on the queue is for later, and a start for a whole number of ticks later.
DueInv ==
  /\ \A j \in queue : j.kind = "end" => j.due > 0
  /\ \A j \in ready : j.due <= 0
  /\ \A j \in queue : j.kind = "start" => \E n \in 0 .. 100 : j.due = n * Tick
  /\ \A j \in Jobs : j.kind = "start" => j.length > 0

\* A complaint on its way is due before any start that could come between it and the
\* end of its outage; a start that comes earlier comes while that outage is open.
HandoffInv ==
  /\ \A h \in Jobs : h.kind = "handoff" =>
       h.about \in 1 .. Len(incidents) /\ incidents[h.about].mod = h.mod
  /\ \A h \in queue : h.kind = "handoff" =>
       /\ phase \in {"meet", "support", "customers", "followups"}
       /\ h.due = Tick /\ incidents[h.about].open
  /\ \A h \in ready : h.kind = "handoff" =>
       /\ ~incidents[h.about].open =>
            \A i \in 1 .. Len(incidents) : incidents[i].mod = h.mod => ~incidents[i].open
       /\ \A s \in ready : s.kind = "start" /\ s.mod = h.mod /\ s.due < h.due =>
            /\ incidents[h.about].open
            /\ \A e \in ready : e.kind = "end" /\ e.mod = h.mod => s.due < e.due

HitsInv == \A i \in 1 .. Len(incidents) : incidents[i].hits \subseteq {i}

\* Nobody is still to notice an outage that is over, nor one that has not begun.
NoticeInv ==
  /\ \A i \in Ids, p \in People : i > Len(incidents) \/ ~incidents[i].open =>
       notices[i][p].wait \in {NoNotice, 0}
  /\ \A i \in Ids, p \in People : i > Len(incidents) => notices[i][p].ticket = NoTicket
  /\ \A i \in Ids, p \in People : notices[i][p].ticket # NoTicket => notices[i][p].wait = 0
  /\ \A i \in news : i \in 1 .. Len(incidents) /\ incidents[i].open

\* Who is still to decide has noticed an outage that is open and has not reported it.
TodoInv ==
  phase = "customers" =>
    /\ todo \subseteq Row
    /\ \A r \in todo : /\ r.about \in 1 .. Len(incidents) /\ incidents[r.about].open
                       /\ notices[r.about][r.by].wait = 0
                       /\ notices[r.about][r.by].ticket = NoTicket
    /\ \A r, q \in todo : r.about = q.about /\ r.by = q.by => r = q

TicketInv ==
  /\ \A k \in 1 .. Len(tickets) : tickets[k].about # 0 =>
       /\ tickets[k].about \in 1 .. Len(incidents)
       /\ incidents[tickets[k].about].mod = tickets[k].mod
  /\ \A i \in Ids, p \in People :
       LET k == notices[i][p].ticket IN
       k # NoTicket =>
         /\ k \in 1 .. Len(tickets)
         /\ i \in 1 .. Len(incidents) /\ incidents[i].open =>
              tickets[k].about = i /\ tickets[k].by = p

OutageInv ==
  /\ TypeOK /\ RoomInv /\ EndInv /\ DueInv /\ HandoffInv /\ HitsInv
  /\ NoticeInv /\ TodoInv /\ TicketInv

-----------------------------------------------------------------------------
\* A set of numbers that is not empty has a lowest one.
LEMMA LowestIsLowest ==
  ASSUME NEW S \in SUBSET Nat, S # {}
  PROVE  Lowest(S) \in S /\ \A l \in S : Lowest(S) <= l
<1>1. PICK i \in S : \A l \in S : <<l, i>> \notin OpToRel(<, Nat)
  BY NatLessThanWellFounded, WFMin, Zenon
<1>2. \A l \in S : ~(l < i)
  <2> TAKE l \in S
  <2>1. <<l, i>> \in Nat \X Nat
    OBVIOUS
  <2>2. l < i => <<l, i>> \in OpToRel(<, Nat)
    BY <2>1 DEF OpToRel
  <2> QED
    BY <1>1, <2>2
<1>3. \A l \in S : i <= l
  BY <1>2
<1> QED
  BY <1>3 DEF Lowest

\* A set of numbers below a bound that is not empty has a highest one.
LEMMA HighestIsHighest ==
  ASSUME NEW n \in Nat, NEW S \in SUBSET (1 .. n), S # {}
  PROVE  Highest(S) \in S
<1> DEFINE T == {n - i : i \in S}
<1>1. T \in SUBSET Nat /\ T # {}
  <2>1. \A i \in S : i \in 1 .. n /\ n - i \in Nat
    OBVIOUS
  <2> QED
    BY <2>1
<1>2. Lowest(T) \in T /\ \A l \in T : Lowest(T) <= l
  BY <1>1, LowestIsLowest
<1>3. PICK i \in S : Lowest(T) = n - i
  BY <1>2
<1>4. \A l \in S : l <= i
  <2> TAKE l \in S
  <2>1. n - i <= n - l
    BY <1>2, <1>3
  <2> QED
    BY <2>1
<1> QED
  BY <1>4 DEF Highest

\* A product of positive numbers is one.
LEMMA Product ==
  ASSUME NEW a \in Nat \ {0}, NEW b \in Nat \ {0}
  PROVE  a * b \in Nat \ {0} /\ b <= a * b
OBVIOUS

\* The constants, as the proofs use them.
LEMMA Parameters ==
  /\ Support \subseteq Agents /\ Engineers \subseteq Agents /\ Managers \subseteq Agents
  /\ Nobody \notin Agents
  /\ Tick \in Nat \ {0} /\ Floor \in Nat \ {0}
  /\ PressedKeeps \in Nat \ {0} /\ QueueKeeps \in Nat \ {0}
  /\ Lengths \subseteq Nat \ {0} /\ Delays \subseteq Nat
  /\ Timeout \in Nat /\ ReopenWindow \in Nat /\ EnoughBlocked \in Nat
  /\ MaxIncidents \in Nat /\ MaxTickets \in Nat
BY OutagesAssumption

\* A quotient, as the solver needs it said.
LEMMA Quotient ==
  ASSUME NEW w \in Nat \ {0}, NEW x \in Nat
  PROVE  x \div w \in Nat /\ w * (x \div w) <= x /\ x < w * ((x \div w) + 1)
OBVIOUS

\* However it is pressed, an outage has something left to run, and never more than it had.
LEMMA SoonerIsSooner ==
  ASSUME NEW due \in Nat \ {0}, NEW keeps \in Nat \ {0}
  PROVE  Sooner(due, keeps) \in Nat \ {0} /\ Sooner(due, keeps) <= due
<1> USE Parameters
<1> DEFINE keep == IF due \div keeps < Floor THEN Floor ELSE due \div keeps
           up == keep + Tick - 1
<1>1. due \div keeps \in Nat
  BY Quotient
<1>2. keep \in Nat \ {0}
  BY <1>1
<1>3. up \in Nat /\ up >= Tick
  BY <1>2
<1> HIDE DEF keep, up
<1>4. up \div Tick \in Nat \ {0}
  <2>1. up < Tick * ((up \div Tick) + 1)
    BY <1>3, Quotient
  <2>2. up \div Tick \in Nat
    BY <1>3, Quotient
  <2> QED
    BY <1>3, <2>1, <2>2
<1>5. (up \div Tick) * Tick \in Nat \ {0}
  BY <1>4, Product
<1> DEFINE whole == (up \div Tick) * Tick
<1>6. Sooner(due, keeps) = IF whole < due THEN whole ELSE due
  BY DEF Sooner, up, keep
<1> HIDE DEF whole
<1>7. whole \in Nat \ {0}
  BY <1>5 DEF whole
<1> QED
  BY <1>6, <1>7

-----------------------------------------------------------------------------
(* What a step may do to the outages, the queue and the tickets.           *)

SameOutages ==
  /\ Len(incidents') = Len(incidents)
  /\ \A i \in 1 .. Len(incidents) :
       /\ incidents'[i].mod = incidents[i].mod
       /\ incidents'[i].open = incidents[i].open
       /\ incidents'[i].hits \subseteq incidents[i].hits \cup {i}

BringsForward ==
  \E j \in queue, due \in Nat \ {0} :
    /\ j.kind = "end" /\ due <= j.due
    /\ queue' = (queue \ {j}) \cup {[j EXCEPT !.due = due]}

PassesOn ==
  \E m \in Modules, a \in Agents, phone \in BOOLEAN :
    /\ OpenOn(m) # {}
    /\ queue' = queue \cup {Planned("handoff", Tick, m, Lowest(OpenOn(m)), a, phone, 0)}

SameTickets(rows) ==
  /\ Len(tickets') = Len(rows)
  /\ \A k \in 1 .. Len(rows) :
       /\ tickets'[k].by = rows[k].by
       /\ tickets'[k].mod = rows[k].mod
       /\ tickets'[k].about = rows[k].about

\* Outages are rows, numbered from one.
LEMMA OutageRows ==
  ASSUME TypeOK
  PROVE  /\ Len(incidents) \in Nat /\ DOMAIN incidents = 1 .. Len(incidents)
         /\ \A i \in 1 .. Len(incidents) :
              incidents[i] \in Incident /\ incidents[i].mod \in Modules
<1>1. \A i \in 1 .. Len(incidents) : incidents[i] \in Incident
  BY ElementOfSeq DEF TypeOK
<1> QED
  BY <1>1, LenProperties DEF TypeOK, Incident

\* No module has two open outages.
LEMMA OneIsOpen ==
  ASSUME TypeOK, EndInv, NEW m \in Modules, OpenOn(m) # {}
  PROVE  /\ Lowest(OpenOn(m)) \in 1 .. Len(incidents)
         /\ incidents[Lowest(OpenOn(m))].open /\ incidents[Lowest(OpenOn(m))].mod = m
         /\ OpenOn(m) = {Lowest(OpenOn(m))}
<1>1. OpenOn(m) \in SUBSET Nat
  BY OutageRows DEF OpenOn
<1>2. Lowest(OpenOn(m)) \in OpenOn(m)
  BY <1>1, LowestIsLowest
<1>3. \A i \in OpenOn(m) : i = Lowest(OpenOn(m))
  BY <1>2 DEF OpenOn, EndInv
<1> QED
  BY <1>2, <1>3 DEF OpenOn

\* What is passed on is a job about the outage that is open.
LEMMA HandedOn ==
  ASSUME TypeOK, EndInv, NEW m \in Modules, NEW a \in Agents, NEW phone \in BOOLEAN,
         OpenOn(m) # {}
  PROVE  LET j == Planned("handoff", Tick, m, Lowest(OpenOn(m)), a, phone, 0) IN
         /\ j \in Job /\ j.kind = "handoff" /\ j.mod = m /\ j.due = Tick
         /\ j.about = Lowest(OpenOn(m))
<1>1. Lowest(OpenOn(m)) \in Nat
  BY OneIsOpen, OutageRows
<1> QED
  BY <1>1, OutagesAssumption DEF Planned, Job

\* A job that is brought forward is still a job, and one of the queue.
LEMMA BroughtIsSooner ==
  ASSUME TypeOK, DueInv, NEW m \in Modules, NEW keeps \in Nat \ {0}, Ends(m) # {},
         queue' = Brought(m, keeps)
  PROVE  BringsForward
<1> DEFINE j == CHOOSE j \in Ends(m) : TRUE
<1>1. j \in queue /\ j.kind = "end"
  BY DEF Ends
<1>2. j.due \in Nat \ {0}
  BY <1>1 DEF TypeOK, DueInv, Job
<1>3. Sooner(j.due, keeps) \in Nat \ {0} /\ Sooner(j.due, keeps) <= j.due
  BY <1>2, SoonerIsSooner
<1>4. queue' = (queue \ {j}) \cup {[j EXCEPT !.due = Sooner(j.due, keeps)]}
  BY DEF Brought
<1> QED
  BY <1>1, <1>3, <1>4 DEF BringsForward

\* Rows that one field of is written are rows.
LEMMA TicketWritten ==
  ASSUME NEW r \in Ticket, NEW s \in Nat
  PROVE  /\ [r EXCEPT !.severity = s] \in Ticket
         /\ [r EXCEPT !.severity = s].by = r.by
         /\ [r EXCEPT !.severity = s].mod = r.mod
         /\ [r EXCEPT !.severity = s].about = r.about
BY DEF Ticket

LEMMA OutageWritten ==
  ASSUME NEW r \in Incident, NEW i \in Nat
  PROVE  /\ LET s == [r EXCEPT !.escalated = TRUE, !.hits = @ \cup {i}]
            IN s \in Incident /\ s.mod = r.mod /\ s.open = r.open /\ s.hits = r.hits \cup {i}
         /\ LET s == [r EXCEPT !.prioritised = TRUE, !.hits = @ \cup {i}]
            IN s \in Incident /\ s.mod = r.mod /\ s.open = r.open /\ s.hits = r.hits \cup {i}
BY DEF Incident

\* One outage is marked, by a complaint about it.
LEMMA MarkedIsTheSame ==
  ASSUME TypeOK, NEW i \in 1 .. Len(incidents),
         \/ incidents' = [incidents EXCEPT ![i].escalated = TRUE, ![i].hits = @ \cup {i}]
         \/ incidents' = [incidents EXCEPT ![i].prioritised = TRUE, ![i].hits = @ \cup {i}]
  PROVE  SameOutages /\ incidents' \in Seq(Incident)
<1> DEFINE row == incidents[i]
           escalated == [row EXCEPT !.escalated = TRUE, !.hits = @ \cup {i}]
           prioritised == [row EXCEPT !.prioritised = TRUE, !.hits = @ \cup {i}]
<1>1. /\ escalated \in Incident /\ escalated.mod = row.mod
      /\ escalated.open = row.open /\ escalated.hits = row.hits \cup {i}
      /\ prioritised \in Incident /\ prioritised.mod = row.mod
      /\ prioritised.open = row.open /\ prioritised.hits = row.hits \cup {i}
  <2>1. row \in Incident /\ i \in Nat
    BY OutageRows
  <2> HIDE DEF row
  <2> QED
    BY <2>1, OutageWritten
<1>2. \/ incidents' = [incidents EXCEPT ![i] = escalated]
      \/ incidents' = [incidents EXCEPT ![i] = prioritised]
  OBVIOUS
<1> HIDE DEF escalated, prioritised
<1>3. DOMAIN incidents' = 1 .. Len(incidents) /\ Len(incidents') = Len(incidents)
  BY <1>2, OutageRows DEF TypeOK
<1>4. ASSUME NEW k \in 1 .. Len(incidents)
      PROVE  /\ incidents'[k] \in Incident
             /\ incidents'[k].mod = incidents[k].mod
             /\ incidents'[k].open = incidents[k].open
             /\ incidents'[k].hits \subseteq incidents[k].hits \cup {k}
  BY <1>1, <1>2, OutageRows
<1>5. incidents' = [k \in 1 .. Len(incidents) |-> incidents'[k]]
  BY <1>2, OutageRows DEF TypeOK
<1>6. incidents' \in Seq(Incident)
  BY <1>4, <1>5, OutageRows
<1> QED
  BY <1>3, <1>4, <1>6 DEF SameOutages

\* Making tickets urgent changes nothing that says whose they are.
LEMMA UrgentIsTheSame ==
  ASSUME NEW rows \in Seq(Ticket), NEW m, tickets' = Urgent(rows, m) \/ tickets' = rows
  PROVE  SameTickets(rows) /\ tickets' \in Seq(Ticket)
<1>1. CASE tickets' = rows
  BY <1>1 DEF SameTickets
<1>2. CASE tickets' = Urgent(rows, m)
  <2>1. /\ Len(rows) \in Nat /\ Len(tickets') = Len(rows)
        /\ tickets' = [k \in 1 .. Len(rows) |-> tickets'[k]]
    BY <1>2 DEF Urgent
  <2>2. ASSUME NEW k \in 1 .. Len(rows)
        PROVE  /\ tickets'[k] \in Ticket
               /\ tickets'[k].by = rows[k].by
               /\ tickets'[k].mod = rows[k].mod
               /\ tickets'[k].about = rows[k].about
    <3>1. rows[k] \in Ticket
      BY ElementOfSeq
    <3>2. tickets'[k] = rows[k] \/ tickets'[k] = [rows[k] EXCEPT !.severity = 3]
      BY <1>2 DEF Urgent
    <3>3. CASE tickets'[k] = [rows[k] EXCEPT !.severity = 3]
      <4>1. 3 \in Nat
        OBVIOUS
      <4> QED
        BY <3>1, <3>3, <4>1, TicketWritten
    <3> QED
      BY <3>1, <3>2, <3>3
  <2>3. tickets' \in Seq(Ticket)
    BY <2>1, <2>2
  <2> QED
    BY <2>1, <2>2, <2>3 DEF SameTickets
<1> QED
  BY <1>1, <1>2

Pushes ==
  SameOutages /\ incidents' \in Seq(Incident) /\ (queue' = queue \/ BringsForward)

Acts == Pushes \/ (SameOutages /\ incidents' \in Seq(Incident) /\ PassesOn)

LEMMA NothingPushes ==
  ASSUME TypeOK, UNCHANGED <<incidents, queue>>
  PROVE  Pushes
BY DEF Pushes, SameOutages, TypeOK

\* Whoever presses does so about the one outage that is open.
LEMMA PressPushes ==
  ASSUME TypeOK, EndInv, DueInv, NEW m \in Modules, NEW rows \in Seq(Ticket),
         NEW about, OpenOn(m) # {} => about = Lowest(OpenOn(m)), Press(m, about, rows)
  PROVE  Pushes /\ SameTickets(rows) /\ tickets' \in Seq(Ticket)
<1> USE Parameters
<1>1. CASE Pressable(m) /\ Ends(m) # {}
  <2> DEFINE i == Lowest(OpenOn(m))
  <2>1. i \in 1 .. Len(incidents) /\ about = i
    BY <1>1, OneIsOpen DEF Pressable
  <2>2. /\ incidents' = [incidents EXCEPT ![i].escalated = TRUE, ![i].hits = @ \cup {about}]
        /\ queue' = Brought(m, PressedKeeps)
        /\ tickets' = Urgent(rows, m)
    BY <1>1 DEF Press
  <2> HIDE DEF i
  <2>3. SameOutages /\ incidents' \in Seq(Incident)
    BY <2>1, <2>2, MarkedIsTheSame
  <2>4. BringsForward
    BY <1>1, <2>2, BroughtIsSooner
  <2> QED
    BY <2>2, <2>3, <2>4, UrgentIsTheSame DEF Pushes
<1>2. CASE ~(Pressable(m) /\ Ends(m) # {})
  <2>1. tickets' = rows /\ UNCHANGED <<incidents, queue>>
    BY <1>2 DEF Press
  <2> QED
    BY <2>1, NothingPushes, UrgentIsTheSame
<1> QED
  BY <1>1, <1>2

LEMMA PrioritisePushes ==
  ASSUME TypeOK, EndInv, DueInv, NEW m \in Modules,
         NEW about, OpenOn(m) # {} => about = Lowest(OpenOn(m)), Prioritise(m, about)
  PROVE  Pushes
<1> USE Parameters
<1> DEFINE i == Lowest(OpenOn(m))
<1>1. CASE OpenOn(m) # {} /\ ~incidents[i].prioritised /\ Ends(m) # {}
  <2>1. i \in 1 .. Len(incidents) /\ about = i
    BY <1>1, OneIsOpen
  <2>2. /\ incidents' = [incidents EXCEPT ![i].prioritised = TRUE, ![i].hits = @ \cup {about}]
        /\ queue' = Brought(m, QueueKeeps)
    BY <1>1 DEF Prioritise
  <2> HIDE DEF i
  <2>3. SameOutages /\ incidents' \in Seq(Incident)
    BY <2>1, <2>2, MarkedIsTheSame
  <2>4. BringsForward
    BY <1>1, <2>2, BroughtIsSooner
  <2> QED
    BY <2>3, <2>4 DEF Pushes
<1>2. CASE ~(OpenOn(m) # {} /\ ~incidents[i].prioritised /\ Ends(m) # {})
  BY <1>2, NothingPushes DEF Prioritise
<1> QED
  BY <1>1, <1>2

LEMMA TellActs ==
  ASSUME TypeOK, EndInv, DueInv, NEW m \in Modules, NEW rows \in Seq(Ticket), OpenOn(m) # {},
         NEW a \in Agents, NEW phone \in BOOLEAN, Tell(m, a, phone, rows)
  PROVE  Acts /\ SameTickets(rows) /\ tickets' \in Seq(Ticket)
<1>1. CASE a \in Engineers
  <2>1. Press(m, Lowest(OpenOn(m)), rows)
    BY <1>1 DEF Tell
  <2> QED
    BY <2>1, PressPushes DEF Acts
<1>2. CASE a \notin Engineers
  <2>1. /\ queue' = queue \cup {Planned("handoff", Tick, m, Lowest(OpenOn(m)), a, phone, 0)}
        /\ tickets' = rows /\ UNCHANGED incidents
    BY <1>2 DEF Tell
  <2>2. PassesOn
    BY <2>1 DEF PassesOn
  <2>3. SameOutages /\ incidents' \in Seq(Incident)
    BY <2>1 DEF SameOutages, TypeOK
  <2> QED
    BY <2>1, <2>2, <2>3, UrgentIsTheSame DEF Acts
<1> QED
  BY <1>1, <1>2

-----------------------------------------------------------------------------
(* EndInv *)

\* What ends an outage has the fields of a job.
LEMMA JobFields ==
  ASSUME NEW j \in Job, NEW due \in Int
  PROVE  /\ j.due \in Int /\ j.mod \in Modules /\ j.about \in Nat /\ j.length \in Nat
         /\ j.kind \in {"handoff", "end", "start"} /\ j.phone \in BOOLEAN
         /\ [j EXCEPT !.due = due] \in Job
         /\ [j EXCEPT !.due = due].kind = j.kind /\ [j EXCEPT !.due = due].mod = j.mod
         /\ [j EXCEPT !.due = due].about = j.about /\ [j EXCEPT !.due = due].due = due
         /\ [j EXCEPT !.due = due].length = j.length
         /\ [j EXCEPT !.due = due].holder = j.holder /\ [j EXCEPT !.due = due].phone = j.phone
BY DEF Job

\* The same jobs end the same outages, if what changes among them is when.
LEMMA SameEnds ==
  ASSUME TypeOK, EndInv, SameOutages, UNCHANGED status,
         \A j \in Jobs' : j.kind = "end" =>
           \E l \in Jobs : l.kind = "end" /\ l.about = j.about /\ l.mod = j.mod,
         \A j, l \in Jobs' : j.kind = "end" /\ l.kind = "end" /\ j.about = l.about => j = l,
         \A l \in Jobs : l.kind = "end" =>
           \E j \in Jobs' : j.kind = "end" /\ j.about = l.about
  PROVE  EndInv'
<1>0. Len(incidents') = Len(incidents)
  BY DEF SameOutages
<1>1. \A j \in Jobs' : j.kind = "end" =>
        /\ j.about \in 1 .. Len(incidents')
        /\ incidents'[j.about].open /\ incidents'[j.about].mod = j.mod
  BY DEF EndInv, SameOutages
<1>2. ASSUME NEW i \in 1 .. Len(incidents'), incidents'[i].open
      PROVE  /\ status'[incidents'[i].mod] = "down"
             /\ \E j \in Jobs' : j.kind = "end" /\ j.about = i
  BY <1>0, <1>2 DEF EndInv, SameOutages
<1>3. ASSUME NEW i \in 1 .. Len(incidents'), NEW k \in 1 .. Len(incidents'),
             incidents'[i].open, incidents'[k].open, incidents'[i].mod = incidents'[k].mod
      PROVE  i = k
  BY <1>0, <1>3 DEF EndInv, SameOutages
<1>4. ASSUME NEW m \in Modules, status'[m] = "down"
      PROVE  \E i \in 1 .. Len(incidents') : incidents'[i].open /\ incidents'[i].mod = m
  BY <1>0, <1>4 DEF EndInv, SameOutages
<1> QED
  BY <1>1, <1>2, <1>3, <1>4 DEF EndInv

\* Nothing that ends an outage comes or goes.
NoEndMoves ==
  \/ UNCHANGED <<queue, ready>>
  \/ UNCHANGED queue /\ \E j \in ready : j.kind # "end" /\ ready' = ready \ {j}
  \/ UNCHANGED ready /\ \E j \in Job : j.kind # "end" /\ queue' = queue \cup {j}

LEMMA NoEndMovesIsSafe ==
  ASSUME TypeOK, EndInv, SameOutages, UNCHANGED status, NoEndMoves
  PROVE  EndInv'
<1>1. \A j \in Jobs' : j.kind = "end" => j \in Jobs
  BY DEF NoEndMoves, Jobs
<1>2. \A j \in Jobs : j.kind = "end" => j \in Jobs'
  BY DEF NoEndMoves, Jobs
<1> QED
  BY <1>1, <1>2, SameEnds DEF EndInv

\* An end that is brought forward ends the same outage.
LEMMA ForwardIsSafe ==
  ASSUME TypeOK, EndInv, DueInv, SameOutages, UNCHANGED status, BringsForward,
         ready' = ready \/ \E h \in ready : h.kind # "end" /\ ready' = ready \ {h}
  PROVE  EndInv'
<1>1. PICK j \in queue, due \in Nat \ {0} :
        j.kind = "end" /\ queue' = (queue \ {j}) \cup {[j EXCEPT !.due = due]}
  BY DEF BringsForward
<1> DEFINE l == [j EXCEPT !.due = due]
<1>2. l.kind = "end" /\ l.about = j.about /\ l.mod = j.mod
  BY <1>1, JobFields DEF TypeOK
<1> HIDE DEF l
<1>3. j \notin ready
  <2>1. j.due \in Int
    BY <1>1 DEF TypeOK, Job
  <2>2. j.due > 0
    BY <1>1 DEF DueInv
  <2> QED
    BY <2>1, <2>2 DEF DueInv
<1>4. \A k \in Jobs' : k.kind = "end" => k = l \/ (k \in Jobs /\ k # j)
  BY <1>1, <1>3 DEF Jobs, l
<1>5. \A k \in Jobs : k.kind = "end" => k = j \/ k \in Jobs'
  BY <1>1 DEF Jobs, l
<1>6. j \in Jobs /\ l \in Jobs'
  BY <1>1 DEF Jobs, l
<1>7. \A k \in Jobs' : k.kind = "end" =>
        \E i \in Jobs : i.kind = "end" /\ i.about = k.about /\ i.mod = k.mod
  BY <1>1, <1>2, <1>4, <1>6
<1>8. \A i, k \in Jobs' : i.kind = "end" /\ k.kind = "end" /\ i.about = k.about => i = k
  BY <1>1, <1>2, <1>4, <1>6 DEF EndInv
<1>9. \A k \in Jobs : k.kind = "end" => \E i \in Jobs' : i.kind = "end" /\ i.about = k.about
  BY <1>2, <1>5, <1>6
<1> QED
  BY <1>7, <1>8, <1>9, SameEnds

LEMMA PushesKeepEnds ==
  ASSUME TypeOK, EndInv, DueInv, Pushes, UNCHANGED status,
         ready' = ready \/ \E h \in ready : h.kind # "end" /\ ready' = ready \ {h}
  PROVE  EndInv'
<1>1. CASE queue' = queue
  BY <1>1, NoEndMovesIsSafe DEF Pushes, NoEndMoves
<1>2. CASE BringsForward
  BY <1>2, ForwardIsSafe DEF Pushes
<1> QED
  BY <1>1, <1>2 DEF Pushes

LEMMA ActsKeepEnds ==
  ASSUME TypeOK, EndInv, DueInv, Acts, UNCHANGED <<status, ready>>
  PROVE  EndInv'
<1>1. CASE Pushes
  BY <1>1, PushesKeepEnds
<1>2. CASE SameOutages /\ PassesOn
  <2>1. PICK j \in Job : j.kind = "handoff" /\ queue' = queue \cup {j}
    BY <1>2, HandedOn DEF PassesOn
  <2> QED
    BY <1>2, <2>1, NoEndMovesIsSafe DEF NoEndMoves
<1> QED
  BY <1>1, <1>2 DEF Acts

\* What an outage that begins looks like.
LEMMA BeginAppends ==
  ASSUME TypeOK, NEW m \in Modules, NEW length \in Nat \ {0}, Begin(m, length)
  PROVE  /\ incidents' \in Seq(Incident)
         /\ Len(incidents') = Len(incidents) + 1
         /\ \A i \in 1 .. Len(incidents) : incidents'[i] = incidents[i]
         /\ incidents'[Len(incidents) + 1].mod = m
         /\ incidents'[Len(incidents) + 1].open
         /\ incidents'[Len(incidents) + 1].hits = {}
<1> DEFINE row == [mod |-> m, open |-> TRUE, escalated |-> FALSE, prioritised |-> FALSE,
                   hits |-> {}]
<1>1. row \in Incident
  BY DEF Incident
<1>2. incidents' = Append(incidents, row)
  BY DEF Begin
<1>3. row.mod = m /\ row.open /\ row.hits = {}
  OBVIOUS
<1> HIDE DEF row
<1> QED
  BY <1>1, <1>2, <1>3, AppendProperties, OutageRows DEF TypeOK

LEMMA BeginKeepsEnds ==
  ASSUME TypeOK, EndInv, NEW m \in Modules, NEW length \in Nat \ {0}, Begin(m, length),
         status[m] = "up",
         ready' = ready \/ \E j \in ready : j.kind # "end" /\ ready' = ready \ {j}
  PROVE  EndInv'
<1> DEFINE n == Len(incidents)
           e == Planned("end", length, m, n + 1, Nobody, FALSE, 0)
<1>0. n \in Nat /\ 1 .. (n + 1) = (1 .. n) \cup {n + 1} /\ n + 1 \notin 1 .. n
  BY OutageRows
<1>1. e.kind = "end" /\ e.about = n + 1 /\ e.mod = m
  BY DEF Planned
<1>2. queue' = queue \cup {e} /\ status' = [status EXCEPT ![m] = "down"]
  BY DEF Begin
<1>3. /\ Len(incidents') = n + 1
      /\ \A i \in 1 .. n : incidents'[i] = incidents[i]
      /\ incidents'[n + 1].mod = m /\ incidents'[n + 1].open
  BY BeginAppends
<1> HIDE DEF n, e
<1>4. \A j \in Jobs' : j.kind = "end" => j = e \/ j \in Jobs
  BY <1>2 DEF Jobs
<1>5. e \in Jobs' /\ \A j \in Jobs : j.kind = "end" => j \in Jobs'
  BY <1>2 DEF Jobs
<1>6. \A j \in Jobs : j.kind = "end" => j.about \in 1 .. n
  BY DEF EndInv, n
<1>7. \A i \in 1 .. n : incidents[i].open => incidents[i].mod # m
  BY DEF EndInv, n
<1>8. \A d \in Modules : status'[d] = IF d = m THEN "down" ELSE status[d]
  BY <1>2 DEF TypeOK
<1>9. \A i \in 1 .. n : incidents[i].mod \in Modules
  BY OutageRows DEF n
<1>10. \A j \in Jobs' : j.kind = "end" =>
         /\ j.about \in 1 .. (n + 1)
         /\ incidents'[j.about].open /\ incidents'[j.about].mod = j.mod
  BY <1>0, <1>1, <1>3, <1>4, <1>6 DEF EndInv, n
<1>11. \A j, l \in Jobs' : j.kind = "end" /\ l.kind = "end" /\ j.about = l.about => j = l
  BY <1>0, <1>1, <1>4, <1>6 DEF EndInv
<1>12. ASSUME NEW i \in 1 .. (n + 1), incidents'[i].open
       PROVE  /\ status'[incidents'[i].mod] = "down"
              /\ \E j \in Jobs' : j.kind = "end" /\ j.about = i
  <2>1. CASE i = n + 1
    BY <1>1, <1>3, <1>5, <1>8, <2>1
  <2>2. CASE i \in 1 .. n
    BY <1>3, <1>5, <1>8, <1>9, <1>12, <2>2 DEF EndInv, n
  <2> QED
    BY <1>0, <2>1, <2>2
<1>13. \A i, k \in 1 .. (n + 1) :
         incidents'[i].open /\ incidents'[k].open /\ incidents'[i].mod = incidents'[k].mod => i = k
  BY <1>0, <1>3, <1>7 DEF EndInv, n
<1>14. ASSUME NEW d \in Modules, status'[d] = "down"
       PROVE  \E i \in 1 .. (n + 1) : incidents'[i].open /\ incidents'[i].mod = d
  <2>1. CASE d = m
    BY <1>0, <1>3, <2>1
  <2>2. CASE d # m
    <3>1. PICK i \in 1 .. n : incidents[i].open /\ incidents[i].mod = d
      BY <1>8, <1>14, <2>2 DEF EndInv, n
    <3> QED
      BY <1>0, <1>3, <3>1
  <2> QED
    BY <2>1, <2>2
<1> QED
  BY <1>3, <1>10, <1>11, <1>12, <1>13, <1>14 DEF EndInv

\* What the end of an outage does: the job that runs is the one that ends it.
LEMMA EndWritten ==
  ASSUME NEW r \in Incident
  PROVE  LET s == [r EXCEPT !.open = FALSE]
         IN s \in Incident /\ s.mod = r.mod /\ ~s.open /\ s.hits = r.hits
BY DEF Incident

LEMMA EndCloses ==
  ASSUME TypeOK, EndInv, DueInv, NEW j \in ready, RunEnd(j)
  PROVE  /\ j.about \in 1 .. Len(incidents)
         /\ incidents[j.about].open /\ incidents[j.about].mod = j.mod
         /\ j \notin queue /\ j.kind = "end" /\ First(j)
         /\ incidents' \in Seq(Incident) /\ Len(incidents') = Len(incidents)
         /\ \A i \in 1 .. Len(incidents) :
              /\ incidents'[i].mod = incidents[i].mod
              /\ incidents'[i].open <=> (incidents[i].open /\ i # j.about)
              /\ incidents'[i].hits = incidents[i].hits
         /\ status' = [status EXCEPT ![j.mod] = "up"]
         /\ ready' = ready \ {j}
         /\ notices' = [notices EXCEPT ![j.about] = Withdraw(j.about)]
         /\ news' = news \ {j.about}
<1> DEFINE k == j.about
           row == incidents[k]
           over == [row EXCEPT !.open = FALSE]
<1>1. j.kind = "end" /\ ready' = ready \ {j} /\ First(j)
  BY DEF RunEnd, Running
<1>2. k \in 1 .. Len(incidents) /\ incidents[k].open /\ incidents[k].mod = j.mod
  BY <1>1 DEF EndInv, Jobs
<1>3. j \notin queue
  <2>1. j \in queue => j.due > 0
    BY <1>1 DEF DueInv
  <2>2. j.due <= 0 /\ j.due \in Int
    BY DEF DueInv, TypeOK, Job
  <2> QED
    BY <2>1, <2>2
<1>4. /\ incidents' = [incidents EXCEPT ![k].open = FALSE]
      /\ status' = [status EXCEPT ![j.mod] = "up"]
      /\ notices' = [notices EXCEPT ![k] = Withdraw(k)]
      /\ news' = news \ {k}
  BY <1>2 DEF RunEnd
<1>5. over \in Incident /\ over.mod = row.mod /\ ~over.open /\ over.hits = row.hits
  <2>1. row \in Incident
    BY <1>2, OutageRows
  <2> HIDE DEF row
  <2> QED
    BY <2>1, EndWritten
<1>6. incidents' = [incidents EXCEPT ![k] = over]
  BY <1>4
<1>7. \A i \in 1 .. Len(incidents) : incidents[i] \in Incident /\ incidents[i].open \in BOOLEAN
  BY OutageRows DEF Incident
<1> HIDE DEF over
<1>8. /\ DOMAIN incidents' = 1 .. Len(incidents) /\ Len(incidents') = Len(incidents)
      /\ \A i \in 1 .. Len(incidents) : incidents'[i] = IF i = k THEN over ELSE incidents[i]
  BY <1>2, <1>6, OutageRows DEF TypeOK
<1>9. incidents' = [i \in 1 .. Len(incidents) |-> IF i = k THEN over ELSE incidents[i]]
  BY <1>2, <1>6, OutageRows DEF TypeOK
<1>10. incidents' \in Seq(Incident)
  BY <1>5, <1>7, <1>9, OutageRows
<1>11. \A i \in 1 .. Len(incidents) :
         /\ incidents'[i].mod = incidents[i].mod
         /\ incidents'[i].open <=> (incidents[i].open /\ i # k)
         /\ incidents'[i].hits = incidents[i].hits
  BY <1>5, <1>7, <1>8
<1> QED
  BY <1>1, <1>2, <1>3, <1>4, <1>8, <1>10, <1>11

LEMMA EndKeepsEnds ==
  ASSUME TypeOK, EndInv, DueInv, NEW j \in ready, RunEnd(j)
  PROVE  EndInv'
<1>1. /\ j.about \in 1 .. Len(incidents)
      /\ incidents[j.about].open /\ incidents[j.about].mod = j.mod
      /\ j \notin queue /\ j.kind = "end"
      /\ Len(incidents') = Len(incidents)
      /\ \A i \in 1 .. Len(incidents) :
           /\ incidents'[i].mod = incidents[i].mod
           /\ incidents'[i].open <=> (incidents[i].open /\ i # j.about)
      /\ status' = [status EXCEPT ![j.mod] = "up"]
      /\ ready' = ready \ {j}
  BY EndCloses
<1>2. queue' = queue
  BY DEF RunEnd
<1>3. Jobs' = Jobs \ {j}
  BY <1>1, <1>2 DEF Jobs
<1>4. \A l \in Jobs' : l.kind = "end" => l.about # j.about
  BY <1>1, <1>3 DEF EndInv, Jobs
<1>5. \A i \in 1 .. Len(incidents) : incidents[i].mod \in Modules
  BY OutageRows
<1>6. j.mod \in Modules
  BY <1>1, <1>5
<1>7. \A d \in Modules : status'[d] = IF d = j.mod THEN "up" ELSE status[d]
  BY <1>1, <1>6 DEF TypeOK
<1>8. \A l \in Jobs' : l.kind = "end" =>
        /\ l.about \in 1 .. Len(incidents')
        /\ incidents'[l.about].open /\ incidents'[l.about].mod = l.mod
  BY <1>1, <1>3, <1>4 DEF EndInv
<1>9. \A l, k \in Jobs' : l.kind = "end" /\ k.kind = "end" /\ l.about = k.about => l = k
  BY <1>3 DEF EndInv
<1>10. ASSUME NEW i \in 1 .. Len(incidents'), incidents'[i].open
       PROVE  /\ status'[incidents'[i].mod] = "down"
              /\ \E l \in Jobs' : l.kind = "end" /\ l.about = i
  <2>1. incidents[i].open /\ i # j.about /\ incidents'[i].mod = incidents[i].mod
    BY <1>1, <1>10
  <2>2. incidents[i].mod # j.mod
    BY <1>1, <2>1 DEF EndInv
  <2>3. status'[incidents[i].mod] = "down"
    BY <1>1, <1>5, <1>7, <2>1, <2>2 DEF EndInv
  <2>4. PICK l \in Jobs : l.kind = "end" /\ l.about = i
    BY <1>1, <2>1 DEF EndInv
  <2> QED
    BY <1>3, <2>1, <2>3, <2>4
<1>11. ASSUME NEW i \in 1 .. Len(incidents'), NEW k \in 1 .. Len(incidents'),
              incidents'[i].open, incidents'[k].open, incidents'[i].mod = incidents'[k].mod
       PROVE  i = k
  BY <1>1, <1>11 DEF EndInv
<1>12. ASSUME NEW d \in Modules, status'[d] = "down"
       PROVE  \E i \in 1 .. Len(incidents') : incidents'[i].open /\ incidents'[i].mod = d
  <2>1. d # j.mod /\ status[d] = "down"
    BY <1>7, <1>12
  <2>2. PICK i \in 1 .. Len(incidents) : incidents[i].open /\ incidents[i].mod = d
    BY <2>1 DEF EndInv
  <2>3. i # j.about
    BY <1>1, <2>1, <2>2
  <2> QED
    BY <1>1, <2>2, <2>3
<1> QED
  BY <1>8, <1>9, <1>10, <1>11, <1>12 DEF EndInv

\* A day that passes brings every job nearer by as much, and loses none.
Later(j) == [j EXCEPT !.due = j.due - Calendar[clock].gap]

Gaps == {n * Tick : n \in 1 .. 1000}

LEMMA GapIsTicks ==
  ASSUME TypeOK
  PROVE  Calendar[clock].gap \in Gaps
<1> DEFINE Day == [office : BOOLEAN, gap : Gaps]
           days == Calendar
<1>1. clock \in 1 .. Len(days) /\ days \in Seq(Day)
  BY OutagesAssumption DEF TypeOK, Gaps
<1> HIDE DEF Day, days
<1>2. days[clock] \in Day
  BY <1>1, ElementOfSeq
<1>3. days[clock].gap \in Gaps
  BY <1>2 DEF Day
<1> QED
  BY <1>3 DEF days

\* What is among the lengths of a step is some ticks.
LEMMA InTicks ==
  ASSUME NEW gap \in Gaps
  PROVE  \E n \in 1 .. 1000 : gap = n * Tick
BY Zenon DEF Gaps

LEMMA GapIsANumber ==
  ASSUME TypeOK
  PROVE  Calendar[clock].gap \in Nat \ {0} /\ Calendar[clock].gap >= Tick
<1>1. PICK g \in 1 .. 1000 : Calendar[clock].gap = g * Tick
  BY GapIsTicks, InTicks, Zenon
<1>2. g \in Nat \ {0} /\ Tick \in Nat \ {0}
  BY <1>1, Parameters
<1>3. g * Tick \in Nat \ {0} /\ Tick <= g * Tick
  BY <1>2, Product
<1> QED
  BY <1>1, <1>3

LEMMA JobMoves ==
  ASSUME TypeOK, NEW j \in Job
  PROVE  /\ Later(j) \in Job /\ Later(j).due = j.due - Calendar[clock].gap
         /\ Later(j).due \in Int /\ j.due \in Int /\ Calendar[clock].gap \in Nat \ {0}
         /\ Later(j).kind = j.kind /\ Later(j).mod = j.mod /\ Later(j).about = j.about
         /\ Later(j).length = j.length
<1>2. Calendar[clock].gap \in Nat \ {0} /\ j.due \in Int
  BY GapIsANumber DEF Job
<1> DEFINE due == j.due - Calendar[clock].gap
<1>3. due \in Int
  BY <1>2
<1>4. Later(j) = [j EXCEPT !.due = due]
  BY DEF Later
<1> HIDE DEF due
<1>5. /\ Later(j) \in Job /\ Later(j).due = due
      /\ Later(j).kind = j.kind /\ Later(j).mod = j.mod /\ Later(j).about = j.about
      /\ Later(j).length = j.length
  BY <1>3, <1>4, JobFields
<1> QED
  BY <1>2, <1>3, <1>5 DEF due

LEMMA AdvanceMoves ==
  ASSUME TypeOK, RoomInv, Advance
  PROVE  /\ ready = {} /\ Jobs = queue
         /\ Jobs' = {Later(j) : j \in queue}
         /\ ready' = {j \in Jobs' : j.due <= 0} /\ queue' = {j \in Jobs' : j.due > 0}
         /\ Jobs' \subseteq Job
<1>1. phase # "due"
  BY DEF Advance
<1>2. ready = {}
  BY <1>1 DEF RoomInv
<1> DEFINE moved == {[j EXCEPT !.due = @ - Calendar[clock].gap] : j \in queue}
<1>3. moved = {Later(j) : j \in queue}
  BY DEF Later
<1>4. ready' = {j \in moved : j.due <= 0} /\ queue' = {j \in moved : j.due > 0}
  BY DEF Advance
<1> HIDE DEF moved
<1>5. \A j \in moved : j \in Job /\ j.due \in Int
  BY <1>3, JobMoves DEF TypeOK
<1>6. Jobs' = moved
  BY <1>4, <1>5 DEF Jobs
<1> QED
  BY <1>2, <1>3, <1>4, <1>5, <1>6 DEF Jobs

LEMMA AdvanceKeepsEnds ==
  ASSUME TypeOK, RoomInv, EndInv, Advance
  PROVE  EndInv'
<1>1. Jobs = queue /\ Jobs' = {Later(j) : j \in queue}
  BY AdvanceMoves
<1>2. SameOutages /\ UNCHANGED status
  BY DEF Advance, SameOutages
<1>3. \A j \in queue : Later(j).kind = j.kind /\ Later(j).mod = j.mod /\ Later(j).about = j.about
  BY JobMoves DEF TypeOK
<1>4. \A j \in Jobs' : j.kind = "end" =>
        \E l \in Jobs : l.kind = "end" /\ l.about = j.about /\ l.mod = j.mod
  BY <1>1, <1>3
<1>5. ASSUME NEW j \in Jobs', NEW l \in Jobs',
             j.kind = "end", l.kind = "end", j.about = l.about
      PROVE  j = l
  <2>1. PICK b \in queue, c \in queue : j = Later(b) /\ l = Later(c)
    BY <1>1
  <2>2. b = c
    BY <1>1, <1>3, <1>5, <2>1 DEF EndInv
  <2> QED
    BY <2>1, <2>2
<1>6. \A l \in Jobs : l.kind = "end" => \E j \in Jobs' : j.kind = "end" /\ j.about = l.about
  BY <1>1, <1>3
<1> QED
  BY <1>2, <1>4, <1>5, <1>6, SameEnds

-----------------------------------------------------------------------------
(* What a step does to the outages, their jobs and the queue: every action  *)
(* is one of these.                                                        *)

AfterMeeting == {"meet", "support", "customers", "followups"}

\* a row that has been taken off the queue is done with
Takes(kind) ==
  \E j \in ready : j.kind = kind /\ First(j) /\ phase = "due" /\ ready' = ready \ {j}

MovesOn ==
  \/ phase' = phase
  \/ ready = {} /\ phase' # "due" /\ (phase \in AfterMeeting => phase' \in AfterMeeting)

Quietly ==
  /\ Pushes /\ MovesOn /\ UNCHANGED status
  /\ ready' = ready \/ Takes("start") \/ Takes("handoff")
  /\ Takes("start") => UNCHANGED <<incidents, queue>> /\ \E j \in ready :
       /\ j.kind = "start" /\ First(j) /\ ready' = ready \ {j} /\ status[j.mod] = "down"

Hands ==
  /\ Acts /\ UNCHANGED <<status, ready, phase>>
  /\ phase \in {"meet", "customers"}

Breaks ==
  \E m \in Modules, length \in Nat \ {0} :
    /\ Begin(m, length) /\ status[m] = "up" /\ UNCHANGED phase
    /\ \/ Room /\ phase = "hazard" /\ ready' = ready
       \/ /\ phase = "due"
          /\ \E j \in ready : /\ j.kind = "start" /\ First(j) /\ j.mod = m
                              /\ ready' = ready \ {j}

Plans ==
  \E m \in Modules, after \in Afters, length \in Lengths : Plan(m, after, length)

\* A row that nobody has taken is a row that nobody has taken.
LEMMA IdleIsQuiet ==
  ASSUME TypeOK, UNCHANGED <<status, incidents, queue, ready>>, MovesOn
  PROVE  Quietly
<1>1. ~Takes("start") /\ ~Takes("handoff")
  BY DEF Takes
<1> QED
  BY <1>1, NothingPushes DEF Quietly

LEMMA PushingIsQuiet ==
  ASSUME Pushes, UNCHANGED <<status, ready>>, MovesOn
  PROVE  Quietly
<1>1. ~Takes("start") /\ ~Takes("handoff")
  BY DEF Takes
<1> QED
  BY <1>1 DEF Quietly

\* The row that runs is the one that is gone.
LEMMA OneTaken ==
  ASSUME NEW j \in ready, NEW l \in ready, ready' = ready \ {j}, ready' = ready \ {l}
  PROVE  j = l
OBVIOUS

LEMMA StartKinds ==
  ASSUME OutageInv, NEW j \in ready, RunStart(j)
  PROVE  Quietly \/ Breaks
<1>1. /\ j.kind = "start" /\ First(j) /\ phase = "due" /\ ready' = ready \ {j}
      /\ UNCHANGED phase /\ Start(j.mod, j.length)
  BY DEF RunStart, Running
<1>2. j.mod \in Modules /\ j.length \in Nat \ {0}
  <2>1. j.length > 0
    BY <1>1 DEF OutageInv, DueInv, Jobs
  <2>2. j.mod \in Modules /\ j.length \in Nat
    BY DEF OutageInv, TypeOK, Job
  <2> QED
    BY <2>1, <2>2
<1>3. CASE status[j.mod] = "down"
  <2>1. UNCHANGED <<status, incidents, queue>>
    BY <1>1, <1>3 DEF Start
  <2>2. Takes("start") /\ ~Takes("handoff")
    <3>1. ~Takes("handoff")
      BY <1>1, OneTaken DEF Takes
    <3> QED
      BY <1>1, <3>1 DEF Takes
  <2> QED
    BY <1>1, <1>3, <2>1, <2>2, NothingPushes DEF Quietly, MovesOn, OutageInv
<1>4. CASE status[j.mod] = "up"
  <2>1. Begin(j.mod, j.length)
    BY <1>1, <1>4 DEF Start
  <2> QED
    BY <1>1, <1>2, <1>4, <2>1 DEF Breaks
<1> QED
  BY <1>2, <1>3, <1>4 DEF OutageInv, TypeOK

LEMMA HandoffRuns ==
  ASSUME OutageInv, NEW j \in ready, RunHandoff(j)
  PROVE  Quietly /\ SameTickets(tickets) /\ tickets' \in Seq(Ticket)
<1> USE DEF OutageInv
<1>1. /\ j.kind = "handoff" /\ First(j) /\ phase = "due" /\ ready' = ready \ {j}
      /\ UNCHANGED <<phase, status>>
  BY DEF RunHandoff, Running
<1>2. j.mod \in Modules /\ tickets \in Seq(Ticket)
  BY DEF TypeOK, Job
<1>3. OpenOn(j.mod) # {} => j.about = Lowest(OpenOn(j.mod))
  <2>1. j.about \in 1 .. Len(incidents) /\ incidents[j.about].mod = j.mod
    BY <1>1 DEF HandoffInv, Jobs
  <2>2. OpenOn(j.mod) # {} => incidents[j.about].open
    BY <1>1 DEF HandoffInv, OpenOn
  <2>3. OpenOn(j.mod) # {} => j.about \in OpenOn(j.mod)
    BY <2>1, <2>2 DEF OpenOn
  <2> QED
    BY <1>2, <2>3, OneIsOpen
<1>4. Pushes /\ SameTickets(tickets) /\ tickets' \in Seq(Ticket)
  <2>1. CASE UNCHANGED <<incidents, queue, tickets>>
    BY <1>2, <2>1, NothingPushes DEF SameTickets
  <2>2. CASE IF j.phone THEN Prioritise(j.mod, j.about) /\ UNCHANGED tickets
                        ELSE Press(j.mod, j.about, tickets)
    <3>1. CASE Prioritise(j.mod, j.about) /\ UNCHANGED tickets
      BY <1>2, <1>3, <3>1, PrioritisePushes DEF SameTickets
    <3>2. CASE Press(j.mod, j.about, tickets)
      BY <1>2, <1>3, <3>2, PressPushes
    <3> QED
      BY <2>2, <3>1, <3>2
  <2> QED
    BY <2>1, <2>2 DEF RunHandoff
<1>5. ~Takes("start") /\ Takes("handoff")
  <2>1. ~Takes("start")
    BY <1>1, OneTaken DEF Takes
  <2> QED
    BY <1>1, <2>1 DEF Takes
<1> QED
  BY <1>1, <1>4, <1>5 DEF Quietly, MovesOn

-----------------------------------------------------------------------------
(* The rows of tickets *)

Statuses == {"open", "triaged", "answered", "closed"}

LEMMA TicketRows ==
  ASSUME TypeOK
  PROVE  /\ Len(tickets) \in Nat /\ DOMAIN tickets = 1 .. Len(tickets)
         /\ \A k \in 1 .. Len(tickets) :
              /\ tickets[k] \in Ticket /\ tickets[k].by \in People
              /\ tickets[k].mod \in Modules /\ tickets[k].about \in Nat
              /\ tickets[k].age \in Nat
<1>1. \A k \in 1 .. Len(tickets) : tickets[k] \in Ticket
  BY ElementOfSeq DEF TypeOK
<1> QED
  BY <1>1, LenProperties DEF TypeOK, Ticket

LEMMA TicketJudged ==
  ASSUME NEW r \in Ticket, NEW st \in Statuses, NEW n \in Nat
  PROVE  /\ [r EXCEPT !.status = st, !.severity = n] \in Ticket
         /\ [r EXCEPT !.status = st, !.severity = n].by = r.by
         /\ [r EXCEPT !.status = st, !.severity = n].mod = r.mod
         /\ [r EXCEPT !.status = st, !.severity = n].about = r.about
BY DEF Ticket, Statuses

LEMMA TicketAged ==
  ASSUME NEW r \in Ticket, NEW st \in Statuses, NEW n \in Nat
  PROVE  /\ [r EXCEPT !.status = st, !.age = n] \in Ticket
         /\ [r EXCEPT !.status = st, !.age = n].by = r.by
         /\ [r EXCEPT !.status = st, !.age = n].mod = r.mod
         /\ [r EXCEPT !.status = st, !.age = n].about = r.about
BY DEF Ticket, Statuses

LEMMA TicketOlder ==
  ASSUME NEW r \in Ticket, NEW n \in Nat
  PROVE  /\ [r EXCEPT !.age = n] \in Ticket
         /\ [r EXCEPT !.age = n].by = r.by
         /\ [r EXCEPT !.age = n].mod = r.mod
         /\ [r EXCEPT !.age = n].about = r.about
BY DEF Ticket

LEMMA TicketReopened ==
  ASSUME NEW r \in Ticket, NEW i \in Nat
  PROVE  /\ [r EXCEPT !.status = "triaged", !.about = i, !.age = 0] \in Ticket
         /\ [r EXCEPT !.status = "triaged", !.about = i, !.age = 0].by = r.by
         /\ [r EXCEPT !.status = "triaged", !.about = i, !.age = 0].mod = r.mod
         /\ [r EXCEPT !.status = "triaged", !.about = i, !.age = 0].about = i
BY DEF Ticket

\* One ticket is given another status, and judged or aged anew.
Moved(rows, k, st, n) ==
  \/ rows = [tickets EXCEPT ![k].status = st, ![k].severity = n]
  \/ rows = [tickets EXCEPT ![k].status = st, ![k].age = n]

\* What moves a ticket along leaves whose it is alone.
LEMMA MovedTickets ==
  ASSUME TypeOK, NEW k, NEW st \in Statuses, NEW n \in Nat, NEW rows, Moved(rows, k, st, n)
  PROVE  /\ rows \in Seq(Ticket) /\ Len(rows) = Len(tickets)
         /\ \A l \in 1 .. Len(tickets) :
              /\ rows[l].by = tickets[l].by /\ rows[l].mod = tickets[l].mod
              /\ rows[l].about = tickets[l].about
<1>1. CASE k \in 1 .. Len(tickets)
  <2> DEFINE old == tickets[k]
             judged == [old EXCEPT !.status = st, !.severity = n]
             moved == [old EXCEPT !.status = st, !.age = n]
  <2>1. old \in Ticket
    BY <1>1, TicketRows
  <2>2. rows = [tickets EXCEPT ![k] = judged] \/ rows = [tickets EXCEPT ![k] = moved]
    BY DEF Moved
  <2>3. judged \in Ticket /\ judged.by = old.by /\ judged.mod = old.mod /\ judged.about = old.about
    <3> HIDE DEF old
    <3> QED
      BY <2>1, TicketJudged
  <2>4. moved \in Ticket /\ moved.by = old.by /\ moved.mod = old.mod /\ moved.about = old.about
    <3> HIDE DEF old
    <3> QED
      BY <2>1, TicketAged
  <2>5. PICK row \in Ticket :
          /\ rows = [tickets EXCEPT ![k] = row]
          /\ row.by = tickets[k].by /\ row.mod = tickets[k].mod /\ row.about = tickets[k].about
    <3> HIDE DEF judged, moved
    <3> QED
      BY <2>2, <2>3, <2>4
  <2>6. /\ rows \in Seq(Ticket) /\ Len(rows) = Len(tickets)
        /\ rows[k] = row
        /\ \A l \in 1 .. Len(tickets) : l # k => rows[l] = tickets[l]
    BY <1>1, <2>5, ExceptSeq DEF TypeOK
  <2> QED
    BY <2>5, <2>6
<1>2. CASE k \notin 1 .. Len(tickets)
  <2>1. rows = tickets
    BY <1>2, TicketRows DEF TypeOK, Moved
  <2> QED
    BY <2>1 DEF TypeOK
<1> QED
  BY <1>1, <1>2

\* The last to be closed is one of those closed lately.
LEMMA LatestIsRecent ==
  ASSUME TypeOK, NEW p, NEW m, Recent(p, m) # {}
  PROVE  /\ Latest(p, m) \in 1 .. Len(tickets)
         /\ tickets[Latest(p, m)].by = p /\ tickets[Latest(p, m)].mod = m
<1> DEFINE R == Recent(p, m)
           ages == {tickets[k].age : k \in R}
           last == {k \in R : \A l \in R : tickets[k].age <= tickets[l].age}
<1>1. \A k \in R : k \in 1 .. Len(tickets) /\ tickets[k].by = p /\ tickets[k].mod = m
  BY DEF Recent, InState
<1>2. ages \in SUBSET Nat /\ ages # {}
  BY <1>1, TicketRows
<1>3. Lowest(ages) \in ages /\ \A a \in ages : Lowest(ages) <= a
  BY <1>2, LowestIsLowest
<1>4. last # {}
  <2>1. PICK k \in R : tickets[k].age = Lowest(ages)
    BY <1>3
  <2>2. \A l \in R : tickets[k].age <= tickets[l].age
    BY <1>3, <2>1
  <2> QED
    BY <2>2
<1>5. last \in SUBSET (1 .. Len(tickets))
  BY <1>1
<1>6. Highest(last) \in last
  <2> HIDE DEF last
  <2> QED
    BY <1>4, <1>5, HighestIsHighest, TicketRows
<1>7. Latest(p, m) = Highest(last)
  BY DEF Latest
<1> QED
  BY <1>1, <1>6, <1>7

\* What is filed is a ticket of one's own about this outage, new or reopened.
LEMMA FiledIsOnes ==
  ASSUME TypeOK, NEW i \in 1 .. Len(incidents), NEW p \in People
  PROVE  /\ Filed(i, p) \in Seq(Ticket)
         /\ Len(Filed(i, p)) >= Len(tickets)
         /\ FiledAs(i, p) \in 1 .. Len(Filed(i, p))
         /\ Filed(i, p)[FiledAs(i, p)].about = i
         /\ Filed(i, p)[FiledAs(i, p)].by = p
         /\ Filed(i, p)[FiledAs(i, p)].mod = incidents[i].mod
         /\ FiledAs(i, p) \in 1 .. Len(tickets) => /\ tickets[FiledAs(i, p)].by = p
                                                   /\ tickets[FiledAs(i, p)].mod = incidents[i].mod
         /\ \A k \in 1 .. Len(Filed(i, p)) : k # FiledAs(i, p) =>
              k \in 1 .. Len(tickets) /\ Filed(i, p)[k] = tickets[k]
<1> DEFINE m == incidents[i].mod
<1>0. m \in Modules /\ i \in Nat \ {0}
  BY OutageRows
<1>1. CASE Recent(p, m) # {}
  <2> DEFINE k == Latest(p, m)
             old == tickets[k]
             row == [old EXCEPT !.status = "triaged", !.about = i, !.age = 0]
  <2>1. k \in 1 .. Len(tickets) /\ tickets[k].by = p /\ tickets[k].mod = m
    BY <1>1, LatestIsRecent
  <2>2. FiledAs(i, p) = k /\ Filed(i, p) = Reopened(k, i)
    BY <1>1 DEF FiledAs, Filed
  <2> HIDE DEF k, m
  <2>3. Reopened(k, i) = [tickets EXCEPT ![k] = row]
    BY DEF Reopened
  <2>4. old \in Ticket /\ old.by = p /\ old.mod = m
    BY <2>1, TicketRows
  <2> HIDE DEF old
  <2>5. row \in Ticket /\ row.by = p /\ row.mod = m /\ row.about = i
    BY <1>0, <2>4, TicketReopened
  <2> HIDE DEF row
  <2>6. /\ Filed(i, p) \in Seq(Ticket) /\ Len(Filed(i, p)) = Len(tickets)
        /\ Filed(i, p)[k] = row
        /\ \A l \in 1 .. Len(tickets) : l # k => Filed(i, p)[l] = tickets[l]
    BY <2>1, <2>2, <2>3, <2>5, ExceptSeq DEF TypeOK
  <2> QED
    BY <2>1, <2>2, <2>5, <2>6, TicketRows DEF m
<1>2. CASE Recent(p, m) = {}
  <2> DEFINE row == NewTicket(p, m, i)
  <2>1. row \in Ticket /\ row.by = p /\ row.mod = m /\ row.about = i
    BY <1>0 DEF NewTicket, Ticket
  <2>2. FiledAs(i, p) = Len(tickets) + 1 /\ Filed(i, p) = Append(tickets, row)
    BY <1>2 DEF FiledAs, Filed
  <2> HIDE DEF row
  <2>3. /\ Filed(i, p) \in Seq(Ticket) /\ Len(Filed(i, p)) = Len(tickets) + 1
        /\ Filed(i, p)[Len(tickets) + 1] = row
        /\ \A l \in 1 .. Len(tickets) : Filed(i, p)[l] = tickets[l]
    BY <2>1, <2>2, AppendProperties DEF TypeOK
  <2> QED
    BY <2>1, <2>2, <2>3, TicketRows
<1> QED
  BY <1>1, <1>2

-----------------------------------------------------------------------------
(* Every action is one of those. *)

LEMMA TriageIsQuiet ==
  ASSUME OutageInv, NEW a \in Agents, Triage(a)
  PROVE  Quietly
<1> USE DEF OutageInv
<1> DEFINE k == Lowest(InState("open"))
           m == tickets[k].mod
<1>1. k \in 1 .. Len(tickets)
  <2>1. InState("open") \in SUBSET Nat /\ InState("open") # {}
    BY TicketRows DEF InState, Triage
  <2>2. k \in InState("open")
    BY <2>1, LowestIsLowest
  <2> QED
    BY <2>2 DEF InState
<1>2. m \in Modules
  BY <1>1, TicketRows
<1>3. PICK rows : Enough(m, rows)
  BY DEF Triage
<1> HIDE DEF m
<1>4. Prioritise(m, Lowest(OpenOn(m))) \/ UNCHANGED <<incidents, queue>>
  BY <1>3 DEF Enough
<1>5. Pushes
  BY <1>2, <1>4, PrioritisePushes, NothingPushes
<1>6. UNCHANGED <<phase, status, ready>>
  BY DEF Triage
<1> QED
  BY <1>5, <1>6, PushingIsQuiet DEF MovesOn

LEMMA CornerHands ==
  ASSUME OutageInv, NEW m \in Modules, NEW a \in Agents, Corner(m, a)
  PROVE  Hands /\ SameTickets(tickets) /\ tickets' \in Seq(Ticket)
<1> USE DEF OutageInv
<1>1. OpenOn(m) # {}
  BY DEF Corner, EndInv, OpenOn
<1>2. Tell(m, a, FALSE, tickets) /\ tickets \in Seq(Ticket) /\ FALSE \in BOOLEAN
  BY DEF Corner, TypeOK
<1>3. Acts /\ SameTickets(tickets) /\ tickets' \in Seq(Ticket)
  BY <1>1, <1>2, TellActs
<1> QED
  BY <1>3 DEF Hands, Corner

\* What somebody who decides has in hand.
LEMMA ConsideredIsOpen ==
  ASSUME OutageInv, NEW r \in todo, phase = "customers"
  PROVE  /\ r.about \in 1 .. Len(incidents) /\ r.about \in Ids /\ r.by \in People
         /\ incidents[r.about].open /\ incidents[r.about].mod \in Modules
         /\ notices[r.about][r.by].wait = 0 /\ notices[r.about][r.by].ticket = NoTicket
         /\ r.about \in OpenOn(incidents[r.about].mod)
<1>1. r \in Row
  BY DEF OutageInv, TodoInv
<1>2. /\ r.about \in 1 .. Len(incidents) /\ incidents[r.about].open
      /\ notices[r.about][r.by].wait = 0 /\ notices[r.about][r.by].ticket = NoTicket
  BY DEF OutageInv, TodoInv
<1> QED
  BY <1>1, <1>2, OutageRows DEF Row, OpenOn, OutageInv

Rows(r, file) == IF file THEN Filed(r.about, r.by) ELSE tickets

LEMMA ConsiderHands ==
  ASSUME OutageInv, NEW r \in todo, NEW file \in BOOLEAN, NEW way \in Ways,
         Consider(r, file, way)
  PROVE  Hands /\ SameTickets(Rows(r, file)) /\ tickets' \in Seq(Ticket)
<1> USE DEF OutageInv
<1> DEFINE m == incidents[r.about].mod
           rows == Rows(r, file)
<1>1. phase = "customers" /\ UNCHANGED <<phase, status, ready>>
  BY DEF Consider
<1>2. m \in Modules /\ OpenOn(m) # {} /\ r.about \in 1 .. Len(incidents) /\ r.by \in People
  BY <1>1, ConsideredIsOpen
<1>3. rows \in Seq(Ticket)
  BY <1>2, FiledIsOnes DEF Rows, TypeOK
<1>4. \/ \E a \in Managers \ left : Tell(m, a, TRUE, rows)
      \/ tickets' = rows /\ UNCHANGED <<incidents, queue>>
  BY DEF Consider, Rows
<1> HIDE DEF m, rows
<1>5. CASE \E a \in Managers \ left : Tell(m, a, TRUE, rows)
  <2>1. PICK a \in Agents : Tell(m, a, TRUE, rows)
    BY <1>5, Parameters
  <2>2. Acts /\ SameTickets(rows) /\ tickets' \in Seq(Ticket)
    BY <1>2, <1>3, <2>1, TellActs
  <2> QED
    BY <1>1, <2>2 DEF Hands, rows
<1>6. CASE tickets' = rows /\ UNCHANGED <<incidents, queue>>
  <2>1. Pushes
    BY <1>6, NothingPushes
  <2>2. SameTickets(rows) /\ tickets' \in Seq(Ticket)
    BY <1>3, <1>6, UrgentIsTheSame
  <2> QED
    BY <1>1, <2>1, <2>2 DEF Hands, Acts, rows
<1> QED
  BY <1>4, <1>5, <1>6

LEMMA ProceedIsQuiet ==
  ASSUME OutageInv, Proceed
  PROVE  Quietly
<1>1. UNCHANGED <<status, incidents, queue, ready>>
  BY DEF Proceed, Go
<1>2. MovesOn
  BY DEF Proceed, Go, MovesOn, AfterMeeting, OutageInv, RoomInv
<1> QED
  BY <1>1, <1>2, IdleIsQuiet DEF OutageInv

LEMMA HazardBreaks ==
  ASSUME OutageInv, NEW m \in Modules, Hazard(m)
  PROVE  Breaks
<1>1. PICK length \in Lengths : Begin(m, length)
  BY DEF Hazard
<1> QED
  BY <1>1, Parameters DEF Breaks, Hazard

LEMMA NextKinds ==
  ASSUME OutageInv, Next
  PROVE  Quietly \/ Hands \/ Breaks \/ Plans \/ (\E j \in ready : RunEnd(j)) \/ Advance
<1>1. ASSUME NEW j \in ready, RunStart(j) PROVE Quietly \/ Breaks
  BY <1>1, StartKinds
<1>2. ASSUME NEW j \in ready, RunHandoff(j) PROVE Quietly
  BY <1>2, HandoffRuns
<1>3. ASSUME NEW a \in Agents, Leave(a) \/ Answer(a) \/ Pass(a) PROVE Quietly
  BY <1>3, IdleIsQuiet DEF Leave, Answer, Pass, MovesOn, OutageInv
<1>4. ASSUME NEW a \in Agents, Triage(a) PROVE Quietly
  BY <1>4, TriageIsQuiet
<1>5. ASSUME Fail PROVE Quietly
  BY <1>5, IdleIsQuiet DEF Fail, MovesOn, OutageInv
<1>6. ASSUME NEW m \in Modules, Hazard(m) PROVE Breaks
  BY <1>6, HazardBreaks
<1>7. ASSUME NEW m \in Modules, NEW a \in Agents, Corner(m, a) PROVE Hands
  BY <1>7, CornerHands
<1>8. ASSUME NEW i \in Ids, NEW p \in People, Hear(i, p) PROVE Quietly
  BY <1>8, IdleIsQuiet DEF Hear, MovesOn, OutageInv
<1>9. ASSUME NEW r \in todo, NEW file \in BOOLEAN, NEW way \in Ways, Consider(r, file, way)
      PROVE  Hands
  BY <1>9, ConsiderHands
<1>10. ASSUME NEW k \in TicketIds, FollowUp(k) PROVE Quietly
  BY <1>10, IdleIsQuiet DEF FollowUp, MovesOn, OutageInv
<1>11. ASSUME Proceed PROVE Quietly
  BY <1>11, ProceedIsQuiet
<1> QED
  BY <1>1, <1>2, <1>3, <1>4, <1>5, <1>6, <1>7, <1>8, <1>9, <1>10, <1>11 DEF Next, Plans

-----------------------------------------------------------------------------
(* The outages, the queue and what is off it, by what a step is. *)

LEMMA PushedJobs ==
  ASSUME TypeOK, DueInv, Pushes
  PROVE  /\ queue' \subseteq Job
         /\ \A j \in queue' : j \in queue \/ (j.kind = "end" /\ j.due > 0)
         /\ Starts(queue') = Starts(queue)
         /\ IsFiniteSet(queue) => IsFiniteSet(queue')
<1>1. CASE queue' = queue
  BY <1>1 DEF TypeOK
<1>2. CASE BringsForward
  <2>1. PICK j \in queue, due \in Nat \ {0} :
          j.kind = "end" /\ queue' = (queue \ {j}) \cup {[j EXCEPT !.due = due]}
    BY <1>2 DEF BringsForward
  <2> DEFINE l == [j EXCEPT !.due = due]
  <2>2. l \in Job /\ l.kind = "end" /\ l.due = due
    BY <2>1, JobFields DEF TypeOK
  <2> HIDE DEF l
  <2>3. queue' = (queue \ {j}) \cup {l}
    BY <2>1 DEF l
  <2>4. queue' \subseteq Job /\ \A k \in queue' : k \in queue \/ (k.kind = "end" /\ k.due > 0)
    BY <2>2, <2>3 DEF TypeOK
  <2>5. Starts(queue') = Starts(queue)
    BY <2>1, <2>2, <2>3 DEF Starts
  <2>6. IsFiniteSet(queue) => IsFiniteSet(queue')
    BY <2>3, FS_RemoveElement, FS_AddElement
  <2> QED
    BY <2>4, <2>5, <2>6
<1> QED
  BY <1>1, <1>2 DEF Pushes

LEMMA PassedJobs ==
  ASSUME TypeOK, EndInv, PassesOn
  PROVE  \E j \in Job, i \in 1 .. Len(incidents) :
           /\ queue' = queue \cup {j} /\ j.kind = "handoff" /\ j.due = Tick
           /\ j.about = i /\ incidents[i].open /\ incidents[i].mod = j.mod
BY HandedOn, OneIsOpen DEF PassesOn

LEMMA BegunJobs ==
  ASSUME TypeOK, NEW m \in Modules, NEW length \in Nat \ {0}, Begin(m, length)
  PROVE  \E e \in Job : queue' = queue \cup {e} /\ e.kind = "end" /\ e.due = length
<1> DEFINE i == Len(incidents) + 1
           e == Planned("end", length, m, i, Nobody, FALSE, 0)
<1>1. i \in Nat
  BY OutageRows
<1> HIDE DEF i
<1>2. e \in Job /\ e.kind = "end" /\ e.due = length
  BY <1>1 DEF Planned, Job
<1>3. queue' = queue \cup {e}
  BY DEF Begin, i
<1> QED
  BY <1>2, <1>3

LEMMA PlannedJobs ==
  ASSUME TypeOK, Plans
  PROVE  \E j \in Job, n \in 0 .. 100 :
           /\ queue' = queue \cup {j} /\ j.kind = "start" /\ j.due = n * Tick /\ j.length > 0
<1>1. PICK m \in Modules, after \in Afters, length \in Lengths : Plan(m, after, length)
  BY DEF Plans
<1> DEFINE j == Planned("start", after, m, 0, Nobody, FALSE, length)
<1>2. PICK n \in 0 .. 100 : after = n * Tick
  BY OutagesAssumption
<1>3. after \in Int /\ length \in Nat \ {0}
  BY <1>2, OutagesAssumption
<1>4. j \in Job /\ j.kind = "start" /\ j.due = n * Tick /\ j.length > 0
  BY <1>2, <1>3 DEF Planned, Job
<1>5. queue' = queue \cup {j}
  BY <1>1 DEF Plan
<1> QED
  BY <1>4, <1>5

Core == status \in [Modules -> {"up", "down"}] /\ incidents \in Seq(Incident)
          /\ queue \subseteq Job /\ ready \subseteq Job

LEMMA CoreStep ==
  ASSUME OutageInv, Next
  PROVE  Core'
<1> USE DEF OutageInv
<1>1. CASE Quietly
  BY <1>1, PushedJobs DEF Quietly, Pushes, Core, TypeOK, Takes
<1>2. CASE Hands
  <2>1. CASE Pushes
    BY <1>2, <2>1, PushedJobs DEF Hands, Pushes, Core, TypeOK
  <2>2. CASE PassesOn /\ incidents' \in Seq(Incident)
    BY <1>2, <2>2, PassedJobs DEF Hands, Core, TypeOK
  <2> QED
    BY <1>2, <2>1, <2>2 DEF Hands, Acts
<1>3. CASE Breaks
  <2>1. PICK m \in Modules, length \in Nat \ {0} : Begin(m, length)
    BY <1>3 DEF Breaks
  <2>2. status' = [status EXCEPT ![m] = "down"]
    BY <2>1 DEF Begin
  <2>3. ready' \subseteq ready
    BY <1>3 DEF Breaks
  <2> QED
    BY <2>1, <2>2, <2>3, BegunJobs, BeginAppends DEF Core, TypeOK
<1>4. CASE Plans
  <2>1. UNCHANGED <<status, incidents, ready>>
    BY <1>4 DEF Plans, Plan
  <2> QED
    BY <1>4, <2>1, PlannedJobs DEF Core, TypeOK
<1>5. CASE \E j \in ready : RunEnd(j)
  <2>1. PICK j \in ready : RunEnd(j)
    BY <1>5
  <2>2. queue' = queue
    BY <2>1 DEF RunEnd
  <2>3. /\ incidents' \in Seq(Incident) /\ ready' = ready \ {j}
        /\ status' = [status EXCEPT ![j.mod] = "up"]
    BY <2>1, EndCloses
  <2> QED
    BY <2>2, <2>3 DEF Core, TypeOK
<1>6. CASE Advance
  <2>1. UNCHANGED <<status, incidents>>
    BY <1>6 DEF Advance
  <2>2. queue' \subseteq Job /\ ready' \subseteq Job
    BY <1>6, AdvanceMoves
  <2> QED
    BY <2>1, <2>2 DEF Core, TypeOK
<1> QED
  BY <1>1, <1>2, <1>3, <1>4, <1>5, <1>6, NextKinds

LEMMA EndStep ==
  ASSUME OutageInv, Next
  PROVE  EndInv'
<1> USE DEF OutageInv
<1>1. CASE Quietly
  <2>1. ready' = ready \/ \E h \in ready : h.kind # "end" /\ ready' = ready \ {h}
    BY <1>1 DEF Quietly, Takes
  <2> QED
    BY <1>1, <2>1, PushesKeepEnds DEF Quietly
<1>2. CASE Hands
  BY <1>2, ActsKeepEnds DEF Hands
<1>3. CASE Breaks
  <2>1. PICK m \in Modules, length \in Nat \ {0} : Begin(m, length) /\ status[m] = "up"
    BY <1>3 DEF Breaks
  <2>2. ready' = ready \/ \E h \in ready : h.kind # "end" /\ ready' = ready \ {h}
    BY <1>3 DEF Breaks
  <2> QED
    BY <2>1, <2>2, BeginKeepsEnds
<1>4. CASE Plans
  <2>1. UNCHANGED <<status, incidents, ready>>
    BY <1>4 DEF Plans, Plan
  <2>2. SameOutages /\ NoEndMoves
    BY <1>4, <2>1, PlannedJobs DEF SameOutages, NoEndMoves
  <2> QED
    BY <2>1, <2>2, NoEndMovesIsSafe
<1>5. CASE \E j \in ready : RunEnd(j)
  BY <1>5, EndKeepsEnds
<1>6. CASE Advance
  BY <1>6, AdvanceKeepsEnds
<1> QED
  BY <1>1, <1>2, <1>3, <1>4, <1>5, <1>6, NextKinds

LEMMA HitsStep ==
  ASSUME OutageInv, Next
  PROVE  HitsInv'
<1> USE DEF OutageInv
<1>1. CASE SameOutages
  BY <1>1 DEF SameOutages, HitsInv
<1>2. CASE Breaks
  <2>1. PICK m \in Modules, length \in Nat \ {0} : Begin(m, length)
    BY <1>2 DEF Breaks
  <2>2. /\ Len(incidents') = Len(incidents) + 1
        /\ \A i \in 1 .. Len(incidents) : incidents'[i] = incidents[i]
        /\ incidents'[Len(incidents) + 1].hits = {}
    BY <2>1, BeginAppends
  <2> QED
    BY <2>2, OutageRows DEF HitsInv
<1>3. CASE \E j \in ready : RunEnd(j)
  BY <1>3, EndCloses DEF HitsInv
<1>4. CASE Plans \/ Advance
  BY <1>4 DEF Plans, Plan, Advance, HitsInv
<1> QED
  BY <1>1, <1>2, <1>3, <1>4, NextKinds DEF Quietly, Hands, Acts, Pushes

\* Less than a tick is none.
LEMMA NoTicks ==
  ASSUME NEW n \in 0 .. 100, NEW t \in Nat \ {0}, n * t < t
  PROVE  n * t = 0
<1> SUFFICES ASSUME n # 0 PROVE FALSE
  OBVIOUS
<1>1. (n - 1) * t \in Nat
  OBVIOUS
<1> QED
  BY <1>1

LEMMA DueStep ==
  ASSUME OutageInv, Next
  PROVE  DueInv'
<1> USE DEF OutageInv
<1>1. CASE Quietly \/ Hands \/ (\E j \in ready : RunEnd(j)) \/ Breaks
  <2>1. ready' \subseteq ready
    BY <1>1 DEF Quietly, Hands, Breaks, RunEnd, Running, Takes
  <2>2. \A j \in queue' : j \in queue \/ (j.kind = "end" /\ j.due > 0) \/ j.kind = "handoff"
    <3>1. CASE Pushes
      BY <3>1, PushedJobs
    <3>2. CASE PassesOn
      BY <3>2, PassedJobs
    <3>3. CASE \E j \in ready : RunEnd(j)
      BY <3>3 DEF RunEnd
    <3>4. CASE Breaks
      <4>1. PICK m \in Modules, length \in Nat \ {0} : Begin(m, length)
        BY <3>4 DEF Breaks
      <4>2. PICK e \in Job : queue' = queue \cup {e} /\ e.kind = "end" /\ e.due = length
        BY <4>1, BegunJobs
      <4> QED
        BY <4>2
    <3> QED
      BY <1>1, <3>1, <3>2, <3>3, <3>4 DEF Quietly, Hands, Acts
  <2>3. \A j \in queue' : j.kind = "start" => j \in queue
    BY <2>2
  <2> QED
    BY <2>1, <2>2, <2>3 DEF DueInv, Jobs
<1>2. CASE Plans
  <2>1. PICK j \in Job, n \in 0 .. 100 :
          queue' = queue \cup {j} /\ j.kind = "start" /\ j.due = n * Tick /\ j.length > 0
    BY <1>2, PlannedJobs
  <2>2. ready' = ready
    BY <1>2 DEF Plans, Plan
  <2> QED
    BY <2>1, <2>2 DEF DueInv, Jobs
<1>3. CASE Advance
  <2>1. /\ Jobs = queue /\ Jobs' = {Later(j) : j \in queue}
        /\ ready' = {j \in Jobs' : j.due <= 0} /\ queue' = {j \in Jobs' : j.due > 0}
    BY <1>3, AdvanceMoves
  <2>2. ASSUME NEW j \in Jobs', j.kind = "start"
        PROVE  j.length > 0 /\ (j \in queue' => \E n \in 0 .. 100 : j.due = n * Tick)
    <3>1. PICK l \in queue : j = Later(l)
      BY <2>1
    <3>2. /\ j.due = l.due - Calendar[clock].gap /\ l.kind = "start" /\ j.length = l.length
      BY <2>2, <3>1, JobMoves DEF TypeOK
    <3>3. PICK n \in 0 .. 100 : l.due = n * Tick
      BY <3>2 DEF DueInv
    <3>4. PICK g \in 1 .. 1000 : Calendar[clock].gap = g * Tick
      <4>1. Calendar[clock].gap \in Gaps
        BY GapIsTicks
      <4> QED
        BY <4>1, InTicks, Zenon
    <3>5. ASSUME j.due > 0 PROVE \E k \in 0 .. 100 : j.due = k * Tick
      <4>1. j.due = (n - g) * Tick
        BY <3>2, <3>3, <3>4, Parameters
      <4>2. n - g > 0
        <5> SUFFICES ASSUME ~(n - g > 0) PROVE FALSE
          OBVIOUS
        <5>1. (g - n) * Tick \in Nat
          BY OutagesAssumption
        <5> QED
          BY <3>5, <4>1, <5>1, Parameters
      <4> QED
        BY <4>1, <4>2
    <3> QED
      BY <2>1, <3>2, <3>5 DEF DueInv
  <2> QED
    BY <2>1, <2>2 DEF DueInv, Jobs
<1> QED
  BY <1>1, <1>2, <1>3, NextKinds

\* How many there are, with one more, with one less, and in two parts.
LEMMA OneMore ==
  ASSUME NEW S, IsFiniteSet(S), NEW x
  PROVE  /\ IsFiniteSet(S \cup {x}) /\ Cardinality(S \cup {x}) \in Nat
         /\ Cardinality(S \cup {x}) <= Cardinality(S) + 1
<1>1. IsFiniteSet(S \cup {x}) /\ Cardinality(S) \in Nat
  BY FS_AddElement, FS_CardinalityType
<1>2. Cardinality(S \cup {x}) = IF x \in S THEN Cardinality(S) ELSE Cardinality(S) + 1
  BY FS_AddElement
<1> QED
  BY <1>1, <1>2

LEMMA OneLess ==
  ASSUME NEW S, IsFiniteSet(S), NEW x \in S
  PROVE  Cardinality(S \ {x}) = Cardinality(S) - 1
BY FS_RemoveElement

LEMMA TwoParts ==
  ASSUME NEW S, IsFiniteSet(S), NEW T, IsFiniteSet(T), S \cap T = {}
  PROVE  /\ Cardinality(S) \in Nat /\ Cardinality(T) \in Nat
         /\ Cardinality(S \cup T) = Cardinality(S) + Cardinality(T)
<1>1. Cardinality(S) \in Nat /\ Cardinality(T) \in Nat
  BY FS_CardinalityType
<1>2. Cardinality(S \cap T) = 0
  BY FS_EmptySet
<1>3. Cardinality(S \cup T) = Cardinality(S) + Cardinality(T) - Cardinality(S \cap T)
  BY FS_Union
<1> QED
  BY <1>1, <1>2, <1>3

LEMMA RoomStep ==
  ASSUME OutageInv, Next
  PROVE  RoomInv'
<1> USE DEF OutageInv
<1>f. IsFiniteSet(queue) /\ IsFiniteSet(ready)
  BY DEF RoomInv
<1>m. MaxIncidents \in Nat
  BY Parameters
<1>0. /\ IsFiniteSet(Starts(queue)) /\ IsFiniteSet(Starts(ready)) /\ Starts({}) = {}
      /\ Cardinality(Starts(queue)) \in Nat /\ Cardinality(Starts(ready)) \in Nat
      /\ Len(incidents) \in Nat
  <2>1. Starts(queue) \in SUBSET queue /\ Starts(ready) \in SUBSET ready
    BY DEF Starts
  <2>2. IsFiniteSet(Starts(queue)) /\ IsFiniteSet(Starts(ready))
    BY <2>1, FS_Subset DEF RoomInv
  <2> QED
    BY <2>2, FS_CardinalityType, OutageRows DEF Starts
<1>1. ASSUME ready' = ready \/ \E j \in ready : ready' = ready \ {j}
      PROVE  /\ IsFiniteSet(ready')
             /\ Starts(ready') \subseteq Starts(ready)
             /\ Cardinality(Starts(ready')) <= Cardinality(Starts(ready))
             /\ Cardinality(Starts(ready')) \in Nat
  <2>1. IsFiniteSet(ready')
    BY <1>1, FS_RemoveElement DEF RoomInv
  <2>2. Starts(ready') \in SUBSET Starts(ready)
    BY <1>1 DEF Starts
  <2> QED
    BY <1>0, <2>1, <2>2, FS_Subset, FS_CardinalityType
<1>2. CASE Quietly
  <2>1. ready' = ready \/ \E j \in ready : ready' = ready \ {j} /\ phase = "due"
    BY <1>2 DEF Quietly, Takes
  <2>2. ready' # {} => phase' = "due"
    BY <1>2, <2>1 DEF Quietly, MovesOn, RoomInv
  <2>3. IsFiniteSet(queue') /\ Starts(queue') = Starts(queue) /\ Len(incidents') = Len(incidents)
    BY <1>2, PushedJobs DEF Quietly, Pushes, SameOutages, RoomInv
  <2> QED
    BY <1>0, <1>m, <1>1, <2>1, <2>2, <2>3 DEF RoomInv
<1>3. CASE Hands
  <2>1. ready' = ready /\ phase' = phase /\ Len(incidents') = Len(incidents)
    BY <1>3 DEF Hands, Acts, Pushes, SameOutages
  <2>2. IsFiniteSet(queue') /\ Starts(queue') = Starts(queue)
    <3>1. CASE Pushes
      BY <3>1, PushedJobs DEF RoomInv
    <3>2. CASE PassesOn
      <4>1. PICK j : queue' = queue \cup {j} /\ j.kind = "handoff"
        BY <3>2, PassedJobs
      <4>2. Starts(queue') = Starts(queue)
        BY <4>1 DEF Starts
      <4>3. IsFiniteSet(queue')
        BY <1>f, <4>1, FS_AddElement
      <4> QED
        BY <4>2, <4>3
    <3> QED
      BY <1>3, <3>1, <3>2 DEF Hands, Acts
  <2> QED
    BY <2>1, <2>2 DEF RoomInv
<1>4. CASE Breaks
  <2>1. PICK m \in Modules, length \in Nat \ {0} : Begin(m, length)
    BY <1>4 DEF Breaks
  <2>2. Len(incidents') = Len(incidents) + 1
    BY <2>1, BeginAppends
  <2>3. IsFiniteSet(queue') /\ Starts(queue') = Starts(queue)
    <3>1. PICK e \in Job : queue' = queue \cup {e} /\ e.kind = "end"
      BY <2>1, BegunJobs
    <3>2. Starts(queue') = Starts(queue)
      BY <3>1 DEF Starts
    <3>3. IsFiniteSet(queue')
      BY <1>f, <3>1, FS_AddElement
    <3> QED
      BY <3>2, <3>3
  <2>4. CASE Room /\ ready' = ready
    BY <1>0, <1>m, <1>4, <2>2, <2>3, <2>4 DEF RoomInv, Room, Breaks
  <2>5. CASE \E j \in ready : j.kind = "start" /\ phase = "due" /\ ready' = ready \ {j}
    <3>1. PICK j \in ready : j.kind = "start" /\ phase = "due" /\ ready' = ready \ {j}
      BY <2>5
    <3>2. Starts(ready') = Starts(ready) \ {j} /\ j \in Starts(ready)
      BY <3>1 DEF Starts
    <3>3. Cardinality(Starts(ready')) = Cardinality(Starts(ready)) - 1
      BY <1>0, <3>2, OneLess
    <3>4. phase' = "due"
      BY <1>4, <3>1 DEF Breaks
    <3> QED
      BY <1>0, <1>m, <1>1, <2>2, <2>3, <3>1, <3>3, <3>4 DEF RoomInv
  <2> QED
    BY <1>4, <2>4, <2>5 DEF Breaks
<1>5. CASE Plans
  <2>1. Room /\ UNCHANGED <<incidents, ready, phase>>
    BY <1>5 DEF Plans, Plan
  <2>2. PICK j \in Job : queue' = queue \cup {j} /\ j.kind = "start"
    BY <1>5, PlannedJobs
  <2>3. Starts(queue') = Starts(queue) \cup {j}
    BY <2>2 DEF Starts
  <2>4. /\ Cardinality(Starts(queue')) \in Nat
        /\ Cardinality(Starts(queue')) <= Cardinality(Starts(queue)) + 1
    <3> DEFINE S == Starts(queue)
    <3>1. IsFiniteSet(S)
      BY <1>0
    <3> HIDE DEF S
    <3>2. Cardinality(S \cup {j}) \in Nat /\ Cardinality(S \cup {j}) <= Cardinality(S) + 1
      BY <3>1, OneMore
    <3> QED
      BY <2>3, <3>2 DEF S
  <2>5. IsFiniteSet(queue')
    BY <1>f, <2>2, FS_AddElement
  <2> QED
    BY <1>0, <1>m, <2>1, <2>4, <2>5 DEF RoomInv, Room
<1>6. CASE \E j \in ready : RunEnd(j)
  <2>1. PICK j \in ready : RunEnd(j)
    BY <1>6
  <2>2. ready' = ready \ {j} /\ phase' = "due" /\ queue' = queue
    BY <2>1 DEF RunEnd, Running
  <2>3. Len(incidents') = Len(incidents)
    BY <2>1, EndCloses
  <2> QED
    BY <1>0, <1>m, <1>1, <2>2, <2>3 DEF RoomInv
<1>7. CASE Advance
  <2>1. /\ ready = {} /\ Jobs' = {Later(j) : j \in queue}
        /\ ready' = {j \in Jobs' : j.due <= 0} /\ queue' = {j \in Jobs' : j.due > 0}
    BY <1>7, AdvanceMoves
  <2>2. phase' = "due" /\ Len(incidents') = Len(incidents)
    BY <1>7 DEF Advance
  <2>3. IsFiniteSet(Jobs')
    <3> DEFINE f == [j \in queue |-> Later(j)]
    <3>1. f \in [queue -> Jobs'] /\ \A j \in Jobs' : \E l \in queue : f[l] = j
      BY <2>1
    <3> HIDE DEF f
    <3>2. f \in Surjection(queue, Jobs')
      BY <3>1, Fun_IsSurj
    <3> QED
      BY <3>2, FS_Surjection DEF RoomInv
  <2>4. IsFiniteSet(queue') /\ IsFiniteSet(ready')
    <3>1. queue' \in SUBSET Jobs' /\ ready' \in SUBSET Jobs'
      BY <2>1
    <3> QED
      BY <2>3, <3>1, FS_Subset
  <2>5. IsFiniteSet(Starts(Jobs')) /\ Cardinality(Starts(Jobs')) <= Cardinality(Starts(queue))
    <3> DEFINE f == [j \in Starts(queue) |-> Later(j)]
    <3>1. \A j \in queue : Later(j).kind = j.kind
      BY JobMoves DEF TypeOK
    <3>2. /\ \A j \in Starts(queue) : Later(j) \in Starts(Jobs')
          /\ \A j \in Starts(Jobs') : \E l \in Starts(queue) : Later(l) = j
      BY <2>1, <3>1 DEF Starts
    <3>3. /\ f \in [Starts(queue) -> Starts(Jobs')]
          /\ \A j \in Starts(Jobs') : \E l \in Starts(queue) : f[l] = j
      BY <3>2
    <3> HIDE DEF f
    <3>4. f \in Surjection(Starts(queue), Starts(Jobs'))
      BY <3>3, Fun_IsSurj
    <3> QED
      BY <1>0, <3>4, FS_Surjection
  <2>6. /\ Starts(Jobs') = Starts(queue') \cup Starts(ready')
        /\ Starts(queue') \cap Starts(ready') = {}
    <3>1. \A j \in Jobs' : j.due \in Int
      BY <2>1, JobMoves DEF TypeOK
    <3>2. \A j \in Jobs' : (j \in ready' <=> ~(j \in queue'))
      BY <2>1, <3>1
    <3>3. queue' \subseteq Jobs' /\ ready' \subseteq Jobs'
      BY <2>1
    <3> QED
      BY <3>2, <3>3 DEF Starts
  <2>7. IsFiniteSet(Starts(queue')) /\ IsFiniteSet(Starts(ready'))
    <3>1. Starts(queue') \in SUBSET queue' /\ Starts(ready') \in SUBSET ready'
      BY DEF Starts
    <3> QED
      BY <2>4, <3>1, FS_Subset
  <2>8. /\ Cardinality(Starts(queue')) \in Nat /\ Cardinality(Starts(ready')) \in Nat
        /\ Cardinality(Starts(Jobs')) = Cardinality(Starts(queue')) + Cardinality(Starts(ready'))
    <3> DEFINE S == Starts(queue')
               T == Starts(ready')
    <3>1. IsFiniteSet(S) /\ IsFiniteSet(T) /\ S \cap T = {} /\ Starts(Jobs') = S \cup T
      BY <2>6, <2>7
    <3> HIDE DEF S, T
    <3>2. Cardinality(S) \in Nat /\ Cardinality(T) \in Nat
          /\ Cardinality(S \cup T) = Cardinality(S) + Cardinality(T)
      BY <3>1, TwoParts
    <3> QED
      BY <3>1, <3>2 DEF S, T
  <2> QED
    BY <1>0, <1>m, <2>1, <2>2, <2>4, <2>5, <2>8, FS_EmptySet DEF RoomInv
<1> QED
  BY <1>2, <1>3, <1>4, <1>5, <1>6, <1>7, NextKinds

-----------------------------------------------------------------------------
(* HandoffInv, in its three parts. *)

HandsAbout ==
  \A h \in Jobs : h.kind = "handoff" =>
    h.about \in 1 .. Len(incidents) /\ incidents[h.about].mod = h.mod

HandsQueued ==
  \A h \in queue : h.kind = "handoff" =>
    phase \in AfterMeeting /\ h.due = Tick /\ incidents[h.about].open

FindsItOver(h) ==
  ~incidents[h.about].open =>
    \A i \in 1 .. Len(incidents) : incidents[i].mod = h.mod => ~incidents[i].open

FindsItFirst(h, s) ==
  /\ incidents[h.about].open
  /\ \A e \in ready : e.kind = "end" /\ e.mod = h.mod => s.due < e.due

HandsTaken ==
  \A h \in ready : h.kind = "handoff" =>
    /\ FindsItOver(h)
    /\ \A s \in ready : s.kind = "start" /\ s.mod = h.mod /\ s.due < h.due => FindsItFirst(h, s)

LEMMA HandoffParts == HandoffInv <=> HandsAbout /\ HandsQueued /\ HandsTaken
BY DEF HandoffInv, HandsAbout, HandsQueued, HandsTaken, FindsItOver, FindsItFirst, AfterMeeting

LEMMA HandoffPartsNext == HandoffInv' <=> HandsAbout' /\ HandsQueued' /\ HandsTaken'
BY DEF HandoffInv, HandsAbout, HandsQueued, HandsTaken, FindsItOver, FindsItFirst, AfterMeeting

\* A step that opens and closes nothing leaves every complaint what it finds.
LEMMA SameFound ==
  ASSUME HandsTaken, HandsAbout, SameOutages, ready' \subseteq ready
  PROVE  HandsTaken'
BY DEF HandsTaken, HandsAbout, SameOutages, FindsItOver, FindsItFirst, Jobs

LEMMA QuietHandoffs ==
  ASSUME OutageInv, Quietly
  PROVE  HandoffInv'
<1> USE DEF OutageInv
<1>1. HandsAbout /\ HandsQueued /\ HandsTaken
  BY HandoffParts
<1>2. SameOutages /\ ready' \subseteq ready
  BY DEF Quietly, Pushes, Takes
<1>3. \A h \in queue' : h.kind = "handoff" => h \in queue
  BY PushedJobs DEF Quietly
<1>4. HandsAbout'
  BY <1>1, <1>2, <1>3 DEF HandsAbout, Jobs, SameOutages
<1>5. HandsQueued'
  <2>1. \A h \in queue : h.kind = "handoff" => phase' \in AfterMeeting
    BY <1>1 DEF HandsQueued, Quietly, MovesOn
  <2>2. \A h \in queue : h.kind = "handoff" => h.about \in 1 .. Len(incidents)
    BY <1>1 DEF HandsAbout, Jobs
  <2> QED
    BY <1>1, <1>2, <1>3, <2>1, <2>2 DEF HandsQueued, SameOutages
<1>6. HandsTaken'
  BY <1>1, <1>2, SameFound
<1> QED
  BY <1>4, <1>5, <1>6, HandoffPartsNext

LEMMA HandedHandoffs ==
  ASSUME OutageInv, Hands
  PROVE  HandoffInv'
<1> USE DEF OutageInv
<1>1. HandsAbout /\ HandsQueued /\ HandsTaken
  BY HandoffParts
<1>2. SameOutages /\ ready' = ready /\ phase' = phase /\ phase \in AfterMeeting
  BY DEF Hands, Acts, Pushes, AfterMeeting
<1>3. ASSUME NEW h \in queue', h.kind = "handoff"
      PROVE  \/ h \in queue
             \/ /\ h.about \in 1 .. Len(incidents) /\ incidents[h.about].open
                /\ incidents[h.about].mod = h.mod /\ h.due = Tick
  <2>1. CASE Pushes
    BY <1>3, <2>1, PushedJobs
  <2>2. CASE PassesOn
    BY <1>3, <2>2, PassedJobs
  <2> QED
    BY <2>1, <2>2 DEF Hands, Acts
<1>4. HandsAbout'
  BY <1>1, <1>2, <1>3 DEF HandsAbout, Jobs, SameOutages
<1>5. HandsQueued'
  BY <1>1, <1>2, <1>3 DEF HandsQueued, HandsAbout, Jobs, SameOutages
<1>6. HandsTaken'
  BY <1>1, <1>2, SameFound
<1> QED
  BY <1>4, <1>5, <1>6, HandoffPartsNext

\* Nothing is passed on before people have met.
LEMMA NoneHanded ==
  ASSUME HandoffInv, phase \notin AfterMeeting
  PROVE  \A h \in queue : h.kind # "handoff"
BY DEF HandoffInv, AfterMeeting

LEMMA BreakingHandoffs ==
  ASSUME OutageInv, Breaks
  PROVE  HandoffInv'
<1> USE DEF OutageInv
<1> DEFINE n == Len(incidents)
<1>0. n \in Nat /\ n + 1 \notin 1 .. n
  BY OutageRows
<1>1. HandsAbout /\ HandsQueued /\ HandsTaken
  BY HandoffParts
<1>2. PICK m \in Modules, length \in Nat \ {0} :
        /\ Begin(m, length) /\ status[m] = "up" /\ UNCHANGED phase
        /\ \/ phase = "hazard" /\ ready' = ready
           \/ /\ phase = "due"
              /\ \E j \in ready : /\ j.kind = "start" /\ First(j) /\ j.mod = m
                                  /\ ready' = ready \ {j}
  BY DEF Breaks
<1>3. /\ Len(incidents') = n + 1
      /\ \A i \in 1 .. n : incidents'[i] = incidents[i]
      /\ incidents'[n + 1].mod = m /\ incidents'[n + 1].open
  BY <1>2, BeginAppends
<1> HIDE DEF n
<1>4. \A h \in queue' : h.kind # "handoff"
  <2>1. \A h \in queue : h.kind # "handoff"
    BY <1>2, NoneHanded DEF AfterMeeting
  <2>2. PICK e \in Job : queue' = queue \cup {e} /\ e.kind = "end"
    BY <1>2, BegunJobs
  <2> QED
    BY <2>1, <2>2
<1>5. ready' \subseteq ready
  BY <1>2
<1>6. \A h \in ready : h.kind = "handoff" =>
        h.about \in 1 .. n /\ incidents[h.about].mod = h.mod /\ incidents'[h.about] = incidents[h.about]
  BY <1>1, <1>3 DEF HandsAbout, Jobs, n
<1>7. HandsAbout'
  BY <1>0, <1>3, <1>4, <1>5, <1>6 DEF HandsAbout, Jobs
<1>8. HandsQueued'
  BY <1>4 DEF HandsQueued
<1>9. ASSUME NEW h \in ready', h.kind = "handoff"
      PROVE  h.mod # m
  <2>1. PICK j \in ready : j.kind = "start" /\ First(j) /\ j.mod = m /\ ready' = ready \ {j}
    BY <1>2, <1>9 DEF RoomInv
  <2>2. h \in ready /\ Before(j, h)
    BY <1>5, <1>9, <2>1 DEF First
  <2>3. j.due < h.due
    BY <1>9, <2>1, <2>2 DEF Before
  <2>4. SUFFICES ASSUME h.mod = m PROVE FALSE
    OBVIOUS
  <2>5. incidents[h.about].open
    BY <1>1, <1>9, <2>1, <2>2, <2>3, <2>4 DEF HandsTaken, FindsItFirst
  <2> QED
    BY <1>2, <1>6, <1>9, <2>2, <2>4, <2>5 DEF EndInv, n
<1>10. HandsTaken'
  <2>1. ASSUME NEW h \in ready', h.kind = "handoff"
        PROVE  FindsItOver(h)'
    <3>1. h \in ready /\ h.mod # m /\ incidents'[h.about] = incidents[h.about]
      BY <1>5, <1>6, <1>9, <2>1
    <3>2. FindsItOver(h)
      BY <1>1, <2>1, <3>1 DEF HandsTaken
    <3> QED
      BY <1>0, <1>3, <3>1, <3>2 DEF FindsItOver, n
  <2>2. ASSUME NEW h \in ready', NEW s \in ready', h.kind = "handoff",
               s.kind = "start", s.mod = h.mod, s.due < h.due
        PROVE  FindsItFirst(h, s)'
    BY <1>1, <1>5, <1>6, <2>2 DEF HandsTaken, FindsItFirst
  <2> QED
    BY <2>1, <2>2 DEF HandsTaken
<1> QED
  BY <1>7, <1>8, <1>10, HandoffPartsNext

LEMMA EndingHandoffs ==
  ASSUME OutageInv, NEW j \in ready, RunEnd(j)
  PROVE  HandoffInv'
<1> USE DEF OutageInv
<1>1. HandsAbout /\ HandsQueued /\ HandsTaken
  BY HandoffParts
<1>2. /\ j.about \in 1 .. Len(incidents)
      /\ incidents[j.about].open /\ incidents[j.about].mod = j.mod
      /\ j.kind = "end" /\ First(j)
      /\ Len(incidents') = Len(incidents)
      /\ \A i \in 1 .. Len(incidents) :
           /\ incidents'[i].mod = incidents[i].mod
           /\ incidents'[i].open <=> (incidents[i].open /\ i # j.about)
      /\ ready' = ready \ {j}
  BY EndCloses
<1>3. queue' = queue /\ phase = "due"
  BY DEF RunEnd, Running
<1>4. \A h \in queue : h.kind # "handoff"
  BY <1>3, NoneHanded DEF AfterMeeting
<1>5. HandsAbout'
  BY <1>1, <1>2, <1>3 DEF HandsAbout, Jobs
<1>6. HandsQueued'
  BY <1>3, <1>4 DEF HandsQueued
<1>7. ASSUME NEW h \in ready', h.kind = "handoff"
      PROVE  FindsItOver(h)'
  <2>1. h \in ready /\ h.about \in 1 .. Len(incidents) /\ incidents[h.about].mod = h.mod
    BY <1>1, <1>2, <1>7 DEF HandsAbout, Jobs
  <2>2. CASE h.mod = j.mod
    <3>1. \A i \in 1 .. Len(incidents) : incidents[i].open /\ incidents[i].mod = h.mod => i = j.about
      BY <1>2, <2>2 DEF EndInv
    <3> QED
      BY <1>2, <3>1 DEF FindsItOver
  <2>3. CASE h.mod # j.mod
    <3>1. FindsItOver(h)
      BY <1>1, <1>7, <2>1 DEF HandsTaken
    <3> QED
      BY <1>2, <2>1, <2>3, <3>1 DEF FindsItOver
  <2> QED
    BY <2>2, <2>3
<1>8. ASSUME NEW h \in ready', NEW s \in ready', h.kind = "handoff",
             s.kind = "start", s.mod = h.mod, s.due < h.due
      PROVE  FindsItFirst(h, s)'
  <2>1. h \in ready /\ s \in ready /\ h.about \in 1 .. Len(incidents)
        /\ incidents[h.about].mod = h.mod
    BY <1>1, <1>2, <1>8 DEF HandsAbout, Jobs
  <2>2. FindsItFirst(h, s)
    BY <1>1, <1>8, <2>1 DEF HandsTaken
  <2>3. h.mod # j.mod
    <3>1. SUFFICES ASSUME h.mod = j.mod PROVE FALSE
      OBVIOUS
    <3>2. s.due < j.due
      BY <1>2, <2>2, <3>1 DEF FindsItFirst
    <3>3. Before(j, s)
      BY <1>2, <2>1 DEF First
    <3>4. s.due \in Int /\ j.due \in Int
      BY <2>1 DEF TypeOK, Job
    <3> QED
      BY <3>2, <3>3, <3>4 DEF Before
  <2> QED
    BY <1>2, <2>1, <2>2, <2>3 DEF FindsItFirst
<1>9. HandsTaken'
  BY <1>7, <1>8 DEF HandsTaken
<1> QED
  BY <1>5, <1>6, <1>9, HandoffPartsNext

LEMMA AdvancingHandoffs ==
  ASSUME OutageInv, Advance
  PROVE  HandoffInv'
<1> USE DEF OutageInv
<1> USE Parameters
<1>1. HandsAbout /\ HandsQueued /\ HandsTaken
  BY HandoffParts
<1>2. /\ Jobs = queue /\ Jobs' = {Later(j) : j \in queue}
      /\ ready' = {j \in Jobs' : j.due <= 0} /\ queue' = {j \in Jobs' : j.due > 0}
  BY AdvanceMoves
<1>3. incidents' = incidents
  BY DEF Advance
<1> DEFINE gap == Calendar[clock].gap
<1>4. gap \in Nat /\ gap >= Tick
  <2> HIDE DEF OutageInv
  <2>0. TypeOK
    BY DEF OutageInv
  <2>1. Tick \in Nat
    BY Parameters
  <2> QED
    BY <2>0, <2>1, GapIsANumber
<1>5. ASSUME NEW j \in Jobs'
      PROVE  \E l \in queue : /\ j.due = l.due - gap /\ l.due \in Int
                              /\ j.kind = l.kind /\ j.mod = l.mod /\ j.about = l.about
  <2>1. PICK l \in queue : j = Later(l)
    BY <1>2, <1>5
  <2>2. TypeOK /\ l \in Job
    BY <2>1 DEF TypeOK
  <2> QED
    BY <2>1, <2>2, JobMoves
<1> HIDE DEF gap
<1>6. HandsAbout'
  BY <1>1, <1>2, <1>3, <1>5 DEF HandsAbout
<1>7. ASSUME NEW h \in Jobs', h.kind = "handoff"
      PROVE  h.due = Tick - gap /\ incidents[h.about].open
  <2>1. PICK l \in queue : h.due = l.due - gap /\ l.kind = "handoff" /\ h.about = l.about
    BY <1>5, <1>7
  <2>2. l.due = Tick /\ incidents[l.about].open
    BY <1>1, <2>1 DEF HandsQueued
  <2> QED
    BY <2>1, <2>2
<1>8. HandsQueued'
  BY <1>2, <1>4, <1>7 DEF HandsQueued
<1>9. ASSUME NEW h \in ready', NEW s \in ready', h.kind = "handoff",
             s.kind = "start", s.mod = h.mod, s.due < h.due
      PROVE  FindsItFirst(h, s)'
  <2>1. h \in Jobs' /\ s \in Jobs' /\ h.due = Tick - gap
    BY <1>2, <1>7, <1>9
  <2>2. PICK b \in queue : s.due = b.due - gap /\ b.due \in Int /\ b.kind = "start"
    BY <1>5, <1>9, <2>1
  <2>3. b.due < Tick
    BY <1>4, <1>9, <2>1, <2>2
  <2>4. PICK n \in 0 .. 100 : b.due = n * Tick
    BY <2>2 DEF DueInv
  <2>5. b.due = 0
    BY <2>3, <2>4, NoTicks
  <2>6. ASSUME NEW e \in ready', e.kind = "end"
        PROVE  s.due < e.due
    <3>0. e \in Jobs'
      BY <1>2
    <3>1. PICK c \in queue : e.due = c.due - gap /\ c.due \in Int /\ c.kind = "end"
      BY <1>5, <2>6, <3>0
    <3>2. c.due > 0
      BY <3>1 DEF DueInv
    <3> QED
      BY <1>4, <2>2, <2>5, <3>1, <3>2
  <2> QED
    BY <1>3, <1>7, <1>9, <2>1, <2>6 DEF FindsItFirst
<1>10. HandsTaken'
  <2>1. \A h \in ready' : h.kind = "handoff" => FindsItOver(h)'
    BY <1>2, <1>3, <1>7 DEF FindsItOver
  <2> QED
    BY <1>9, <2>1 DEF HandsTaken
<1> QED
  BY <1>6, <1>8, <1>10, HandoffPartsNext

LEMMA HandoffStep ==
  ASSUME OutageInv, Next
  PROVE  HandoffInv'
<1>1. CASE Plans
  <2> USE DEF OutageInv
  <2>1. HandsAbout /\ HandsQueued /\ HandsTaken
    BY HandoffParts
  <2>2. UNCHANGED <<incidents, ready, phase>>
    BY <1>1 DEF Plans, Plan
  <2>3. PICK j \in Job : queue' = queue \cup {j} /\ j.kind = "start"
    BY <1>1, PlannedJobs
  <2>4. HandsAbout' /\ HandsQueued'
    BY <2>1, <2>2, <2>3 DEF HandsAbout, HandsQueued, Jobs
  <2>5. HandsTaken'
    BY <2>1, <2>2 DEF HandsTaken, FindsItOver, FindsItFirst
  <2> QED
    BY <2>4, <2>5, HandoffPartsNext
<1> QED
  BY <1>1, NextKinds, QuietHandoffs, HandedHandoffs, BreakingHandoffs, EndingHandoffs,
     AdvancingHandoffs

-----------------------------------------------------------------------------
(* The notices *)

Waits == Nat \cup {NoNotice}

LEMMA NoticeWritten ==
  ASSUME NEW r \in Notice, NEW w \in Waits
  PROVE  /\ [r EXCEPT !.wait = w] \in Notice
         /\ [r EXCEPT !.wait = w].wait = w
         /\ [r EXCEPT !.wait = w].ticket = r.ticket
         /\ [r EXCEPT !.wait = NoNotice, !.way = "none"] \in Notice
         /\ [r EXCEPT !.wait = NoNotice, !.way = "none"].wait = NoNotice
         /\ [r EXCEPT !.wait = NoNotice, !.way = "none"].ticket = r.ticket
         /\ r.wait \in Waits /\ r.ticket \in Nat
BY DEF Notice, Waits, Ways

LEMMA NoticeDecided ==
  ASSUME NEW r \in Notice, NEW way \in Ways, NEW k \in Nat
  PROVE  /\ [r EXCEPT !.way = way, !.ticket = k] \in Notice
         /\ [r EXCEPT !.way = way, !.ticket = k].wait = r.wait
         /\ [r EXCEPT !.way = way, !.ticket = k].ticket = k
BY DEF Notice

Notices == [Ids -> [People -> Notice]]

LEMMA NoticeRows ==
  ASSUME TypeOK, NEW i \in Ids, NEW p \in People
  PROVE  notices[i][p] \in Notice /\ notices[i][p].wait \in Waits /\ notices[i][p].ticket \in Nat
BY DEF TypeOK, Notice, Waits

\* The notices of one outage are written.
LEMMA OneOutage ==
  ASSUME TypeOK, NEW i \in Ids, NEW rows \in [People -> Notice],
         notices' = [notices EXCEPT ![i] = rows]
  PROVE  /\ notices' \in Notices
         /\ \A l \in Ids, q \in People :
              notices'[l][q] = IF l = i THEN rows[q] ELSE notices[l][q]
BY DEF TypeOK, Notices

LEMMA BegunNotices ==
  ASSUME TypeOK, NEW m \in Modules, NEW length \in Nat \ {0}, Begin(m, length)
  PROVE  /\ notices' \in Notices
         /\ \A i \in Ids, p \in People :
              /\ notices'[i][p].ticket = notices[i][p].ticket
              /\ i # Len(incidents) + 1 => notices'[i][p] = notices[i][p]
<1> DEFINE n == Len(incidents) + 1
           users == IF gone THEN {} ELSE Uses[m]
<1>1. PICK drawn \in [users -> Delays] :
        notices' = [notices EXCEPT ![n] = [p \in People |->
          IF p \in users THEN [notices[n][p] EXCEPT !.wait = drawn[p]] ELSE notices[n][p]]]
  BY DEF Begin
<1>2. \A p \in users : drawn[p] \in Waits
  BY Parameters DEF Waits
<1> HIDE DEF users
<1> DEFINE rows == [p \in People |->
             IF p \in users THEN [notices[n][p] EXCEPT !.wait = drawn[p]] ELSE notices[n][p]]
<1>3. CASE n \in Ids
  <2>1. ASSUME NEW p \in People
        PROVE  rows[p] \in Notice /\ rows[p].ticket = notices[n][p].ticket
    <3> DEFINE old == notices[n][p]
               wait == drawn[p]
    <3>1. old \in Notice
      BY <1>3, NoticeRows
    <3>2. rows[p] = IF p \in users THEN [old EXCEPT !.wait = wait] ELSE old
      OBVIOUS
    <3>3. p \in users => wait \in Waits
      BY <1>2
    <3> HIDE DEF old, rows, wait
    <3>4. p \in users => /\ [old EXCEPT !.wait = wait] \in Notice
                         /\ [old EXCEPT !.wait = wait].ticket = old.ticket
      BY <3>1, <3>3, NoticeWritten
    <3> QED
      BY <3>1, <3>2, <3>4 DEF old
  <2>2. rows \in [People -> Notice]
    BY <2>1
  <2>3. /\ notices' \in Notices
        /\ \A l \in Ids, q \in People : notices'[l][q] = IF l = n THEN rows[q] ELSE notices[l][q]
    <3>1. notices' = [notices EXCEPT ![n] = rows]
      BY <1>1
    <3> HIDE DEF rows, n
    <3> QED
      BY <1>3, <2>2, <3>1, OneOutage
  <2> QED
    BY <2>1, <2>3
<1>4. CASE n \notin Ids
  <2>1. notices' = notices
    BY <1>1, <1>4 DEF TypeOK
  <2> QED
    BY <2>1 DEF TypeOK, Notices
<1> QED
  BY <1>3, <1>4

\* The notices of an outage that has ended: what nobody had heard is withdrawn.
Withdrawn(i) ==
  /\ notices' \in Notices
  /\ \A l \in Ids, p \in People :
       /\ notices'[l][p].ticket = notices[l][p].ticket
       /\ l # i => notices'[l][p] = notices[l][p]
       /\ notices'[i][p].wait \in {NoNotice, 0}
       /\ notices'[i][p].wait = notices[i][p].wait \/ notices'[i][p].wait = NoNotice
       /\ notices'[i][p].ticket # NoTicket => notices'[i][p].wait = 0

LEMMA EndedNotices ==
  ASSUME OutageInv, NEW i \in 1 .. Len(incidents), i \in Ids,
         notices' = [notices EXCEPT ![i] = Withdraw(i)]
  PROVE  Withdrawn(i)
<1> USE DEF OutageInv
<1>1. ASSUME NEW p \in People
      PROVE  /\ Withdraw(i)[p] \in Notice
             /\ Withdraw(i)[p].ticket = notices[i][p].ticket
             /\ Withdraw(i)[p].wait \in {NoNotice, 0}
             /\ Withdraw(i)[p].wait = notices[i][p].wait \/ Withdraw(i)[p].wait = NoNotice
             /\ Withdraw(i)[p].ticket # NoTicket => Withdraw(i)[p].wait = 0
  <2> DEFINE row == notices[i][p]
  <2>1. row \in Notice /\ row.wait \in Waits
    BY NoticeRows
  <2>2. row.ticket # NoTicket => row.wait = 0
    BY DEF NoticeInv
  <2>3. Withdraw(i)[p] = IF row.wait > 0 /\ row.ticket = NoTicket
                           THEN [row EXCEPT !.wait = NoNotice, !.way = "none"] ELSE row
    BY DEF Withdraw
  <2> HIDE DEF row
  <2>4. CASE row.wait > 0 /\ row.ticket = NoTicket
    BY <2>1, <2>3, <2>4, NoticeWritten DEF row
  <2>5. CASE ~(row.wait > 0 /\ row.ticket = NoTicket)
    BY <2>1, <2>2, <2>3, <2>5 DEF row, Waits, NoNotice
  <2> QED
    BY <2>4, <2>5
<1>2. Withdraw(i) \in [People -> Notice]
  BY <1>1 DEF Withdraw
<1>3. /\ notices' \in Notices
      /\ \A l \in Ids, q \in People :
           notices'[l][q] = IF l = i THEN Withdraw(i)[q] ELSE notices[l][q]
  BY <1>2, OneOutage
<1> QED
  BY <1>1, <1>3 DEF Withdrawn

LEMMA HeardNotices ==
  ASSUME TypeOK, NEW i \in Ids, NEW p \in People, notices' = [notices EXCEPT ![i][p].wait = 0]
  PROVE  /\ notices' \in Notices
         /\ \A l \in Ids, q \in People :
              /\ notices'[l][q].ticket = notices[l][q].ticket
              /\ notices'[l][q].wait = notices[l][q].wait \/ (l = i /\ notices'[l][q].wait = 0)
<1> DEFINE old == notices[i][p]
           row == [old EXCEPT !.wait = 0]
<1>1. old \in Notice
  BY NoticeRows
<1>2. row \in Notice /\ row.wait = 0 /\ row.ticket = old.ticket
  <2> HIDE DEF old
  <2>1. 0 \in Waits
    BY DEF Waits
  <2> QED
    BY <1>1, <2>1, NoticeWritten
<1>3. notices' = [notices EXCEPT ![i][p] = row]
  OBVIOUS
<1> HIDE DEF row
<1>4. /\ notices' \in Notices /\ notices'[i][p] = row
      /\ \A l \in Ids, q \in People : l # i \/ q # p => notices'[l][q] = notices[l][q]
  <2>1. notices \in Notices /\ row \in Notice
    BY <1>2 DEF TypeOK, Notices
  <2> QED
    BY <1>3, <2>1 DEF Notices
<1> QED
  BY <1>2, <1>4

LEMMA DecidedNotices ==
  ASSUME TypeOK, NEW i \in Ids, NEW p \in People, NEW way \in Ways, NEW k \in Nat
  PROVE  notices' = [notices EXCEPT ![i][p] = [@ EXCEPT !.way = way, !.ticket = k]] =>
           /\ notices' \in Notices
           /\ notices'[i][p].ticket = k /\ notices'[i][p].wait = notices[i][p].wait
           /\ \A l \in Ids, q \in People : l # i \/ q # p => notices'[l][q] = notices[l][q]
<1> DEFINE old == notices[i][p]
           row == [old EXCEPT !.way = way, !.ticket = k]
<1>1. old \in Notice /\ notices \in Notices
  BY NoticeRows DEF TypeOK, Notices
<1>2. row \in Notice /\ row.wait = old.wait /\ row.ticket = k
  <2> HIDE DEF old
  <2> QED
    BY <1>1 DEF Notice
<1>3. ASSUME notices' = [notices EXCEPT ![i][p] = row]
      PROVE  /\ notices' \in Notices /\ notices'[i][p] = row
             /\ \A l \in Ids, q \in People : l # i \/ q # p => notices'[l][q] = notices[l][q]
  <2> HIDE DEF row
  <2> QED
    BY <1>1, <1>2, <1>3 DEF Notices
<1>4. ASSUME notices' = [notices EXCEPT ![i][p] = [@ EXCEPT !.way = way, !.ticket = k]]
      PROVE  notices' = [notices EXCEPT ![i][p] = row]
  BY <1>4
<1> QED
  BY <1>2, <1>3, <1>4

LEMMA NearerNotices ==
  ASSUME TypeOK, Advance
  PROVE  /\ notices' \in Notices
         /\ \A i \in Ids, p \in People :
              /\ notices'[i][p].ticket = notices[i][p].ticket
              /\ notices[i][p].wait \in {NoNotice, 0} => notices'[i][p].wait = notices[i][p].wait
<1> DEFINE gap == Calendar[clock].gap
<1>0. gap \in Nat
  BY GapIsANumber
<1>1. notices' = [i \in Ids |-> [p \in People |->
                   IF notices[i][p].wait = NoNotice THEN notices[i][p]
                   ELSE [notices[i][p] EXCEPT !.wait = Nearer(@)]]]
  BY DEF Advance
<1>2. ASSUME NEW i \in Ids, NEW p \in People
      PROVE  /\ notices'[i][p] \in Notice
             /\ notices'[i][p].ticket = notices[i][p].ticket
             /\ notices[i][p].wait \in {NoNotice, 0} => notices'[i][p].wait = notices[i][p].wait
  <2> DEFINE row == notices[i][p]
             wait == Nearer(row.wait)
  <2>1. row \in Notice /\ row.wait \in Waits
    BY NoticeRows
  <2>2. notices'[i][p] = IF row.wait = NoNotice THEN row ELSE [row EXCEPT !.wait = wait]
    BY <1>1
  <2>3. row.wait # NoNotice => wait \in Waits /\ (row.wait = 0 => wait = 0)
    <3> HIDE DEF row
    <3> QED
      BY <1>0, <2>1 DEF Nearer, Waits
  <2> HIDE DEF wait, row
  <2>4. row.wait # NoNotice => /\ [row EXCEPT !.wait = wait] \in Notice
                               /\ [row EXCEPT !.wait = wait].wait = wait
                               /\ [row EXCEPT !.wait = wait].ticket = row.ticket
    BY <2>1, <2>3, NoticeWritten
  <2> QED
    BY <2>1, <2>2, <2>3, <2>4 DEF row
<1>3. notices' \in Notices
  BY <1>1, <1>2 DEF Notices
<1> QED
  BY <1>2, <1>3

-----------------------------------------------------------------------------
(* NoticeInv: by what a step does to the outages and to the notices.       *)

\* Which outages there are, and whether they are open, is as it was.
LEMMA RoomForIds ==
  ASSUME OutageInv
  PROVE  Len(incidents) \in Nat /\ 1 .. Len(incidents) \subseteq Ids
<1>1. /\ Cardinality(Starts(queue)) \in Nat /\ Cardinality(Starts(ready)) \in Nat
      /\ Len(incidents) \in Nat
  <2>1. Starts(queue) \in SUBSET queue /\ Starts(ready) \in SUBSET ready
    BY DEF Starts
  <2>2. IsFiniteSet(Starts(queue)) /\ IsFiniteSet(Starts(ready))
    BY <2>1, FS_Subset DEF RoomInv, OutageInv
  <2> QED
    BY <2>2, FS_CardinalityType, OutageRows DEF OutageInv
<1> QED
  BY <1>1, Parameters DEF OutageInv, RoomInv, Ids

\* Nothing about who has noticed what changes, or becomes a notice that has come.
Unnoticed ==
  /\ notices' \in Notices
  /\ \A i \in Ids, p \in People :
       /\ notices'[i][p].ticket = notices[i][p].ticket
       /\ notices[i][p].wait \in {NoNotice, 0} => notices'[i][p].wait = notices[i][p].wait

LEMMA UnnoticedIsSafe ==
  ASSUME OutageInv, SameOutages, Unnoticed, news' \subseteq news
  PROVE  NoticeInv'
<1> USE DEF OutageInv
<1>1. \A i \in Ids, p \in People : i > Len(incidents) \/ ~incidents[i].open =>
        notices[i][p].wait \in {NoNotice, 0}
  BY DEF NoticeInv
<1>2. Len(incidents) \in Nat /\ Len(incidents') = Len(incidents)
      /\ \A i \in 1 .. Len(incidents) : incidents'[i].open = incidents[i].open
  BY RoomForIds DEF SameOutages
<1>3. ASSUME NEW i \in Ids, NEW p \in People, i > Len(incidents') \/ ~incidents'[i].open
      PROVE  notices'[i][p].wait \in {NoNotice, 0}
  <2>1. i > Len(incidents) \/ ~incidents[i].open
    BY <1>2, <1>3 DEF Ids
  <2> QED
    BY <1>1, <2>1 DEF Unnoticed
<1>4. \A i \in Ids, p \in People : i > Len(incidents') => notices'[i][p].ticket = NoTicket
  BY <1>2 DEF NoticeInv, Unnoticed
<1>5. \A i \in Ids, p \in People : notices'[i][p].ticket # NoTicket => notices'[i][p].wait = 0
  BY DEF NoticeInv, Unnoticed
<1>6. \A i \in news' : i \in 1 .. Len(incidents') /\ incidents'[i].open
  BY <1>2 DEF NoticeInv
<1> QED
  BY <1>3, <1>4, <1>5, <1>6 DEF NoticeInv

LEMMA SameNotices ==
  ASSUME TypeOK, UNCHANGED notices
  PROVE  Unnoticed
BY DEF Unnoticed, TypeOK, Notices

LEMMA BreakingNotices ==
  ASSUME OutageInv, NEW m \in Modules, NEW length \in Nat \ {0}, Begin(m, length)
  PROVE  NoticeInv' /\ notices' \in Notices
<1> USE DEF OutageInv
<1> DEFINE n == Len(incidents)
<1>0. n \in Nat /\ 1 .. n \subseteq Ids
  BY RoomForIds
<1>1. /\ notices' \in Notices
      /\ \A i \in Ids, p \in People :
           /\ notices'[i][p].ticket = notices[i][p].ticket
           /\ i # n + 1 => notices'[i][p] = notices[i][p]
  BY BegunNotices
<1>2. /\ Len(incidents') = n + 1 /\ incidents'[n + 1].open
      /\ \A i \in 1 .. n : incidents'[i] = incidents[i]
  BY BeginAppends
<1>3. news' = news \cup {n + 1}
  BY DEF Begin
<1> HIDE DEF n
<1>4. ASSUME NEW i \in Ids, NEW p \in People, i > n + 1 \/ ~incidents'[i].open
      PROVE  notices'[i][p].wait \in {NoNotice, 0}
  <2>1. i # n + 1
    BY <1>0, <1>2, <1>4
  <2>2. i > n \/ ~incidents[i].open
    BY <1>0, <1>2, <1>4, <2>1 DEF Ids
  <2> QED
    BY <1>1, <2>1, <2>2 DEF NoticeInv, n
<1>5. ASSUME NEW i \in Ids, NEW p \in People
      PROVE  /\ i > n + 1 => notices'[i][p].ticket = NoTicket
             /\ notices'[i][p].ticket # NoTicket => notices'[i][p].wait = 0
  <2>1. CASE i = n + 1
    <3>1. notices[i][p].ticket = NoTicket
      BY <1>0, <2>1 DEF NoticeInv, n
    <3> QED
      BY <1>1, <3>1
  <2>2. CASE i # n + 1
    BY <1>0, <1>1, <2>2 DEF NoticeInv, n, Ids
  <2> QED
    BY <2>1, <2>2
<1>6. ASSUME NEW i \in news'
      PROVE  i \in 1 .. (n + 1) /\ incidents'[i].open
  <2>1. i \in news => i \in 1 .. n /\ incidents[i].open
    BY DEF NoticeInv, n
  <2> QED
    BY <1>0, <1>2, <1>3, <2>1
<1>7. NoticeInv'
  BY <1>2, <1>4, <1>5, <1>6 DEF NoticeInv
<1> QED
  BY <1>1, <1>7

LEMMA EndingNotices ==
  ASSUME OutageInv, NEW j \in ready, RunEnd(j)
  PROVE  NoticeInv' /\ notices' \in Notices
<1> USE DEF OutageInv
<1> DEFINE k == j.about
<1>1. /\ k \in 1 .. Len(incidents)
      /\ Len(incidents') = Len(incidents)
      /\ \A i \in 1 .. Len(incidents) :
           incidents'[i].open <=> (incidents[i].open /\ i # k)
      /\ notices' = [notices EXCEPT ![k] = Withdraw(k)]
      /\ news' = news \ {k}
  BY EndCloses
<1> HIDE DEF k
<1>2. k \in Ids /\ Len(incidents) \in Nat
  BY <1>1, RoomForIds
<1>3. /\ notices' \in Notices
      /\ \A l \in Ids, p \in People :
           /\ notices'[l][p].ticket = notices[l][p].ticket
           /\ l # k => notices'[l][p] = notices[l][p]
           /\ notices'[k][p].wait \in {NoNotice, 0}
           /\ notices'[k][p].ticket # NoTicket => notices'[k][p].wait = 0
  <2> HIDE DEF OutageInv
  <2>1. notices' = [notices EXCEPT ![k] = Withdraw(k)] /\ k \in 1 .. Len(incidents) /\ k \in Ids
    BY <1>1, <1>2
  <2>2. Withdrawn(k)
    BY <2>1, EndedNotices
  <2> QED
    BY <2>2 DEF Withdrawn
<1>4. ASSUME NEW i \in Ids, NEW p \in People, i > Len(incidents') \/ ~incidents'[i].open
      PROVE  notices'[i][p].wait \in {NoNotice, 0}
  <2>1. CASE i = k
    BY <1>3, <2>1
  <2>2. CASE i # k
    <3>1. i > Len(incidents) \/ ~incidents[i].open
      BY <1>1, <1>2, <1>4, <2>2 DEF Ids
    <3> QED
      BY <1>3, <2>2, <3>1 DEF NoticeInv
  <2> QED
    BY <2>1, <2>2
<1>5. ASSUME NEW i \in Ids, NEW p \in People
      PROVE  /\ i > Len(incidents') => notices'[i][p].ticket = NoTicket
             /\ notices'[i][p].ticket # NoTicket => notices'[i][p].wait = 0
  BY <1>1, <1>3 DEF NoticeInv
<1>6. \A i \in news' : i \in 1 .. Len(incidents') /\ incidents'[i].open
  BY <1>1 DEF NoticeInv
<1>7. NoticeInv'
  BY <1>4, <1>5, <1>6 DEF NoticeInv
<1> QED
  BY <1>3, <1>7

LEMMA HearingNotices ==
  ASSUME OutageInv, NEW i \in Ids, NEW p \in People, Hear(i, p)
  PROVE  NoticeInv' /\ notices' \in Notices
<1> USE DEF OutageInv
<1>1. i \in 1 .. Len(incidents) /\ incidents[i].open
  BY DEF Hear, NoticeInv
<1>2. /\ notices' \in Notices
      /\ \A l \in Ids, q \in People :
           /\ notices'[l][q].ticket = notices[l][q].ticket
           /\ notices'[l][q].wait = notices[l][q].wait \/ (l = i /\ notices'[l][q].wait = 0)
  BY HeardNotices DEF Hear
<1>3. incidents' = incidents /\ news' = news
  BY DEF Hear
<1>4. \A l \in Ids, q \in People : l > Len(incidents) \/ ~incidents[l].open =>
        notices'[l][q].wait \in {NoNotice, 0}
  BY <1>2 DEF NoticeInv
<1>5. \A l \in Ids, q \in People :
        /\ l > Len(incidents) => notices'[l][q].ticket = NoTicket
        /\ notices'[l][q].ticket # NoTicket => notices'[l][q].wait = 0
  BY <1>2 DEF NoticeInv
<1>6. \A l \in news : l \in 1 .. Len(incidents) /\ incidents[l].open
  BY DEF NoticeInv
<1>7. NoticeInv'
  BY <1>3, <1>4, <1>5, <1>6 DEF NoticeInv
<1> QED
  BY <1>2, <1>7

LEMMA ConsideringNotices ==
  ASSUME OutageInv, NEW r \in todo, NEW file \in BOOLEAN, NEW way \in Ways,
         Consider(r, file, way)
  PROVE  LET i == r.about
             p == r.by
         IN /\ i \in 1 .. Len(incidents) /\ i \in Ids /\ p \in People
            /\ incidents[i].open
            /\ notices' \in Notices
            /\ notices'[i][p].wait = 0 /\ notices[i][p].wait = 0
            /\ notices'[i][p].ticket = IF file THEN FiledAs(i, p) ELSE NoTicket
            /\ \A l \in Ids, q \in People : l # i \/ q # p => notices'[l][q] = notices[l][q]
<1> USE DEF OutageInv
<1> DEFINE i == r.about
           p == r.by
           k == IF file THEN FiledAs(i, p) ELSE notices[i][p].ticket
<1>1. phase = "customers"
  BY DEF Consider
<1>2. /\ i \in 1 .. Len(incidents) /\ i \in Ids /\ p \in People
      /\ incidents[i].open
      /\ notices[i][p].wait = 0 /\ notices[i][p].ticket = NoTicket
  BY <1>1, ConsideredIsOpen
<1>3. notices' = [notices EXCEPT ![i][p] = [notices[i][p] EXCEPT
                    !.way = way, !.ticket = IF file THEN FiledAs(i, p) ELSE @]]
  BY DEF Consider
<1>4. notices' = [notices EXCEPT ![i][p] = [@ EXCEPT !.way = way, !.ticket = k]]
  <2> DEFINE old == notices[i][p]
             filed == FiledAs(i, p)
             row == [old EXCEPT !.way = way, !.ticket = IF file THEN filed ELSE @]
  <2>1. old \in Notice
    BY <1>2, NoticeRows
  <2>2. notices' = [notices EXCEPT ![i][p] = row]
    BY <1>3
  <2>3. k = IF file THEN filed ELSE old.ticket
    OBVIOUS
  <2>4. row = [old EXCEPT !.way = way, !.ticket = k]
    <3> HIDE DEF old, filed, k
    <3> QED
      BY <2>1, <2>3 DEF Notice
  <2> HIDE DEF row
  <2> QED
    BY <2>2, <2>4
<1>5. k \in Nat
  <2>1. FiledAs(i, p) \in Nat
    <3>1. Filed(i, p) \in Seq(Ticket) /\ FiledAs(i, p) \in 1 .. Len(Filed(i, p))
      BY <1>2, FiledIsOnes
    <3> QED
      BY <3>1, LenProperties
  <2>2. notices[i][p].ticket \in Nat
    BY <1>2, NoticeRows
  <2> QED
    BY <2>1, <2>2
<1>6. k = IF file THEN FiledAs(i, p) ELSE NoTicket
  BY <1>2
<1> HIDE DEF i, p, k
<1>7. /\ notices' \in Notices
      /\ notices'[i][p].ticket = k /\ notices'[i][p].wait = notices[i][p].wait
      /\ \A l \in Ids, q \in People : l # i \/ q # p => notices'[l][q] = notices[l][q]
  BY <1>2, <1>4, <1>5, DecidedNotices
<1> QED
  BY <1>2, <1>6, <1>7 DEF i, p

LEMMA DecidingNotices ==
  ASSUME OutageInv, NEW r \in todo, NEW file \in BOOLEAN, NEW way \in Ways,
         Consider(r, file, way)
  PROVE  NoticeInv' /\ notices' \in Notices
<1> USE DEF OutageInv
<1> DEFINE i == r.about
           p == r.by
<1>1. /\ i \in 1 .. Len(incidents) /\ i \in Ids /\ p \in People
      /\ incidents[i].open /\ notices' \in Notices
      /\ notices'[i][p].wait = 0 /\ notices[i][p].wait = 0
      /\ \A l \in Ids, q \in People : l # i \/ q # p => notices'[l][q] = notices[l][q]
  BY ConsideringNotices
<1>2. /\ Len(incidents') = Len(incidents) /\ Len(incidents) \in Nat
      /\ \A l \in 1 .. Len(incidents) : incidents'[l].open = incidents[l].open
      /\ news' = news
  <2>1. SameOutages
    BY ConsiderHands DEF Hands, Acts, Pushes
  <2> QED
    BY <2>1, RoomForIds DEF SameOutages, Consider
<1> HIDE DEF i, p
<1>3. ASSUME NEW l \in Ids, NEW q \in People, l > Len(incidents') \/ ~incidents'[l].open
      PROVE  notices'[l][q].wait \in {NoNotice, 0}
  <2>1. l > Len(incidents) \/ ~incidents[l].open
    BY <1>2, <1>3 DEF Ids
  <2>2. notices[l][q].wait \in {NoNotice, 0}
    BY <2>1 DEF NoticeInv
  <2> QED
    BY <1>1, <2>2
<1>4. ASSUME NEW l \in Ids, NEW q \in People
      PROVE  /\ l > Len(incidents') => notices'[l][q].ticket = NoTicket
             /\ notices'[l][q].ticket # NoTicket => notices'[l][q].wait = 0
  <2>1. CASE l = i /\ q = p
    BY <1>1, <1>2, <2>1
  <2>2. CASE l # i \/ q # p
    BY <1>1, <1>2, <2>2 DEF NoticeInv
  <2> QED
    BY <2>1, <2>2
<1>5. \A l \in news' : l \in 1 .. Len(incidents') /\ incidents'[l].open
  BY <1>2 DEF NoticeInv
<1>6. NoticeInv'
  BY <1>3, <1>4, <1>5 DEF NoticeInv
<1> QED
  BY <1>1, <1>6

\* What a step does to nobody's notice.
Unread ==
  UNCHANGED <<notices, news>> /\ SameOutages

LEMMA UnreadIsSafe ==
  ASSUME OutageInv, Unread
  PROVE  NoticeInv' /\ notices' \in Notices
<1>1. Unnoticed
  BY SameNotices DEF Unread, OutageInv
<1> QED
  BY <1>1, UnnoticedIsSafe DEF Unread, Unnoticed

LEMMA NoticeStep ==
  ASSUME OutageInv, Next
  PROVE  NoticeInv' /\ notices' \in Notices
<1> USE DEF OutageInv
<1> DEFINE Good == NoticeInv' /\ notices' \in Notices
<1>0. UNCHANGED incidents => SameOutages
  BY DEF SameOutages
<1>1. ASSUME NEW j \in ready, RunStart(j)
      PROVE  Good
  <2>1. CASE UNCHANGED <<status, incidents, news, queue, notices>>
    BY <1>0, <2>1, UnreadIsSafe DEF Unread
  <2>2. CASE Begin(j.mod, j.length)
    <3>1. j.length > 0
      BY <1>1 DEF RunStart, Running, DueInv, Jobs
    <3>2. j.mod \in Modules /\ j.length \in Nat \ {0}
      BY <3>1 DEF TypeOK, Job
    <3> QED
      BY <2>2, <3>2, BreakingNotices
  <2> QED
    BY <1>1, <2>1, <2>2 DEF RunStart, Start
<1>2. ASSUME NEW j \in ready, RunEnd(j)
      PROVE  Good
  BY <1>2, EndingNotices
<1>3. ASSUME NEW j \in ready, RunHandoff(j)
      PROVE  Good
  <2>1. Unread
    BY <1>3, HandoffRuns DEF Quietly, Pushes, Unread, RunHandoff
  <2> QED
    BY <2>1, UnreadIsSafe
<1>4. ASSUME Plans \/ Fail \/ Proceed
      PROVE  Good
  <2>1. UNCHANGED <<incidents, notices, news>>
    BY <1>4 DEF Plans, Plan, Fail, Proceed, Go
  <2> QED
    BY <1>0, <2>1, UnreadIsSafe DEF Unread
<1>5. ASSUME NEW a \in Agents, Triage(a)
      PROVE  Good
  <2>1. Unread
    BY <1>5, TriageIsQuiet DEF Quietly, Pushes, Unread, Triage
  <2> QED
    BY <2>1, UnreadIsSafe
<1>6. ASSUME NEW m \in Modules, Hazard(m)
      PROVE  Good
  <2>1. PICK length \in Nat \ {0} : Begin(m, length)
    BY <1>6, Parameters DEF Hazard
  <2> QED
    BY <2>1, BreakingNotices
<1>7. ASSUME NEW m \in Modules, NEW a \in Agents, Corner(m, a)
      PROVE  Good
  <2>1. SameOutages
    BY <1>7, CornerHands DEF Hands, Acts, Pushes
  <2>2. UNCHANGED <<notices, news>>
    BY <1>7 DEF Corner
  <2> QED
    BY <2>1, <2>2, UnreadIsSafe DEF Unread
<1>8. ASSUME Advance
      PROVE  Good
  <2>1. Unnoticed
    BY <1>8, NearerNotices DEF Unnoticed
  <2>2. UNCHANGED <<incidents, news>>
    BY <1>8 DEF Advance
  <2> QED
    BY <1>0, <2>1, <2>2, UnnoticedIsSafe DEF Unnoticed
<1>9. ASSUME NEW i \in Ids, NEW p \in People, Hear(i, p)
      PROVE  Good
  BY <1>9, HearingNotices
<1>10. ASSUME NEW r \in todo, NEW file \in BOOLEAN, NEW way \in Ways, Consider(r, file, way)
      PROVE  Good
  BY <1>10, DecidingNotices
<1>11. ASSUME NEW a \in Agents, Leave(a) \/ Answer(a) \/ Pass(a)
      PROVE  Good
  <2>1. UNCHANGED <<incidents, notices, news>>
    BY <1>11 DEF Leave, Answer, Pass
  <2> QED
    BY <1>0, <2>1, UnreadIsSafe DEF Unread
<1>12. ASSUME NEW k \in TicketIds, FollowUp(k)
      PROVE  Good
  <2>1. UNCHANGED <<incidents, notices, news>>
    BY <1>12 DEF FollowUp
  <2> QED
    BY <1>0, <2>1, UnreadIsSafe DEF Unread
<1> SUFFICES Good
  OBVIOUS
<1> HIDE DEF OutageInv, Good
<1> QED
  BY <1>1, <1>2, <1>3, <1>4, <1>5, <1>6, <1>7, <1>8, <1>9, <1>10, <1>11, <1>12
  DEF Next, Plans

-----------------------------------------------------------------------------
(* TodoInv *)

LEMMA WaitingIsTodo ==
  ASSUME Go("support", "customers", Waiting)
  PROVE  TodoInv'
<1>1. /\ todo' = Waiting
      /\ UNCHANGED <<incidents, notices>>
  BY DEF Go
<1>2. \A r \in Waiting : /\ r \in Row
                         /\ r.about \in 1 .. Len(incidents) /\ incidents[r.about].open
                         /\ notices[r.about][r.by].wait = 0
                         /\ notices[r.about][r.by].ticket = NoTicket
  BY DEF Waiting
<1>3. ASSUME NEW r \in Waiting, NEW q \in Waiting, r.about = q.about, r.by = q.by
      PROVE  r = q
  <2>1. r \in Row /\ q \in Row
    BY <1>2
  <2> DEFINE free == \A k \in 1 .. Len(tickets) :
                       tickets[k].by = r.by => tickets[k].status = "closed"
  <2>2. r.free = free /\ q.free = free
    BY <1>3 DEF Waiting
  <2>3. r.free = q.free
    BY <2>2
  <2> QED
    BY <1>3, <2>1, <2>3 DEF Row
<1>4. /\ Waiting \subseteq Row
      /\ \A r, q \in Waiting : r.about = q.about /\ r.by = q.by => r = q
  BY <1>2, <1>3
<1> QED
  BY <1>1, <1>2, <1>4 DEF TodoInv

LEMMA ConsiderKeepsTodo ==
  ASSUME OutageInv, NEW r \in todo, NEW file \in BOOLEAN, NEW way \in Ways,
         Consider(r, file, way)
  PROVE  TodoInv'
<1> USE DEF OutageInv
<1> DEFINE i == r.about
           p == r.by
<1>1. phase = "customers" /\ todo' = todo \ {r}
  BY DEF Consider
<1>2. \A l \in Ids, q \in People : l # i \/ q # p => notices'[l][q] = notices[l][q]
  BY ConsideringNotices
<1>3. /\ Len(incidents') = Len(incidents)
      /\ \A l \in 1 .. Len(incidents) : incidents'[l].open = incidents[l].open
  BY ConsiderHands DEF Hands, Acts, Pushes, SameOutages
<1>4. ASSUME NEW q \in todo, q # r
      PROVE  /\ q \in Row /\ q.about \in 1 .. Len(incidents) /\ incidents[q.about].open
             /\ notices'[q.about][q.by].wait = 0
             /\ notices'[q.about][q.by].ticket = NoTicket
  <2>1. /\ q \in Row /\ q.about \in 1 .. Len(incidents) /\ incidents[q.about].open
        /\ notices[q.about][q.by].wait = 0 /\ notices[q.about][q.by].ticket = NoTicket
        /\ q.about # i \/ q.by # p
    BY <1>1, <1>4 DEF TodoInv
  <2>2. q.about \in Ids /\ q.by \in People
    BY <2>1 DEF Row
  <2> QED
    BY <1>2, <2>1, <2>2
<1>5. \A q, l \in todo : q.about = l.about /\ q.by = l.by => q = l
  BY <1>1 DEF TodoInv
<1> HIDE DEF i, p
<1> QED
  BY <1>1, <1>3, <1>4, <1>5 DEF TodoInv

LEMMA TodoStep ==
  ASSUME OutageInv, Next
  PROVE  TodoInv'
<1>1. CASE phase' # "customers"
  BY <1>1 DEF TodoInv
<1>2. CASE phase' = "customers"
  <2>1. ASSUME NEW j \in ready, RunStart(j) \/ RunEnd(j) \/ RunHandoff(j)
        PROVE  FALSE
    BY <1>2, <2>1 DEF RunStart, RunEnd, RunHandoff, Running
  <2>2. ASSUME NEW a \in Agents, Leave(a) \/ Triage(a) \/ Answer(a) \/ Pass(a)
        PROVE  FALSE
    BY <1>2, <2>2 DEF Leave, Triage, Answer, Pass
  <2>3. ~Plans /\ ~Fail /\ ~Advance
    BY <1>2 DEF Plans, Plan, Fail, Advance
  <2>4. ASSUME NEW m \in Modules, Hazard(m) \/ \E a \in Agents : Corner(m, a)
        PROVE  FALSE
    BY <1>2, <2>4 DEF Hazard, Corner
  <2>5. ASSUME NEW i \in Ids, NEW p \in People, Hear(i, p)
        PROVE  FALSE
    BY <1>2, <2>5 DEF Hear
  <2>6. ASSUME NEW k \in TicketIds, FollowUp(k)
        PROVE  FALSE
    BY <1>2, <2>6 DEF FollowUp
  <2>7. ASSUME Proceed
        PROVE  TodoInv'
    <3>1. Go("support", "customers", Waiting)
      BY <1>2, <2>7 DEF Proceed, Go
    <3> QED
      BY <3>1, WaitingIsTodo
  <2>8. ASSUME NEW r \in todo, NEW file \in BOOLEAN, NEW way \in Ways, Consider(r, file, way)
        PROVE  TodoInv'
    BY <2>8, ConsiderKeepsTodo
  <2> QED
    BY <2>1, <2>2, <2>3, <2>4, <2>5, <2>6, <2>7, <2>8 DEF Next, Plans
<1> QED
  BY <1>1, <1>2

-----------------------------------------------------------------------------
(* TicketInv *)

\* Outages are added, and closed, and never become another's.
Grows ==
  /\ Len(incidents') \in Nat /\ Len(incidents') >= Len(incidents)
  /\ \A i \in 1 .. Len(incidents) :
       incidents'[i].mod = incidents[i].mod /\ (incidents'[i].open => incidents[i].open)

LEMMA OutagesGrow ==
  ASSUME OutageInv, Next
  PROVE  Grows
<1> USE DEF OutageInv
<1>0. Len(incidents) \in Nat
  BY OutageRows
<1>1. CASE SameOutages
  BY <1>0, <1>1 DEF SameOutages, Grows
<1>2. CASE Breaks
  <2>1. PICK m \in Modules, length \in Nat \ {0} : Begin(m, length)
    BY <1>2 DEF Breaks
  <2>2. /\ Len(incidents') = Len(incidents) + 1
        /\ \A i \in 1 .. Len(incidents) : incidents'[i] = incidents[i]
    BY <2>1, BeginAppends
  <2>3. Len(incidents') \in Nat /\ Len(incidents') >= Len(incidents)
    BY <1>0, <2>2
  <2> QED
    BY <2>2, <2>3 DEF Grows
<1>3. CASE \E j \in ready : RunEnd(j)
  <2>1. PICK j \in ready : RunEnd(j)
    BY <1>3
  <2>2. /\ Len(incidents') = Len(incidents)
        /\ \A i \in 1 .. Len(incidents) :
             /\ incidents'[i].mod = incidents[i].mod
             /\ incidents'[i].open <=> (incidents[i].open /\ i # j.about)
    BY <2>1, EndCloses
  <2> QED
    BY <1>0, <2>2 DEF Grows
<1>4. CASE Plans \/ Advance
  <2>1. incidents' = incidents
    BY <1>4 DEF Plans, Plan, Advance
  <2> QED
    BY <1>0, <2>1 DEF Grows
<1>5. Quietly \/ Hands => SameOutages
  BY DEF Quietly, Hands, Acts, Pushes
<1> QED
  BY <1>1, <1>2, <1>3, <1>4, <1>5, NextKinds

Kept ==
  /\ tickets' \in Seq(Ticket) /\ SameTickets(tickets)
  /\ \A i \in Ids, p \in People : notices'[i][p].ticket = notices[i][p].ticket

LEMMA KeptIsSafe ==
  ASSUME OutageInv, Grows, Kept
  PROVE  TicketInv'
<1> USE DEF OutageInv
<1>1. /\ Len(tickets') = Len(tickets)
      /\ \A k \in 1 .. Len(tickets) :
           tickets'[k].by = tickets[k].by /\ tickets'[k].mod = tickets[k].mod
             /\ tickets'[k].about = tickets[k].about
  BY DEF Kept, SameTickets
<1>2. ASSUME NEW k \in 1 .. Len(tickets'), tickets'[k].about # 0
      PROVE  /\ tickets'[k].about \in 1 .. Len(incidents')
             /\ incidents'[tickets'[k].about].mod = tickets'[k].mod
  <2>1. /\ tickets[k].about \in 1 .. Len(incidents)
        /\ incidents[tickets[k].about].mod = tickets[k].mod
    BY <1>1, <1>2 DEF TicketInv
  <2> QED
    BY <1>1, <1>2, <2>1, RoomForIds DEF Grows
<1>3. ASSUME NEW i \in Ids, NEW p \in People, notices'[i][p].ticket # NoTicket
      PROVE  /\ notices'[i][p].ticket \in 1 .. Len(tickets')
             /\ i \in 1 .. Len(incidents') /\ incidents'[i].open =>
                  /\ tickets'[notices'[i][p].ticket].about = i
                  /\ tickets'[notices'[i][p].ticket].by = p
  <2> DEFINE k == notices[i][p].ticket
  <2>1. notices'[i][p].ticket = k /\ k # NoTicket
    BY <1>3 DEF Kept
  <2>2. /\ k \in 1 .. Len(tickets)
        /\ i \in 1 .. Len(incidents) /\ incidents[i].open => tickets[k].about = i /\ tickets[k].by = p
    BY <2>1 DEF TicketInv
  <2>3. i \in 1 .. Len(incidents)
    BY <2>1, RoomForIds DEF NoticeInv, Ids
  <2> HIDE DEF k
  <2> QED
    BY <1>1, <2>1, <2>2, <2>3 DEF Grows
<1> QED
  BY <1>2, <1>3 DEF TicketInv

\* Whoever files has a ticket about this outage; the others keep what they had.
LEMMA FilingIsSafe ==
  ASSUME OutageInv, NEW r \in todo, NEW file \in BOOLEAN, NEW way \in Ways,
         Consider(r, file, way)
  PROVE  TicketInv'
<1> USE DEF OutageInv
<1> DEFINE i == r.about
           p == r.by
           rows == Rows(r, file)
           own == FiledAs(i, p)
<1>1. /\ i \in 1 .. Len(incidents) /\ i \in Ids /\ p \in People
      /\ incidents[i].open
      /\ notices'[i][p].ticket = IF file THEN own ELSE NoTicket
      /\ \A l \in Ids, q \in People : l # i \/ q # p => notices'[l][q] = notices[l][q]
  BY ConsideringNotices
<1>2. notices[i][p].ticket = NoTicket
  <2>1. phase = "customers"
    BY DEF Consider
  <2> QED
    BY <2>1, ConsideredIsOpen
<1>3. /\ Len(tickets') = Len(rows)
      /\ \A k \in 1 .. Len(rows) :
           tickets'[k].by = rows[k].by /\ tickets'[k].mod = rows[k].mod
             /\ tickets'[k].about = rows[k].about
  BY ConsiderHands DEF SameTickets
<1>4. /\ Len(incidents') = Len(incidents)
      /\ \A l \in 1 .. Len(incidents) : incidents'[l].open = incidents[l].open
                                        /\ incidents'[l].mod = incidents[l].mod
  BY ConsiderHands DEF Hands, Acts, Pushes, SameOutages
<1>5. CASE ~file
  <2>1. rows = tickets
    BY <1>5 DEF Rows
  <2>2. \A l \in Ids, q \in People : notices'[l][q].ticket = notices[l][q].ticket
    BY <1>1, <1>2, <1>5
  <2>3. tickets' \in Seq(Ticket)
    BY ConsiderHands
  <2>4. Grows
    BY <1>4, RoomForIds DEF Grows
  <2>5. Kept
    BY <1>3, <2>1, <2>2, <2>3 DEF Kept, SameTickets
  <2> QED
    BY <2>4, <2>5, KeptIsSafe
<1>6. CASE file
  <2>1. rows = Filed(i, p)
    BY <1>6 DEF Rows
  <2>2. /\ Len(rows) >= Len(tickets)
        /\ own \in 1 .. Len(rows)
        /\ rows[own].about = i /\ rows[own].by = p /\ rows[own].mod = incidents[i].mod
        /\ own \in 1 .. Len(tickets) =>
             tickets[own].by = p /\ tickets[own].mod = incidents[i].mod
        /\ \A k \in 1 .. Len(rows) : k # own => k \in 1 .. Len(tickets) /\ rows[k] = tickets[k]
    BY <1>1, <2>1, FiledIsOnes
  <2>3. Len(tickets) \in Nat /\ Len(rows) \in Nat
    BY <1>3, ConsiderHands, LenProperties, TicketRows
  <2> HIDE DEF i, p, rows, own
  <2>4. ASSUME NEW k \in 1 .. Len(tickets'), tickets'[k].about # 0
        PROVE  /\ tickets'[k].about \in 1 .. Len(incidents')
               /\ incidents'[tickets'[k].about].mod = tickets'[k].mod
    <3>1. CASE k = own
      BY <1>1, <1>3, <1>4, <2>2, <3>1
    <3>2. CASE k # own
      <4>1. k \in 1 .. Len(tickets) /\ tickets[k].about = tickets'[k].about
            /\ tickets[k].mod = tickets'[k].mod
        BY <1>3, <2>2, <3>2
      <4>2. /\ tickets[k].about \in 1 .. Len(incidents)
            /\ incidents[tickets[k].about].mod = tickets[k].mod
        BY <2>4, <4>1 DEF TicketInv
      <4> QED
        BY <1>4, <4>1, <4>2
    <3> QED
      BY <3>1, <3>2
  <2>5. ASSUME NEW l \in Ids, NEW q \in People, notices'[l][q].ticket # NoTicket
        PROVE  /\ notices'[l][q].ticket \in 1 .. Len(tickets')
               /\ l \in 1 .. Len(incidents') /\ incidents'[l].open =>
                    /\ tickets'[notices'[l][q].ticket].about = l
                    /\ tickets'[notices'[l][q].ticket].by = q
    <3>1. CASE l = i /\ q = p
      BY <1>1, <1>3, <1>6, <2>2, <3>1
    <3>2. CASE l # i \/ q # p
      <4> DEFINE k == notices[l][q].ticket
      <4>1. notices'[l][q].ticket = k /\ k # NoTicket
        BY <1>1, <2>5, <3>2
      <4>2. /\ k \in 1 .. Len(tickets)
            /\ l \in 1 .. Len(incidents) /\ incidents[l].open =>
                 tickets[k].about = l /\ tickets[k].by = q
        BY <4>1 DEF TicketInv
      <4> HIDE DEF k
      <4>3. k \in 1 .. Len(tickets')
        BY <1>3, <2>2, <2>3, <4>2
      <4>4. ASSUME l \in 1 .. Len(incidents'), incidents'[l].open
            PROVE  tickets'[k].about = l /\ tickets'[k].by = q
        <5>1. tickets[k].about = l /\ tickets[k].by = q /\ incidents[l].open
          BY <1>4, <4>2, <4>4
        <5>2. k # own
          <6> SUFFICES ASSUME k = own PROVE FALSE
            OBVIOUS
          <6>1. q = p /\ tickets[k].mod = incidents[i].mod
            BY <2>2, <4>2, <5>1
          <6>2. incidents[l].mod = tickets[k].mod
            <7>1. l # 0
              BY <4>4
            <7> QED
              BY <4>2, <5>1, <7>1 DEF TicketInv
          <6>3. l = i
            BY <1>1, <1>4, <4>4, <5>1, <6>1, <6>2 DEF EndInv
          <6> QED
            BY <3>2, <6>1, <6>3
        <5>3. rows[k] = tickets[k] /\ k \in 1 .. Len(rows)
          BY <1>3, <2>2, <4>3, <5>2
        <5> QED
          BY <1>3, <5>1, <5>3
      <4> QED
        BY <4>1, <4>3, <4>4
    <3> QED
      BY <3>1, <3>2
  <2> QED
    BY <2>4, <2>5 DEF TicketInv
<1> QED
  BY <1>5, <1>6

\* A ticket that is moved along is kept as it is.
LEMMA MovedIsKept ==
  ASSUME OutageInv, UNCHANGED notices, NEW k, NEW st \in Statuses, NEW n \in Nat,
         \/ tickets' = [tickets EXCEPT ![k].status = st, ![k].severity = n]
         \/ tickets' = [tickets EXCEPT ![k].status = st, ![k].age = n]
  PROVE  Kept
<1>0. TypeOK /\ Moved(tickets', k, st, n)
  BY DEF OutageInv, Moved
<1>1. /\ tickets' \in Seq(Ticket) /\ Len(tickets') = Len(tickets)
      /\ \A l \in 1 .. Len(tickets) :
           /\ tickets'[l].by = tickets[l].by /\ tickets'[l].mod = tickets[l].mod
           /\ tickets'[l].about = tickets[l].about
  BY <1>0, MovedTickets
<1> QED
  BY <1>1 DEF Kept, SameTickets

LEMMA SameIsKept ==
  ASSUME OutageInv, UNCHANGED tickets,
         \A i \in Ids, p \in People : notices'[i][p].ticket = notices[i][p].ticket
  PROVE  Kept
BY DEF Kept, SameTickets, OutageInv, TypeOK

LEMMA OlderIsKept ==
  ASSUME OutageInv, Advance
  PROVE  Kept
<1> USE DEF OutageInv
<1>1. tickets' = [k \in 1 .. Len(tickets) |-> [tickets[k] EXCEPT !.age = Older(k)]]
  BY DEF Advance
<1>2. Len(tickets) \in Nat /\ DOMAIN tickets' = 1 .. Len(tickets) /\ Len(tickets') = Len(tickets)
  BY <1>1, TicketRows
<1>3. ASSUME NEW k \in 1 .. Len(tickets)
      PROVE  /\ tickets'[k] \in Ticket
             /\ tickets'[k].by = tickets[k].by /\ tickets'[k].mod = tickets[k].mod
             /\ tickets'[k].about = tickets[k].about
  <2> DEFINE row == tickets[k]
             age == Older(k)
  <2>1. row \in Ticket
    BY TicketRows
  <2>2. age \in Nat
    <3>1. Calendar[clock].gap \in Nat /\ tickets[k].age \in Nat
      BY GapIsANumber, TicketRows
    <3> QED
      BY <3>1, Parameters DEF Older, MaxAge
  <2>3. tickets'[k] = [row EXCEPT !.age = age]
    BY <1>1
  <2> HIDE DEF row, age
  <2> QED
    BY <2>1, <2>2, <2>3, TicketOlder DEF row
<1>4. tickets' \in Seq(Ticket)
  <2>1. tickets' = [k \in 1 .. Len(tickets) |-> tickets'[k]]
    BY <1>1
  <2> QED
    BY <1>2, <1>3, <2>1
<1>5. \A i \in Ids, p \in People : notices'[i][p].ticket = notices[i][p].ticket
  BY NearerNotices
<1> QED
  BY <1>2, <1>3, <1>4, <1>5 DEF Kept, SameTickets

\* Any step but the one that may file a ticket.
LEMMA TicketsKept ==
  ASSUME OutageInv, Next,
         ~\E r \in todo, file \in BOOLEAN, way \in Ways : Consider(r, file, way)
  PROVE  Kept
<1> USE DEF OutageInv
<1>0. tickets \in Seq(Ticket)
  BY DEF TypeOK
<1>1. ASSUME NEW j \in ready, RunStart(j) PROVE Kept
  <2>1. UNCHANGED tickets
    BY <1>1 DEF RunStart
  <2>2. CASE UNCHANGED notices
    BY <2>1, <2>2, SameIsKept
  <2>3. CASE Begin(j.mod, j.length)
    <3>1. j.length > 0
      BY <1>1 DEF RunStart, Running, DueInv, Jobs
    <3>2. j.mod \in Modules /\ j.length \in Nat \ {0}
      BY <3>1 DEF TypeOK, Job
    <3> QED
      BY <2>1, <2>3, <3>2, BegunNotices, SameIsKept
  <2> QED
    BY <1>1, <2>2, <2>3 DEF RunStart, Start
<1>2. ASSUME NEW j \in ready, RunEnd(j) PROVE Kept
  <2> DEFINE k == j.about
  <2>1. /\ k \in 1 .. Len(incidents)
        /\ notices' = [notices EXCEPT ![k] = Withdraw(k)]
    BY <1>2, EndCloses
  <2> HIDE DEF k
  <2>2. k \in Ids
    BY <2>1, RoomForIds
  <2>3. \A i \in Ids, p \in People : notices'[i][p].ticket = notices[i][p].ticket
    <3> HIDE DEF OutageInv
    <3>1. Withdrawn(k)
      BY <2>1, <2>2, EndedNotices
    <3> QED
      BY <3>1 DEF Withdrawn
  <2> QED
    BY <1>2, <2>3, SameIsKept DEF RunEnd
<1>3. ASSUME NEW j \in ready, RunHandoff(j) PROVE Kept
  BY <1>3, HandoffRuns DEF Kept, RunHandoff
<1>4. ASSUME Plans \/ Fail \/ Proceed PROVE Kept
  <2>1. UNCHANGED <<tickets, notices>>
    BY <1>4 DEF Plans, Plan, Fail, Proceed, Go
  <2> QED
    BY <2>1, SameIsKept
<1>5. ASSUME NEW a \in Agents, Triage(a) PROVE Kept
  <2>1. PICK severity \in {1, 2} : tickets' =
          [tickets EXCEPT ![Lowest(InState("open"))].status = "triaged",
                          ![Lowest(InState("open"))].severity = severity]
    BY <1>5 DEF Triage
  <2>2. severity \in Nat /\ "triaged" \in Statuses
    BY DEF Statuses
  <2> QED
    BY <1>5, <2>1, <2>2, MovedIsKept DEF Triage
<1>6. ASSUME NEW a \in Agents, Answer(a) PROVE Kept
  <2>1. /\ tickets' = [tickets EXCEPT ![Worst].status = "answered", ![Worst].age = 0]
        /\ UNCHANGED notices
    BY <1>6 DEF Answer
  <2>2. 0 \in Nat /\ "answered" \in Statuses
    BY DEF Statuses
  <2> QED
    BY <2>1, <2>2, MovedIsKept
<1>7. ASSUME NEW a \in Agents, Leave(a) \/ Pass(a) PROVE Kept
  <2>1. UNCHANGED <<tickets, notices>>
    BY <1>7 DEF Leave, Pass
  <2> QED
    BY <2>1, SameIsKept
<1>8. ASSUME NEW m \in Modules, Hazard(m) PROVE Kept
  <2>1. PICK length \in Nat \ {0} : Begin(m, length)
    BY <1>8, Parameters DEF Hazard
  <2> QED
    BY <1>8, <2>1, BegunNotices, SameIsKept DEF Hazard
<1>9. ASSUME NEW m \in Modules, NEW a \in Agents, Corner(m, a) PROVE Kept
  BY <1>9, CornerHands DEF Kept, Corner
<1>10. ASSUME NEW i \in Ids, NEW p \in People, Hear(i, p) PROVE Kept
  BY <1>10, HeardNotices, SameIsKept DEF Hear
<1>11. ASSUME NEW k \in TicketIds, FollowUp(k) PROVE Kept
  <2>1. UNCHANGED notices
    BY <1>11 DEF FollowUp
  <2>2. CASE tickets' = [tickets EXCEPT ![k].status = "closed", ![k].age = 0]
    <3>1. 0 \in Nat /\ "closed" \in Statuses
      BY DEF Statuses
    <3> QED
      BY <2>1, <2>2, <3>1, MovedIsKept
  <2>3. CASE UNCHANGED tickets
    BY <2>1, <2>3, SameIsKept
  <2> QED
    BY <1>11, <2>2, <2>3 DEF FollowUp
<1>12. ASSUME Advance PROVE Kept
  BY <1>12, OlderIsKept
<1> HIDE DEF OutageInv
<1> QED
  BY <1>1, <1>2, <1>3, <1>4, <1>5, <1>6, <1>7, <1>8, <1>9, <1>10, <1>11, <1>12
  DEF Next, Plans

LEMMA TicketStep ==
  ASSUME OutageInv, Next
  PROVE  TicketInv' /\ tickets' \in Seq(Ticket)
<1>1. CASE \E r \in todo, file \in BOOLEAN, way \in Ways : Consider(r, file, way)
  BY <1>1, FilingIsSafe, ConsiderHands
<1>2. CASE ~\E r \in todo, file \in BOOLEAN, way \in Ways : Consider(r, file, way)
  BY <1>2, TicketsKept, OutagesGrow, KeptIsSafe DEF Kept
<1> QED
  BY <1>1, <1>2

-----------------------------------------------------------------------------
(* The inductive invariant. *)

LEMMA TimeStep ==
  ASSUME OutageInv, Next
  PROVE  /\ clock' \in 1 .. Len(Calendar)
         /\ phase' \in {"due", "hazard", "meet", "support", "customers", "followups"}
<1> DEFINE Good == /\ clock' \in 1 .. Len(Calendar)
                   /\ phase' \in {"due", "hazard", "meet", "support", "customers", "followups"}
<1>1. ASSUME UNCHANGED <<clock, phase>> PROVE Good
  BY <1>1 DEF OutageInv, TypeOK
<1>2. ASSUME Proceed PROVE Good
  BY <1>2 DEF Proceed, Go, OutageInv, TypeOK
<1>3. ASSUME Advance PROVE Good
  <2>1. Len(Calendar) \in Nat \ {0}
    BY OutagesAssumption, EmptySeq, LenProperties
  <2>2. clock \in Nat
    BY DEF OutageInv, TypeOK
  <2>3. clock' = (clock % Len(Calendar)) + 1 /\ phase' = "due"
    BY <1>3 DEF Advance
  <2>4. clock % Len(Calendar) \in 0 .. (Len(Calendar) - 1)
    BY <2>1, <2>2
  <2> QED
    BY <2>1, <2>3, <2>4
<1>4. ASSUME NEW j \in ready, RunStart(j) \/ RunEnd(j) \/ RunHandoff(j) PROVE Good
  BY <1>1, <1>4 DEF RunStart, RunEnd, RunHandoff
<1>5. ASSUME Plans \/ Fail PROVE Good
  BY <1>1, <1>5 DEF Plans, Plan, Fail
<1>6. ASSUME NEW a \in Agents, Leave(a) \/ Triage(a) \/ Answer(a) \/ Pass(a) PROVE Good
  BY <1>1, <1>6 DEF Leave, Triage, Answer, Pass
<1>7. ASSUME NEW m \in Modules, Hazard(m) \/ \E a \in Agents : Corner(m, a) PROVE Good
  BY <1>1, <1>7 DEF Hazard, Corner
<1>8. ASSUME NEW i \in Ids, NEW p \in People, Hear(i, p) PROVE Good
  BY <1>1, <1>8 DEF Hear
<1>9. ASSUME NEW r \in todo, NEW file \in BOOLEAN, NEW way \in Ways, Consider(r, file, way)
      PROVE  Good
  BY <1>1, <1>9 DEF Consider
<1>10. ASSUME NEW k \in TicketIds, FollowUp(k) PROVE Good
  BY <1>1, <1>10 DEF FollowUp
<1> SUFFICES Good
  OBVIOUS
<1> HIDE DEF Good
<1> QED
  BY <1>2, <1>3, <1>4, <1>5, <1>6, <1>7, <1>8, <1>9, <1>10 DEF Next, Plans

LEMMA InvStep ==
  ASSUME OutageInv, Next
  PROVE  OutageInv'
<1>1. TypeOK'
  BY TimeStep, CoreStep, NoticeStep, TicketStep DEF TypeOK, Core, Notices
<1> QED
  BY <1>1, RoomStep, EndStep, DueStep, HandoffStep, HitsStep, NoticeStep, TodoStep, TicketStep
  DEF OutageInv

LEMMA InvInit ==
  ASSUME Init
  PROVE  OutageInv
<1> USE DEF Init
<1>1. Len(incidents) = 0 /\ incidents \in Seq(Incident)
  BY EmptySeq
<1>2. Jobs = {} /\ Starts({}) = {} /\ IsFiniteSet({}) /\ Cardinality({}) = 0
  BY FS_EmptySet DEF Jobs, Starts
<1>3. \A i \in Ids, p \in People : /\ notices[i][p].wait = NoNotice
                                   /\ notices[i][p].ticket = NoTicket
  OBVIOUS
<1>4. notices \in [Ids -> [People -> Notice]]
  BY DEF Notice, Ways, NoNotice, NoTicket
<1>5. /\ tickets \in Seq(Ticket) /\ Len(tickets) = Len(Seeded) /\ Len(Seeded) \in Nat
      /\ \A k \in 1 .. Len(Seeded) : tickets[k].about = 0
  <2> DEFINE Row0 == [by : People, mod : Modules]
  <2>1. Seeded \in Seq(Row0)
    BY OutagesAssumption
  <2> HIDE DEF Row0
  <2>2. Len(Seeded) \in Nat /\ \A k \in 1 .. Len(Seeded) : Seeded[k] \in Row0
    BY <2>1, LenProperties, ElementOfSeq
  <2>3. \A k \in 1 .. Len(Seeded) :
          /\ NewTicket(Seeded[k].by, Seeded[k].mod, 0) \in Ticket
          /\ NewTicket(Seeded[k].by, Seeded[k].mod, 0).about = 0
    BY <2>2 DEF Row0, NewTicket, Ticket
  <2>4. tickets = [k \in 1 .. Len(Seeded) |-> NewTicket(Seeded[k].by, Seeded[k].mod, 0)]
    OBVIOUS
  <2> QED
    BY <2>2, <2>3, <2>4
<1>6. TypeOK
  <2>1. clock \in 1 .. Len(Calendar)
    <3>1. Len(Calendar) \in Nat \ {0}
      BY OutagesAssumption, EmptySeq, LenProperties
    <3> QED
      BY <3>1
  <2>2. status \in [Modules -> {"up", "down"}]
    OBVIOUS
  <2> QED
    BY <1>1, <1>4, <1>5, <2>1, <2>2 DEF TypeOK
<1>7. RoomInv
  <2>1. Starts(queue) = {} /\ Starts(ready) = {} /\ queue = {} /\ ready = {}
    BY DEF Starts
  <2>2. IsFiniteSet(queue) /\ IsFiniteSet(ready)
    BY <1>2, <2>1
  <2>3. Cardinality(Starts(queue)) = 0 /\ Cardinality(Starts(ready)) = 0
    BY <1>2, <2>1
  <2>4. MaxIncidents \in Nat
    BY OutagesAssumption
  <2> QED
    BY <1>1, <2>1, <2>2, <2>3, <2>4 DEF RoomInv
<1>8. EndInv
  BY <1>1, <1>2 DEF EndInv
<1>9. DueInv /\ HandoffInv
  BY <1>2 DEF DueInv, HandoffInv
<1>10. HitsInv
  BY <1>1 DEF HitsInv
<1>11. NoticeInv
  BY <1>3 DEF NoticeInv
<1>12. TodoInv
  BY DEF TodoInv
<1>13. TicketInv
  BY <1>3, <1>5 DEF TicketInv
<1> QED
  BY <1>6, <1>7, <1>8, <1>9, <1>10, <1>11, <1>12, <1>13 DEF OutageInv

\* Nothing that stutters disturbs what only the variables say.
LEMMA InvStutters ==
  ASSUME OutageInv, UNCHANGED vars
  PROVE  OutageInv'
<1> USE DEF vars
<1>1. Jobs' = Jobs
  BY DEF Jobs
<1>2. Starts(queue') = Starts(queue) /\ Starts(ready') = Starts(ready)
  OBVIOUS
<1>3. TypeOK' /\ RoomInv'
  BY <1>2 DEF OutageInv, TypeOK, RoomInv
<1>4. EndInv' /\ DueInv' /\ HandoffInv'
  BY <1>1 DEF OutageInv, EndInv, DueInv, HandoffInv
<1>5. HitsInv' /\ NoticeInv' /\ TodoInv' /\ TicketInv'
  BY DEF OutageInv, HitsInv, NoticeInv, TodoInv, TicketInv
<1> QED
  BY <1>3, <1>4, <1>5 DEF OutageInv

\* The invariant holds of every state that can be reached: what is open, what ends it,
\* what is on its way about it and who has reported it are about one outage.
THEOREM Invariance == Spec => []OutageInv
<1>1. Init => OutageInv
  BY InvInit
<1>2. OutageInv /\ [Next]_vars => OutageInv'
  BY InvStep, InvStutters
<1> QED
  BY <1>1, <1>2, PTL DEF Spec

-----------------------------------------------------------------------------
(* What the runs check, for every instance. *)

\* A module is down exactly while one outage of it is open, and one job ends that one:
\* what start, end and escalate do to the row, the status and the queue agree.
THEOREM OneAtATime == Spec => []OneOutageAtATime
<1>1. ASSUME OutageInv, NEW m \in Modules
      PROVE  LET ends == {j \in Jobs : j.kind = "end" /\ j.mod = m} IN
             /\ Cardinality(OpenOn(m)) = IF status[m] = "down" THEN 1 ELSE 0
             /\ {j.about : j \in ends} = OpenOn(m)
             /\ Cardinality(ends) = Cardinality(OpenOn(m))
  <2> USE <1>1 DEF OutageInv
  <2> DEFINE ends == {j \in Jobs : j.kind = "end" /\ j.mod = m}
  <2>1. \A j \in ends : j.about \in OpenOn(m)
    BY DEF EndInv, OpenOn
  <2>2. \A i \in OpenOn(m) : \E j \in ends : j.about = i
    <3> TAKE i \in OpenOn(m)
    <3>1. i \in 1 .. Len(incidents) /\ incidents[i].open /\ incidents[i].mod = m
      BY DEF OpenOn
    <3>2. PICK j \in Jobs : j.kind = "end" /\ j.about = i
      BY <3>1 DEF EndInv
    <3> QED
      BY <3>1, <3>2 DEF EndInv
  <2>3. \A j, l \in ends : j.about = l.about => j = l
    BY DEF EndInv
  <2>4. {j.about : j \in ends} = OpenOn(m)
    BY <2>1, <2>2
  <2> HIDE DEF ends
  <2>5. CASE status[m] = "down"
    <3>1. OpenOn(m) # {}
      BY <2>5 DEF EndInv, OpenOn
    <3>2. PICK i : OpenOn(m) = {i}
      BY <3>1, OneIsOpen
    <3>3. PICK j \in ends : j.about = i
      BY <2>2, <3>2
    <3>4. ends = {j}
      BY <2>1, <2>3, <3>2, <3>3
    <3>5. Cardinality(OpenOn(m)) = 1 /\ Cardinality(ends) = 1
      BY <3>2, <3>4, FS_Singleton
    <3> QED
      BY <2>4, <2>5, <3>5 DEF ends
  <2>6. CASE status[m] # "down"
    <3>1. OpenOn(m) = {}
      BY <2>6 DEF EndInv, OpenOn
    <3>2. ends = {}
      BY <2>1, <3>1
    <3>3. Cardinality(OpenOn(m)) = 0 /\ Cardinality(ends) = 0
      BY <3>1, <3>2, FS_EmptySet
    <3> QED
      BY <2>4, <2>6, <3>3 DEF ends
  <2> QED
    BY <2>5, <2>6
<1>2. OutageInv => OneOutageAtATime
  BY <1>1 DEF OneOutageAtATime, Jobs
<1> QED
  BY <1>2, Invariance, PTL

\* A complaint passed on by hand a tick later presses the outage it was about, and while
\* an outage is open whoever has reported it has a ticket about it, reopened ones too.
THEOREM AboutItsOutage == Spec => []EverythingIsAboutItsOutage
<1>1. OutageInv => EverythingIsAboutItsOutage
  <2> SUFFICES ASSUME OutageInv PROVE EverythingIsAboutItsOutage
    OBVIOUS
  <2>1. 1 .. Len(incidents) \subseteq Ids
    BY RoomForIds
  <2>2. \A i \in 1 .. Len(incidents) : incidents[i].hits \subseteq {i}
    BY DEF OutageInv, HitsInv
  <2>3. \A i \in 1 .. Len(incidents), p \in People :
          incidents[i].open /\ notices[i][p].ticket # NoTicket =>
            /\ tickets[notices[i][p].ticket].about = i
            /\ tickets[notices[i][p].ticket].by = p
    BY <2>1 DEF OutageInv, TicketInv
  <2> QED
    BY <2>2, <2>3 DEF EverythingIsAboutItsOutage
<1> QED
  BY <1>1, Invariance, PTL

\* What ends an outage is never lost nor put back, by whoever moves it or by time.
THEOREM NothingMakesItLonger == Spec => NeverLonger
<1> DEFINE Sound(j) == \E l \in queue' \cup ready' :
             l.kind = "end" /\ l.about = j.about /\ l.due <= j.due
<1>1. ASSUME OutageInv, Next, NEW j \in queue, j.kind = "end"
      PROVE  Sound(j)
  <2> USE <1>1 DEF OutageInv
  <2>0. j \in Job /\ j.due \in Int /\ j.due <= j.due
    BY DEF TypeOK, Job
  <2>1. CASE queue \subseteq queue'
    BY <1>1, <2>0, <2>1
  <2>2. CASE BringsForward
    <3>1. PICK k \in queue, due \in Nat \ {0} :
            /\ k.kind = "end" /\ due <= k.due
            /\ queue' = (queue \ {k}) \cup {[k EXCEPT !.due = due]}
      BY <2>2 DEF BringsForward
    <3> DEFINE l == [k EXCEPT !.due = due]
    <3>2. l.kind = "end" /\ l.about = k.about /\ l.due = due
      BY <3>1, JobFields DEF TypeOK
    <3>3. l \in queue' /\ (j # k => j \in queue')
      BY <3>1
    <3> HIDE DEF l
    <3> QED
      BY <1>1, <2>0, <3>1, <3>2, <3>3
  <2>3. CASE Advance
    <3>1. Later(j) \in Jobs'
      BY <2>3, AdvanceMoves
    <3>2. Later(j).kind = "end" /\ Later(j).about = j.about /\ Later(j).due <= j.due
      BY <1>1, <2>0, JobMoves
    <3> QED
      BY <3>1, <3>2 DEF Jobs
  <2>4. CASE PassesOn \/ Breaks \/ Plans \/ (\E k \in ready : RunEnd(k))
    <3>1. queue \subseteq queue'
      BY <2>4 DEF PassesOn, Breaks, Begin, Plans, Plan, RunEnd
    <3> QED
      BY <2>1, <3>1
  <2>5. queue' = queue => queue \subseteq queue'
    OBVIOUS
  <2> HIDE DEF Sound, OutageInv
  <2> QED
    BY <1>1, <2>1, <2>2, <2>3, <2>4, <2>5, NextKinds DEF Quietly, Hands, Acts, Pushes
<1>2. OutageInv /\ [Next]_vars
        => [\A j \in queue : j.kind = "end" =>
              \E l \in queue' \cup ready' :
                l.kind = "end" /\ l.about = j.about /\ l.due <= j.due]_vars
  BY <1>1
<1> QED
  BY <1>2, Invariance, PTL DEF Spec, NeverLonger

\* Nobody finds out about an outage that is over: what was still to come of it is
\* withdrawn when it ends, and nothing about it comes later.
THEOREM NoNoticeAfter == Spec => NobodyNoticesAfter
<1>1. ASSUME OutageInv, Next, NEW i \in 1 .. Len(incidents), ~incidents'[i].open,
             NEW p \in People
      PROVE  notices'[i][p].wait = notices[i][p].wait \/ notices'[i][p].wait = NoNotice
  <2> USE <1>1 DEF OutageInv
  <2> DEFINE Good == notices'[i][p].wait = notices[i][p].wait \/ notices'[i][p].wait = NoNotice
  <2>0. i \in Ids /\ Len(incidents) \in Nat
    BY RoomForIds
  <2>1. ASSUME UNCHANGED notices PROVE Good
    BY <2>1
  <2>2. ASSUME NEW m \in Modules, NEW length \in Nat \ {0}, Begin(m, length) PROVE Good
    <3>1. i # Len(incidents) + 1
      BY <2>0
    <3> QED
      BY <2>0, <2>2, <3>1, BegunNotices
  <2>3. ASSUME NEW j \in ready, RunEnd(j) PROVE Good
    <3> DEFINE k == j.about
    <3>1. /\ k \in 1 .. Len(incidents)
          /\ notices' = [notices EXCEPT ![k] = Withdraw(k)]
      BY <2>3, EndCloses
    <3> HIDE DEF k
    <3>2. k \in Ids
      BY <3>1, RoomForIds
    <3>3. \A l \in Ids, q \in People :
            /\ l # k => notices'[l][q] = notices[l][q]
            /\ notices'[k][q].wait = notices[k][q].wait \/ notices'[k][q].wait = NoNotice
      <4> HIDE DEF OutageInv
      <4>1. Withdrawn(k)
        BY <1>1, <3>1, <3>2, EndedNotices
      <4> QED
        BY <4>1 DEF Withdrawn
    <3> QED
      BY <2>0, <3>3
  <2>4. ASSUME NEW l \in Ids, NEW q \in People, Hear(l, q) PROVE Good
    <3>1. incidents[l].open /\ incidents' = incidents
      BY <2>4 DEF Hear, NoticeInv
    <3>2. l # i
      BY <1>1, <3>1
    <3> QED
      BY <2>0, <2>4, <3>2, HeardNotices DEF Hear
  <2>5. ASSUME NEW r \in todo, NEW file \in BOOLEAN, NEW way \in Ways, Consider(r, file, way)
        PROVE  Good
    BY <2>0, <2>5, ConsideringNotices
  <2>6. ASSUME Advance PROVE Good
    <3>1. ~incidents[i].open
      BY <1>1, <2>6 DEF Advance
    <3>2. notices[i][p].wait \in {NoNotice, 0}
      BY <2>0, <3>1 DEF NoticeInv
    <3> QED
      BY <2>0, <2>6, <3>2, NearerNotices
  <2>7. ASSUME NEW j \in ready, RunStart(j) PROVE Good
    <3>1. j.length > 0
      BY <2>7 DEF RunStart, Running, DueInv, Jobs
    <3>2. j.mod \in Modules /\ j.length \in Nat \ {0}
      BY <3>1 DEF TypeOK, Job
    <3> QED
      BY <2>1, <2>2, <2>7, <3>2 DEF RunStart, Start
  <2>8. ASSUME NEW m \in Modules, Hazard(m) PROVE Good
    BY <2>2, <2>8, Parameters DEF Hazard
  <2>9. ASSUME NEW j \in ready, RunHandoff(j) PROVE Good
    BY <2>9 DEF RunHandoff
  <2>10. ASSUME Plans \/ Fail \/ Proceed PROVE Good
    BY <2>1, <2>10 DEF Plans, Plan, Fail, Proceed, Go
  <2>11. ASSUME NEW a \in Agents, Leave(a) \/ Triage(a) \/ Answer(a) \/ Pass(a) PROVE Good
    BY <2>1, <2>11 DEF Leave, Triage, Answer, Pass
  <2>12. ASSUME NEW m \in Modules, NEW a \in Agents, Corner(m, a) PROVE Good
    BY <2>12 DEF Corner
  <2>13. ASSUME NEW k \in TicketIds, FollowUp(k) PROVE Good
    BY <2>13 DEF FollowUp
  <2> SUFFICES Good
    OBVIOUS
  <2> HIDE DEF Good, OutageInv
  <2> QED
    BY <1>1, <2>3, <2>4, <2>5, <2>6, <2>7, <2>8, <2>9, <2>10, <2>11, <2>12, <2>13
    DEF Next, Plans
<1>2. ASSUME OutageInv, Next, NEW i \in 1 .. Len(incidents), ~incidents'[i].open,
             NEW p \in People, notices'[i][p].wait # NoNotice
      PROVE  notices'[i][p].wait = 0 /\ notices[i][p].wait = 0
  <2>1. notices'[i][p].wait = notices[i][p].wait
    BY <1>1, <1>2
  <2>2. i \in Ids
    BY <1>2, RoomForIds
  <2>3. notices'[i][p].wait \in {NoNotice, 0}
    BY <1>2, <2>2, NoticeStep DEF NoticeInv
  <2> QED
    BY <1>2, <2>1, <2>3
<1>3. OutageInv /\ [Next]_vars
        => [\A i \in 1 .. Len(incidents) : ~incidents'[i].open =>
              \A p \in People : notices'[i][p].wait # NoNotice =>
                notices'[i][p].wait = 0 /\ notices[i][p].wait = 0]_vars
  BY <1>2
<1> QED
  BY <1>3, Invariance, PTL DEF Spec, NobodyNoticesAfter
=============================================================================
