--------------------------------- MODULE Talk ---------------------------------
(***************************************************************************)
(* The conversations of a tick (WORLD-0006, WORLD-0008, MEM-0002): who      *)
(* opens one and who joins, what it is about, what is passed on, and the    *)
(* smaller conversations it leaves behind. People are numbered in the order *)
(* of their ids, firms in the order of theirs, facts from the oldest to the *)
(* newest. What is said is in the module Rounds; here it comes down to who  *)
(* told their news and who left.                                            *)
(***************************************************************************)
EXTENDS Integers, SequencesExt, FiniteSetsExt

CONSTANTS
  People, FirmOf,
  Software,        \* the firm that sells the module
  Users,           \* the firms that subscribe to it
  Clerk,           \* payer_of, of the firms that have one
  Facts, Seeded,   \* who starts out with the oldest of them
  MaxParticipants, MaxDepth, Cooldown, PerDay,
  Places,          \* bound: where people are
  Owing,           \* bound: between whom there may be a bill
  Talkative,       \* bound: those who would stop to talk in one tick
  Ticks            \* bound: the ticks of the model

Home == 0
Firms == {FirmOf[p] : p \in People}

ASSUME TalkAssumption ==
  /\ People \subseteq Nat \ {0} /\ FirmOf \in [People -> Nat \ {0}]
  /\ Software \in Firms /\ Users \subseteq Firms
  /\ Places \subseteq {Home} \cup Firms /\ Owing \subseteq Firms \X Firms
  /\ \A b \in Owing : b[1] # b[2]
  /\ DOMAIN Clerk \subseteq Firms /\ \A o \in DOMAIN Clerk : Clerk[o] \in People
  /\ Facts \subseteq Nat \ {0} /\ Facts # {} /\ Seeded \in People
  /\ MaxParticipants \in Nat \ {0, 1} /\ {MaxDepth, Cooldown, PerDay, Talkative, Ticks} \subseteq Nat

VARIABLES
  ticks,
  zone,       \* where everyone stands
  down,       \* is the module down?
  bills,      \* the firms between which a bill is about due: who is owed, who owes
  knows,      \* the rows of knowledge: how far from first hand, and from whom
  stale,      \* facts that have been retired
  quiet,      \* ticks since each was last in an episode
  openedToday,      \* the episodes opened today
  wish,       \* whom each would stop to talk to
  queue,      \* those whose decision has not been looked at
  owing,      \* what the episodes of this tick may still open, the next first
  line,       \* what the last episode was about, after what its ancestors were
  consumed,   \* the pairs that run accounts for
  together,   \* the pairs that were in an episode of this tick
  inEpisode,  \* report.in_episode
  met         \* the encounters of this tick

talkVars == <<ticks, zone, down, bills, knows, stale, quiet, openedToday, wish, queue, owing, line,
              consumed, together, inEpisode, met>>

world == <<ticks, zone, down, bills, stale, wish>>

Nobody == 0
Unknown == [hops |-> -1, from |-> Nobody]
FirstHand == [hops |-> 0, from |-> Nobody]

Knows(p, f) == knows[p][f] # Unknown

TalkInit ==
  /\ ticks = 0
  /\ zone = [p \in People |-> Home] /\ down = FALSE /\ bills = {} /\ stale = {}
  /\ knows = [p \in People |-> [f \in Facts |->
                IF p = Seeded /\ f = Min(Facts) THEN FirstHand ELSE Unknown]]
  /\ quiet = [p \in People |-> Cooldown] /\ openedToday = 0
  /\ wish = [p \in People |-> Nobody]
  /\ queue = <<>> /\ owing = <<>> /\ line = <<>>
  /\ consumed = {} /\ together = {} /\ inEpisode = {} /\ met = {}

-----------------------------------------------------------------------------
(* Who is there. *)

InOrder(S) == SetToSortSeq(S, <)

(* Colleagues at their own desks are not company. *)
Others(p, where) ==
  {o \in People \ {p} : where[o] = where[p] /\ where[p] # Home
                        /\ ~(where[p] = FirmOf[p] /\ FirmOf[o] = FirmOf[p])}

Pairs(S) == {pair \in SUBSET S : Cardinality(pair) = 2}

-----------------------------------------------------------------------------
(* What is between them. A group is a sequence: the two who met come first. *)

Nothing == [about |-> <<>>, holder |-> Nobody, askers |-> {}]

OutageStake(group) ==
  LET ours == SelectSeq(group, LAMBDA p : FirmOf[p] = Software)
      stuck == {p \in Range(group) : FirmOf[p] # Software /\ FirmOf[p] \in Users}
  IN IF down /\ ours # <<>> /\ stuck # {}
       THEN [about |-> <<"outage", 0, 0>>, holder |-> Head(ours), askers |-> stuck]
       ELSE Nothing

Live(group) ==
  {b \in bills : /\ b[1] \in {FirmOf[p] : p \in Range(group)}
                 /\ b[2] \in DOMAIN Clerk /\ Clerk[b[2]] \in Range(group)}

InvoiceStake(group) ==
  IF Live(group) = {} THEN Nothing
  ELSE LET b == CHOOSE b \in Live(group) : \A c \in Live(group) :
                  b[1] < c[1] \/ (b[1] = c[1] /\ b[2] <= c[2])
       IN [about |-> <<"invoice", b[1], b[2]>>, holder |-> Clerk[b[2]],
           askers |-> {p \in Range(group) : FirmOf[p] = b[1]}]

(* most_tellable: the newest live fact that somebody here does not know.    *)
Tellable(p, listeners) ==
  {f \in Facts \ stale : Knows(p, f) /\ \E o \in listeners : ~Knows(o, f)}

MostTellable(p, listeners) == Max(Tellable(p, listeners))

News(f) == [about |-> <<"news", f, 0>>, holder |-> Nobody, askers |-> {}]

NewsStake(group) ==
  LET listeners(p) == Range(group) \ {p}
      tellers == SelectSeq(group, LAMBDA p : Tellable(p, listeners(p)) # {})
  IN IF tellers = <<>> THEN Nothing
     ELSE News(MostTellable(Head(tellers), listeners(Head(tellers))))

StakeOf(group) ==
  IF OutageStake(group) # Nothing THEN OutageStake(group)
  ELSE IF InvoiceStake(group) # Nothing THEN InvoiceStake(group)
  ELSE NewsStake(group)

(* The same stake, read again over everyone who ended up in the room.       *)
Restate(stake, group) ==
  LET again == CASE stake.about[1] = "outage"  -> OutageStake(group)
                 [] stake.about[1] = "invoice" -> InvoiceStake(group)
                 [] stake.about[1] = "news"    -> NewsStake(group)
  IN IF again.about = stake.about THEN again ELSE stake

Joins(stake, p) ==
  CASE stake.about[1] = "outage"  -> FirmOf[p] \in Users \cup {Software}
    [] stake.about[1] = "invoice" -> p \in stake.askers \cup {stake.holder}
    [] stake.about[1] = "news"    -> ~Knows(p, stake.about[2])

Seated(group, candidates) ==
  LET room == group \o InOrder(candidates)
  IN SubSeq(room, 1, Min({Len(room), MaxParticipants}))

(* _grow: in their zone, and not a colleague at the desk.                   *)
Grown(first, second, stake) ==
  Seated(<<first, second>>,
         {p \in People \ {first, second} :
            /\ zone[p] = zone[first]
            /\ ~(zone[p] = FirmOf[p] /\ FirmOf[p] \in {FirmOf[first], FirmOf[second]})
            /\ Joins(stake, p)})

-----------------------------------------------------------------------------
(* An episode. *)

BudgetLeft == openedToday < PerDay
RecentlyTogether(S) == \E p \in S : quiet[p] < Cooldown

HeardFrom(f, teller) == [hops |-> knows[teller][f].hops + 1, from |-> teller]

Telling(f, seats, tellers) == {t \in tellers : MostTellable(t, seats \ {t}) = f}

(* _pass_on: whoever is told twice has heard it from the first.             *)
Told(seats, tellers) ==
  [p \in People |-> [f \in Facts |->
     IF p \in seats /\ ~Knows(p, f) /\ Telling(f, seats, tellers) # {}
       THEN HeardFrom(f, Min(Telling(f, seats, tellers))) ELSE knows[p][f]]]

(* What the episode may still open: an aside first, then the news.          *)
Leaves(seats, left, tellers, matters, depth) ==
  LET telling == [t \in tellers |->
                    LET f == MostTellable(t, seats \ {t})
                    IN [fact |-> f, missing |-> {p \in seats : ~Knows(p, f)}]]
      leave(kind) == [kind |-> kind, seats |-> seats, left |-> left, telling |-> telling,
                      line |-> matters, depth |-> depth]
  IN IF depth < MaxDepth THEN <<leave("aside"), leave("carry")>> ELSE <<>>

(* _hold: in an episode everyone is asked about their news once; what they  *)
(* tell is learned when it closes.                                          *)
Hold(stake, group, ancestors, depth, others) ==
  LET seats == Range(group)
      able == {p \in seats : Tellable(p, seats \ {p}) # {}}
      matters == Append(ancestors, stake.about)
  IN \E left \in SUBSET seats, tellers \in SUBSET able :
       /\ knows' = Told(seats, tellers)
       /\ quiet' = [p \in People |-> IF p \in seats THEN 0 ELSE quiet[p]]
       /\ openedToday' = openedToday + 1
       /\ together' = together \cup Pairs(seats)
       /\ line' = matters
       /\ owing' = Leaves(seats, left, tellers, matters, depth) \o others

-----------------------------------------------------------------------------
(* episodes.run: the decisions one by one, each with all that comes of it.  *)

Considered(p) == owing = <<>> /\ queue # <<>> /\ p = Head(queue) /\ queue' = Tail(queue)

Opening(p) == Grown(p, wish[p], StakeOf(<<p, wish[p]>>))

(* A stake, a free cooldown for all of them, and something left of the day. *)
MayOpen(p) ==
  /\ {p, wish[p]} \notin consumed
  /\ BudgetLeft
  /\ StakeOf(<<p, wish[p]>>) # Nothing
  /\ ~RecentlyTogether(Range(Opening(p)))

OpenEpisode(p) ==
  /\ Considered(p) /\ MayOpen(p)
  /\ Hold(Restate(StakeOf(<<p, wish[p]>>), Opening(p)), Opening(p), <<>>, 0, <<>>)
  /\ consumed' = consumed \cup Pairs(Range(Opening(p)))
  /\ inEpisode' = inEpisode \cup Range(Opening(p))
  /\ UNCHANGED <<world, met>>

NoEpisode(p) ==
  /\ Considered(p) /\ ~MayOpen(p)
  /\ UNCHANGED <<world, knows, quiet, openedToday, owing, line, consumed, together, inEpisode, met>>

-----------------------------------------------------------------------------
(* What an episode leaves behind. *)

\* mutant: only what the parent was about is not taken aside again
HeldByParent(matters) == {Last(matters)}

Held(matters) == Range(matters)

(* The first pair of those who stayed that has another matter of its own,   *)
(* an outage or a bill.                                                     *)
MatterOf(pair, matters) ==
  LET another(s) == s # Nothing /\ s.about \notin Held(matters)
  IN IF another(OutageStake(pair)) THEN OutageStake(pair)
     ELSE IF another(InvoiceStake(pair)) THEN InvoiceStake(pair) ELSE Nothing

TakeAside(o) ==
  LET stayed == {p \in People : p \in o.seats \ o.left}
      couples == {c \in stayed \X stayed : c[1] < c[2] /\ MatterOf(c, o.line) # Nothing}
  IN /\ o.kind = "aside"
     /\ IF ~BudgetLeft \/ couples = {}
          THEN /\ owing' = Tail(owing)
               /\ UNCHANGED <<knows, quiet, openedToday, line, together>>
          ELSE LET pair == CHOOSE c \in couples : \A d \in couples :
                             c[1] < d[1] \/ (c[1] = d[1] /\ c[2] <= d[2])
                   stake == MatterOf(pair, o.line)
                   group == Seated(pair, {p \in stayed \ Range(pair) : Joins(stake, p)})
               IN Hold(Restate(stake, group), group, o.line, o.depth + 1, Tail(owing))
     /\ UNCHANGED inEpisode

DrawnIn(room) == inEpisode \cup room

(* Somebody who has just heard it turns to the rest of the room.            *)
CarryTheNews(o) ==
  LET carriers(t) == {p \in o.seats \ o.left : p \in o.telling[t].missing}
      outside(t) == {p \in People \ o.seats :
                       /\ zone[p] = zone[Min(o.seats)]
                       /\ ~Knows(p, o.telling[t].fact)}
      able == {t \in DOMAIN o.telling : carriers(t) # {} /\ outside(t) # {}}
  IN /\ o.kind = "carry"
     /\ IF ~BudgetLeft \/ able = {}
          THEN /\ owing' = Tail(owing)
               /\ UNCHANGED <<knows, quiet, openedToday, line, together, inEpisode>>
          ELSE LET t == Min(able)
                   group == Seated(<<Min(carriers(t))>>, outside(t))
               IN /\ Hold(News(o.telling[t].fact), group, o.line, o.depth + 1, Tail(owing))
                  /\ inEpisode' = DrawnIn(Range(group))

SmallerConversation ==
  /\ owing # <<>>
  /\ TakeAside(Head(owing)) \/ CarryTheNews(Head(owing))
  /\ UNCHANGED <<world, queue, consumed, met>>

-----------------------------------------------------------------------------
(* The tick. *)

(* Everybody decides from where they stand.                                 *)
DecideAndMeet ==
  /\ queue = <<>> /\ owing = <<>> /\ ticks < Ticks
  /\ ticks' = ticks + 1
  /\ zone' \in [People -> Places]
  /\ down' \in BOOLEAN
  /\ bills' \in SUBSET Owing
  /\ stale' \in SUBSET Facts
  /\ \/ UNCHANGED knows
     \/ \E p \in People, f \in Facts :
          knows' = [knows EXCEPT ![p][f] = IF @ = Unknown THEN FirstHand ELSE @]
  /\ \E S \in kSubset(Talkative, {p \in People : Others(p, zone') # {}}) :
       \E w \in [S -> People] :
         /\ \A p \in S : w[p] \in Others(p, zone')
         /\ wish' = [p \in People |-> IF p \in S THEN w[p] ELSE Nobody]
         /\ queue' = InOrder(S)
  /\ quiet' = [p \in People |-> Min({Cooldown, quiet[p] + 1})]
  /\ consumed' = {} /\ together' = {} /\ inEpisode' = {} /\ met' = {} /\ line' = <<>>
  /\ UNCHANGED <<openedToday, owing>>

(* _encounters: the meetings no episode was made of.                        *)
Encounters ==
  /\ queue = <<>> /\ owing = <<>> /\ met = {}
  /\ met' = {{p, wish[p]} : p \in {q \in People : wish[q] # Nobody}} \ consumed
  /\ met' # met
  /\ UNCHANGED <<world, knows, quiet, openedToday, queue, owing, line, consumed, together, inEpisode>>

TalkNext ==
  \/ \E p \in People : OpenEpisode(p) \/ NoEpisode(p)
  \/ SmallerConversation
  \/ DecideAndMeet
  \/ Encounters

TalkSpec == TalkInit /\ [][TalkNext]_talkVars

-----------------------------------------------------------------------------

(* A matter that is taken aside is never one that the conversation it came  *)
(* from, or one before that, was already about; only news is gone on with.  *)
NeverBackToAMatter ==
  \A i, j \in DOMAIN line : i # j /\ line[i] = line[j] => line[i][1] = "news"

(* A pair that was in an episode together is not recorded as an encounter   *)
(* as well.                                                                 *)
NoMeetingTwice == met \cap together = {}
=============================================================================
