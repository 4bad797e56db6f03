---------------------------- MODULE DecidingProofs ----------------------------
(***************************************************************************)
(* Proofs about how a decision is come by, part by part.                   *)
(*                                                                         *)
(* ModelCalls, for any requests, batches, faults and choice of what may go *)
(* wrong: CallsInv says where an answer that was paid for is - in hand, on *)
(* record, or lost - and that the table and the cassette agree line by     *)
(* line.                                                                   *)
(*                                                                         *)
(* SecondOpinions, for any questions, models, allowance and choice of what *)
(* is live: OpinionsInv says that what a round has heard is on record or   *)
(* marked, that what a tick was let in had room, and that what a committed *)
(* decision stood on still stands.                                         *)
(*                                                                         *)
(* SpendLedger, for any processes, calls and costs: LedgerInv says how far *)
(* the running total goes, and that it is the fold of the rows that far.   *)
(* The lemmas about sums come first, and what the law firm bills, the other *)
(* sum of the project, is proved beside them: HoursInv says that a month    *)
(* whose run is still to come has nothing on its bills.                     *)
(*                                                                         *)
(* Weighing and Judgements, for any options, mass, firms and dealings: what *)
(* is to be shown holds of every answer, so the invariants say little more. *)
(***************************************************************************)
EXTENDS ModelCalls, SecondOpinions, SpendLedger, Weighing, Judgements, Hours,
  FiniteSetTheorems, FunctionTheorems, WellFoundedInduction, TLAPS

Phases == {"between", "asking", "storing", "append", "settled", "halted", "down"}
Stages == {"none", "asked", "arrived", "failed", "kept", "stored"}
Lines == [key : Keys, answer : Answers]
Decisions == [tick : Nat, request : Requests, answer : Answers]

CallsTypeOK ==
  /\ tick \in Nat \ {0} /\ faults \in Nat
  /\ phase \in Phases
  /\ call \in [Requests -> Stages]
  /\ got \in [Requests -> Answers \cup {None}]
  /\ table \in [Keys -> Answers \cup {None}]
  /\ cassette \in Seq(Lines)
  /\ torn \in BOOLEAN
  /\ served \in [Requests -> Nat] /\ lost \in [Requests -> Nat]
  /\ unlined \subseteq Keys
  /\ made \subseteq Decisions

\* Where the process is says where its calls may be: there are some only during
\* a batch, a row waits for its line only while that line is being written, and
\* what has an answer has it in hand.
StagesInv ==
  /\ phase \in {"asking", "storing", "append", "settled"} => tick <= LastTick
  /\ phase \notin {"asking", "storing", "append"} => \A r \in Requests : call[r] = "none"
  /\ \A r \in Requests : call[r] = "kept" => phase = "append"
  /\ \A r, q \in Requests : call[r] = "kept" /\ call[q] = "kept" => r = q
  /\ \A r \in Requests : call[r] \in {"arrived", "kept"} => got[r] # None
  /\ \A r \in Requests : call[r] \in {"asked", "arrived"} => OnRecord(r) = None
  /\ \A r \in Requests : call[r] = "kept" => table[KeyOf(r, got[r])] = got[r]

\* Is an answer of the pinned build in hand, and not yet on record?
InHand(r) == call[r] = "arrived" /\ got[r].build = Pin

\* An answer that was paid for is in hand, on record, or one of those lost.
PaidInv ==
  \A r \in Requests :
    served[r] <= lost[r] + (IF InHand(r) THEN 1 ELSE 0) + (IF OnRecord(r) # None THEN 1 ELSE 0)

HasLine(k) == \E i \in DOMAIN cassette : cassette[i].key = k

\* Each line says what the row says; each row has its line, or lost it, or is
\* about to get it; what a decision was made on is on record, and has its line
\* or lost it.
LinesInv ==
  /\ \A i \in DOMAIN cassette : table[cassette[i].key] = cassette[i].answer
  /\ \A k \in Keys : table[k] # None =>
       \/ HasLine(k) \/ k \in unlined
       \/ \E r \in Requests : call[r] = "kept" /\ KeyOf(r, got[r]) = k
  /\ \A m \in made :
       /\ OnRecord(m.request) = m.answer
       /\ HasLine(<<m.request, Pin>>) \/ <<m.request, Pin>> \in unlined

CallsInv == CallsTypeOK /\ StagesInv /\ PaidInv /\ LinesInv

-----------------------------------------------------------------------------
Verdicts == {"nothing", "usable", "unusable"}
MarkOf == {"failed", "unresolvable"}
OpinionRows == [turn : Nat, want : Nat, applied : BOOLEAN]
SettledRows == [turn : Nat, want : Nat, question : Questions, denied : BOOLEAN, by : Nat]

LoopTypes ==
  /\ turn \in Nat \ {0}
  /\ step \in {"between", "asking", "keeping", "deciding"}
  /\ live \subseteq Questions
  /\ wanted \subseteq Nat /\ model \in Nat
  /\ replies \in [Questions -> {"none", "usable", "unusable", "fails"}]
  /\ heard \subseteq Questions \X Preference
  /\ failure \in BOOLEAN /\ shadowTime \in BOOLEAN /\ mishaps \in Nat

RecordTypes ==
  /\ onRecord \in [Questions -> [Preference -> Verdicts]]
  /\ marks \subseteq Questions \X Preference \X MarkOf
  /\ opinions \subseteq OpinionRows /\ IsFiniteSet(opinions)
  /\ settled \subseteq SettledRows /\ IsFiniteSet(settled)

OpinionsTypeOK == LoopTypes /\ RecordTypes

\* Between a question and its answer: who has been heard is on
\* record or cannot be resolved, or the answer is not to act; who cannot be
\* resolved is not asked; and a reply that waits is about what is still open.
HeardInv ==
  /\ step # "keeping" => \A q \in Questions : replies[q] = "none"
  /\ step # "between" =>
       /\ turn <= Len(Escalations) /\ wanted \subseteq DOMAIN Wants /\ model > 0
       /\ \A q \in Questions, m \in Preference : <<q, m>> \in heard =>
            onRecord[q][m] # "nothing" \/ <<q, m, "unresolvable">> \in marks \/ ~Acting(q)
       /\ \A q \in AsksAbout(wanted), m \in Preference :
            ~Found(q) /\ <<q, m, "unresolvable">> \in marks => <<q, m>> \in heard
       /\ step = "keeping" =>
            /\ model \in Preference
            /\ \A q \in Questions : replies[q] # "none" =>
                 q \in AsksAbout(wanted) /\ ~Found(q) /\ <<q, model>> \notin heard

\* Those that are let in before want i and act.
LetIn(i) == {k \in wanted : k < i /\ Acting(Wants[k])}
Applied == {o \in opinions : o.applied}

\* One that acts and is turned away finds the day's allowance taken, all of it,
\* by those that act.
RoomInv ==
  step # "between" =>
    \A i \in DOMAIN Wants : Acting(Wants[i]) /\ i \notin wanted =>
      Allowance <= Cardinality(Applied) + Cardinality(LetIn(i))

\* What was settled on an opinion still finds it first.
StandsOn(d) ==
  IF d.by = Jev
    THEN \A m \in Preference :
           \/ onRecord[d.question][m] = "unusable"
           \/ <<d.question, m, "unresolvable">> \in marks /\ onRecord[d.question][m] = "nothing"
    ELSE Found(d.question) /\ d.by = First(d.question)

\* Those that were settled before d, and let in.
LetInBefore(d) ==
  {e \in settled : /\ e.turn < d.turn \/ (e.turn = d.turn /\ e.want < d.want)
                  /\ ~e.denied}

\* The rows of earlier ticks: each opinion that acts was let in, and each want
\* that was turned away was turned away rightly.
SettledInv ==
  /\ \A d \in settled : d.turn < turn
  /\ \A d \in settled : ~d.denied => StandsOn(d)
  /\ \A o \in opinions : o.applied =>
       \E e \in settled : e.turn = o.turn /\ e.want = o.want /\ ~e.denied
  /\ \A o \in opinions : o.turn < turn
  /\ \A d \in settled : d.denied => Cardinality(LetInBefore(d)) >= Allowance

OpinionsInv == OpinionsTypeOK /\ HeardInv /\ RoomInv /\ SettledInv

-----------------------------------------------------------------------------
\* The image of a finite set is finite, and no larger.
LEMMA ImageIsFinite ==
  ASSUME NEW S, IsFiniteSet(S), NEW f, f = [x \in S |-> f[x]]
  PROVE  /\ IsFiniteSet({f[x] : x \in S})
         /\ Cardinality({f[x] : x \in S}) <= Cardinality(S)
<1> DEFINE T == {f[x] : x \in S}
<1>1. f \in [S -> T] /\ \A y \in T : \E x \in S : f[x] = y
  OBVIOUS
<1>2. f \in Surjection(S, T)
  BY <1>1, Fun_IsSurj
<1> QED BY <1>2, FS_Surjection

\* What a key, an answer and a line are.
LEMMA CallsFacts ==
  /\ LastTick \in Nat
  /\ \A t \in 1 .. LastTick : Batch[t] \subseteq Requests
  /\ Pin \in Builds /\ None \notin Answers
  /\ \A a \in Answers : a.build \in Builds
  /\ \A r \in Requests : <<r, Pin>> \in Keys
  /\ \A r \in Requests, a \in Answers : KeyOf(r, a) \in Keys
BY CallsAssumption, NoneAssumption DEF Answers, Builds, Keys, KeyOf

\* load_cassette changes nothing where the table has every line already.
LEMMA LoadedIsTable ==
  ASSUME CallsTypeOK, LinesInv
  PROVE  Loaded(table, cassette) = table
<1>1. \A k \in Keys : table[k] # None \/ \A i \in DOMAIN cassette : cassette[i].key # k
  <2> SUFFICES ASSUME NEW k \in Keys, NEW i \in DOMAIN cassette, cassette[i].key = k
               PROVE  table[k] # None
    OBVIOUS
  <2>1. cassette[i] \in Lines
    BY DEF CallsTypeOK
  <2>2. cassette[i].answer \in Answers
    BY <2>1 DEF Lines
  <2> QED BY <2>2, CallsFacts DEF LinesInv
<1>2. table = [k \in Keys |-> table[k]]
  BY DEF CallsTypeOK
<1> QED BY <1>1, <1>2 DEF Loaded

\* A set of natural numbers has a least member.
LEMMA LeastNatural ==
  ASSUME NEW S, S \subseteq Nat, S # {}
  PROVE  \E x \in S : \A y \in S : x <= y
<1>1. PICK x \in S : \A y \in S : ~ (<<y, x>> \in OpToRel(<, Nat))
  BY NatLessThanWellFounded, WFMin, Zenon
<1>2. \A y \in S : ~ (y < x)
  BY <1>1 DEF OpToRel
<1> QED BY <1>2

\* A line that is there is found, and is what the table says.
LEMMA LineIsFound ==
  ASSUME CallsTypeOK, LinesInv, NEW k \in Keys, HasLine(k)
  PROVE  Loaded([x \in Keys |-> None], cassette)[k] = table[k]
<1> DEFINE IsFirst(i) == cassette[i].key = k /\ \A j \in 1 .. i - 1 : cassette[j].key # k
<1>1. \E i \in DOMAIN cassette : IsFirst(i)
  <2> DEFINE at == {i \in Nat : i \in DOMAIN cassette /\ cassette[i].key = k}
  <2>1. at # {} /\ at \subseteq Nat
    <3>1. DOMAIN cassette \subseteq Nat
      BY DEF CallsTypeOK
    <3> QED BY <3>1 DEF HasLine
  <2>2. PICK i \in at : \A j \in at : i <= j
    BY <2>1, LeastNatural
  <2>3. \A j \in 1 .. i - 1 : j \in DOMAIN cassette /\ j \in Nat
    BY <2>2 DEF CallsTypeOK
  <2>4. \A j \in 1 .. i - 1 : cassette[j].key # k
    BY <2>2, <2>3
  <2> QED BY <2>2, <2>4
<1> DEFINE first == CHOOSE i \in DOMAIN cassette : IsFirst(i)
<1>2. first \in DOMAIN cassette /\ IsFirst(first)
  BY <1>1
<1>3. Loaded([x \in Keys |-> None], cassette)[k] = cassette[first].answer
  BY DEF Loaded, HasLine
<1> QED BY <1>2, <1>3 DEF LinesInv

-----------------------------------------------------------------------------
\* No step leaves the types.
LEMMA CallsTyped ==
  ASSUME CallsTypeOK, StagesInv, LinesInv, Next
  PROVE  CallsTypeOK'
<1> USE CallsFacts DEF CallsTypeOK, Phases, Stages, NoCalls, accounts
<1>1. ASSUME Ask \/ Gathered \/ Misread PROVE CallsTypeOK'
  BY <1>1 DEF Ask, Gathered, Misread
<1>2. ASSUME NEW r \in Requests, NEW a \in Answers, Serve(r, a) PROVE CallsTypeOK'
  BY <1>2 DEF Serve
<1>3. ASSUME NEW r \in Requests, Fail(r) PROVE CallsTypeOK'
  BY <1>3 DEF Fail
<1>4. ASSUME Dropped PROVE lost' \in [Requests -> Nat]
  BY <1>4 DEF Dropped
<1>5. ASSUME Timeout PROVE CallsTypeOK'
  BY <1>4, <1>5 DEF Timeout
<1>6. ASSUME Settled PROVE CallsTypeOK'
  BY <1>6 DEF Settled
<1>7. ASSUME NEW r \in Requests, Store(r) PROVE CallsTypeOK'
  <2>1. got[r] \in Answers
    BY <1>7 DEF StagesInv, Store
  <2>2. KeyOf(r, got[r]) \in Keys
    BY <2>1
  <2> HIDE DEF KeyOf
  <2> QED BY <1>7, <2>1, <2>2 DEF Store
<1>8. ASSUME NEW r \in Requests, AppendLine(r) PROVE CallsTypeOK'
  <2>1. got[r] \in Answers
    BY <1>8 DEF StagesInv, AppendLine
  <2>2. KeyOf(r, got[r]) \in Keys
    BY <2>1
  <2>3. Line(r) \in Lines
    BY <2>1, <2>2 DEF Line, Lines
  <2>4. cassette' \in Seq(Lines)
    BY <1>8, <2>3 DEF AppendLine
  <2>5. unlined' \subseteq Keys
    BY <1>8, <2>2 DEF AppendLine
  <2> HIDE DEF KeyOf, Line
  <2> QED BY <1>8, <2>4, <2>5 DEF AppendLine
<1>9. ASSUME Decide PROVE CallsTypeOK'
  <2>1. \A r \in Batch[tick] : OnRecord(r) \in Answers
    <3>1. Batch[tick] \subseteq Requests
      BY <1>9 DEF Decide, StagesInv
    <3>2. \A r \in Requests : OnRecord(r) \in Answers \cup {None}
      BY DEF OnRecord
    <3> QED BY <1>9, <3>1, <3>2 DEF Decide, Good
  <2>2. made' \subseteq Decisions
    <3>1. Batch[tick] \subseteq Requests
      BY <1>9 DEF Decide, StagesInv
    <3> QED BY <1>9, <2>1, <3>1 DEF Decide, Decisions
  <2> QED BY <1>9, <2>2 DEF Decide
<1>10. ASSUME Crash PROVE CallsTypeOK'
  <2>1. \A r \in Requests : call[r] = "kept" => KeyOf(r, got[r]) \in Keys
    BY DEF StagesInv
  <2>2. unlined' \subseteq Keys
    BY <1>10, <2>1 DEF Crash
  <2>3. torn' \in BOOLEAN
    BY <1>10 DEF Crash
  <2>4. lost' \in [Requests -> Nat]
    BY <1>4, <1>10 DEF Crash
  <2>5. /\ UNCHANGED <<tick, table, cassette, served, made>> /\ faults' = faults + 1
        /\ phase' = "down" /\ call' = NoCalls /\ got' = [r \in Requests |-> None]
    BY <1>10 DEF Crash
  <2> QED BY <2>2, <2>3, <2>4, <2>5
<1>11. ASSUME Restart PROVE CallsTypeOK'
  <2>1. Loaded(table, cassette) = table
    BY LoadedIsTable
  <2> QED BY <1>11, <2>1 DEF Restart
<1> QED BY <1>1, <1>2, <1>3, <1>5, <1>6, <1>7, <1>8, <1>9, <1>10, <1>11 DEF Next, Work

\* Storing an answer changes what is on record of its own request only, and of
\* that one only when the pinned build gave it.
LEMMA StoreRecords ==
  ASSUME CallsTypeOK, StagesInv, NEW r \in Requests, Store(r)
  PROVE  /\ \A k \in Keys : k # KeyOf(r, got[r]) => table'[k] = table[k]
         /\ \A q \in Requests : q # r => OnRecord(q)' = OnRecord(q)
         /\ got[r] \in Answers /\ KeyOf(r, got[r]) \in Keys
         /\ IF table[KeyOf(r, got[r])] = None
              THEN /\ table'[KeyOf(r, got[r])] = got[r]
                   /\ phase' = "append" /\ call' = [call EXCEPT ![r] = "kept"]
              ELSE /\ table' = table
                   /\ phase' = phase /\ call' = [call EXCEPT ![r] = "stored"]
<1>1. call[r] = "arrived" /\ got[r] # None
  BY DEF Store, StagesInv
<1>2. got[r] \in Answers /\ KeyOf(r, got[r]) \in Keys
  BY <1>1, CallsFacts DEF CallsTypeOK
<1> DEFINE k == KeyOf(r, got[r])
<1>3. \A q \in Requests : q # r => <<q, Pin>> # k /\ <<q, Pin>> \in Keys
  BY CallsFacts DEF KeyOf
<1> HIDE DEF k
<1>4. \/ table[k] = None /\ table' = [table EXCEPT ![k] = got[r]]
           /\ phase' = "append" /\ call' = [call EXCEPT ![r] = "kept"]
      \/ table[k] # None /\ UNCHANGED <<table, phase>> /\ call' = [call EXCEPT ![r] = "stored"]
  BY DEF Store, k
<1>5. \A x \in Keys : x # k => table'[x] = table[x]
  BY <1>4 DEF CallsTypeOK
<1>6. table[k] = None => table'[k] = got[r]
  BY <1>2, <1>4 DEF CallsTypeOK, k
<1> QED BY <1>2, <1>3, <1>4, <1>5, <1>6 DEF k, OnRecord

\* No step leaves a call where the process cannot have one.
LEMMA StagesKept ==
  ASSUME CallsTypeOK, StagesInv, LinesInv, Next
  PROVE  StagesInv'
<1> USE CallsFacts DEF CallsTypeOK, Phases, Stages, NoCalls, OnRecord, StagesInv
<1>1. ASSUME Ask PROVE StagesInv'
  <2>1. tick <= LastTick /\ UNCHANGED <<tick, got, table>>
    BY <1>1 DEF Ask
  <2>2. CASE Missing = {}
    BY <1>1, <2>1, <2>2 DEF Ask
  <2>3. CASE Missing # {}
    <3>1. phase' = "asking"
      BY <1>1, <2>3 DEF Ask
    <3>2. \A r \in Requests : call'[r] = IF r \in Missing THEN "asked" ELSE "none"
      BY <1>1, <2>3 DEF Ask
    <3>3. \A r \in Missing : table[<<r, Pin>>] = None
      BY DEF Missing
    <3> QED BY <2>1, <3>1, <3>2, <3>3
  <2> QED BY <2>2, <2>3
<1>2. ASSUME Gathered \/ Misread PROVE StagesInv'
  BY <1>2 DEF Gathered, Misread
<1>3. ASSUME NEW r \in Requests, NEW a \in Answers, Serve(r, a) PROVE StagesInv'
  BY <1>3 DEF Serve, KeyOf
<1>4. ASSUME NEW r \in Requests, Fail(r) PROVE StagesInv'
  BY <1>4 DEF Fail
<1>5. ASSUME Timeout PROVE StagesInv'
  BY <1>5 DEF Timeout
<1>6. ASSUME Settled PROVE StagesInv'
  BY <1>6 DEF Settled
<1>7. ASSUME NEW r \in Requests, Store(r) PROVE StagesInv'
  <2> DEFINE k == KeyOf(r, got[r])
  <2>1. phase = "storing" /\ call[r] = "arrived" /\ UNCHANGED <<tick, got>>
    BY <1>7 DEF Store
  <2>2. \A q \in Requests : call[q] # "kept"
    BY <2>1
  <2> HIDE DEF k
  <2>3. \A q \in Requests : q # r => table'[<<q, Pin>>] = table[<<q, Pin>>]
    BY <1>7, StoreRecords
  <2>4. CASE table[k] = None
    <3>1. phase' = "append" /\ call' = [call EXCEPT ![r] = "kept"] /\ table'[k] = got[r]
      BY <1>7, <2>4, StoreRecords DEF k
    <3>2. KeyOf(r, got'[r]) = k /\ got'[r] = got[r]
      BY <2>1 DEF k
    <3> QED BY <2>1, <2>2, <2>3, <3>1, <3>2
  <2>5. CASE table[k] # None
    <3>1. phase' = phase /\ call' = [call EXCEPT ![r] = "stored"] /\ table' = table
      BY <1>7, <2>5, StoreRecords DEF k
    <3> QED BY <2>1, <2>2, <3>1
  <2> QED BY <2>4, <2>5
<1>8. ASSUME NEW r \in Requests, AppendLine(r) PROVE StagesInv'
  BY <1>8 DEF AppendLine
<1>9. ASSUME Decide PROVE StagesInv'
  BY <1>9 DEF Decide
<1>10. ASSUME Crash PROVE StagesInv'
  <2>1. phase' = "down" /\ call' = NoCalls
    BY <1>10 DEF Crash
  <2> QED BY <2>1
<1>11. ASSUME Restart PROVE StagesInv'
  <2>1. UNCHANGED table
    BY <1>11, LoadedIsTable DEF Restart
  <2> QED BY <1>11, <2>1 DEF Restart
<1> QED BY <1>1, <1>2, <1>3, <1>4, <1>5, <1>6, <1>7, <1>8, <1>9, <1>10, <1>11 DEF Next, Work

\* No step loses an answer that was paid for without counting it.
LEMMA PaidKept ==
  ASSUME CallsTypeOK, StagesInv, PaidInv, LinesInv, Next
  PROVE  PaidInv'
<1> USE CallsFacts DEF CallsTypeOK, NoCalls, OnRecord, InHand, PaidInv
<1>1. ASSUME Ask PROVE PaidInv'
  <2>1. \A r \in Requests : call[r] = "none"
    BY <1>1 DEF Ask, StagesInv
  <2> QED BY <1>1, <2>1 DEF Ask, accounts
<1>2. ASSUME Gathered \/ Misread \/ Decide PROVE PaidInv'
  BY <1>2 DEF Gathered, Misread, Decide, accounts
<1>3. ASSUME NEW r \in Requests, NEW a \in Answers, Serve(r, a) PROVE PaidInv'
  <2>1. table[<<r, Pin>>] = None /\ call[r] = "asked"
    BY <1>3 DEF Serve, StagesInv
  <2> SUFFICES ASSUME NEW q \in Requests
               PROVE  served'[q] <= lost'[q] + (IF InHand(q)' THEN 1 ELSE 0)
                                    + (IF table'[<<q, Pin>>] # None THEN 1 ELSE 0)
    OBVIOUS
  <2>2. UNCHANGED <<table, lost>>
    BY <1>3 DEF Serve
  <2>3. CASE q = r /\ a.build = Pin
    <3>1. InHand(q)' /\ served'[q] = served[q] + 1 /\ ~ InHand(q)
      BY <1>3, <2>1, <2>3 DEF Serve
    <3> HIDE DEF InHand
    <3>2. /\ table[<<q, Pin>>] = None /\ ~ InHand(q)
          /\ served[q] \in Nat /\ lost[q] \in Nat
      BY <2>1, <2>3, <3>1
    <3>3. served[q] <= lost[q] + 0 + 0
      BY <3>2
    <3> QED BY <2>2, <3>1, <3>2, <3>3
  <2>4. CASE q # r \/ a.build # Pin
    <3>1. InHand(q)' <=> InHand(q)
      BY <1>3, <2>1, <2>4 DEF Serve
    <3>2. served'[q] = served[q]
      BY <1>3, <2>4 DEF Serve
    <3> HIDE DEF InHand
    <3> QED BY <2>2, <3>1, <3>2
  <2> QED BY <2>3, <2>4
<1>4. ASSUME NEW r \in Requests, Fail(r) PROVE PaidInv'
  BY <1>4 DEF Fail, accounts
<1>5. ASSUME Dropped, call' = NoCalls, UNCHANGED <<table, served>> PROVE PaidInv'
  <2> SUFFICES ASSUME NEW q \in Requests
               PROVE  served'[q] <= lost'[q] + (IF InHand(q)' THEN 1 ELSE 0)
                                    + (IF table'[<<q, Pin>>] # None THEN 1 ELSE 0)
    OBVIOUS
  <2>1. ~ InHand(q)'
    BY <1>5
  <2>2. lost'[q] = lost[q] + (IF InHand(q) THEN 1 ELSE 0)
    BY <1>5 DEF Dropped
  <2> HIDE DEF InHand
  <2> QED BY <1>5, <2>1, <2>2
<1>6. ASSUME Timeout \/ Crash PROVE PaidInv'
  <2>1. Dropped /\ call' = NoCalls /\ UNCHANGED <<table, served>>
    BY <1>6 DEF Timeout, Crash
  <2> QED BY <1>5, <2>1
<1>7. ASSUME Settled PROVE PaidInv'
  BY <1>7 DEF Settled, accounts
<1>8. ASSUME NEW r \in Requests, Store(r) PROVE PaidInv'
  <2> SUFFICES ASSUME NEW q \in Requests
               PROVE  served'[q] <= lost'[q] + (IF InHand(q)' THEN 1 ELSE 0)
                                    + (IF table'[<<q, Pin>>] # None THEN 1 ELSE 0)
    OBVIOUS
  <2>1. UNCHANGED <<served, lost, got>> /\ call[r] = "arrived"
    BY <1>8 DEF Store, accounts
  <2>2. CASE q # r
    <3>1. InHand(q)' <=> InHand(q)
      BY <1>8, <2>1, <2>2 DEF Store
    <3>2. table'[<<q, Pin>>] = table[<<q, Pin>>]
      BY <1>8, <2>2, StoreRecords
    <3> HIDE DEF InHand
    <3> QED BY <2>1, <3>1, <3>2
  <2>3. CASE q = r
    <3>1. ~ InHand(q)'
      BY <1>8, <2>3 DEF Store
    <3>2. table[<<r, Pin>>] = None
      BY <2>1 DEF StagesInv
    <3>3. CASE got[r].build = Pin
      <4>1. KeyOf(r, got[r]) = <<r, Pin>> /\ InHand(r)
        BY <2>1, <3>3 DEF KeyOf
      <4>2. table'[<<r, Pin>>] = got[r] /\ got[r] # None
        <5>1. table[KeyOf(r, got[r])] = None
          BY <3>2, <4>1
        <5> HIDE DEF InHand
        <5>2. table'[KeyOf(r, got[r])] = got[r] /\ got[r] \in Answers
          BY <1>8, <5>1, StoreRecords
        <5> QED BY <4>1, <5>2
      <4> QED BY <2>1, <2>3, <3>1, <3>2, <4>1, <4>2
    <3>4. CASE got[r].build # Pin
      <4>1. ~ InHand(r)
        BY <3>4
      <4>2. served[q] <= lost[q]
        BY <2>3, <3>2, <4>1
      <4> HIDE DEF InHand
      <4> QED BY <2>1, <4>2
    <3> QED BY <3>3, <3>4
  <2> QED BY <2>2, <2>3
<1>9. ASSUME NEW r \in Requests, AppendLine(r) PROVE PaidInv'
  BY <1>9 DEF AppendLine
<1>10. ASSUME Restart PROVE PaidInv'
  <2>1. UNCHANGED table
    BY <1>10, LoadedIsTable DEF Restart
  <2> QED BY <1>10, <2>1 DEF Restart, accounts
<1> QED BY <1>1, <1>2, <1>3, <1>4, <1>6, <1>7, <1>8, <1>9, <1>10 DEF Next, Work

\* What is on record stays on record, whatever is served, dies or is loaded.
LEMMA RecordStands ==
  ASSUME CallsTypeOK, StagesInv, LinesInv, Next
  PROVE  \A k \in Keys : table[k] # None => table'[k] = table[k]
<1>1. ASSUME Ask \/ Gathered \/ Settled \/ Decide \/ Misread \/ Timeout \/ Crash
      PROVE  table' = table
  BY <1>1 DEF Ask, Gathered, Settled, Decide, Misread, Timeout, Crash
<1>2. ASSUME NEW r \in Requests, AppendLine(r) \/ Fail(r) PROVE table' = table
  BY <1>2 DEF AppendLine, Fail
<1>3. ASSUME NEW r \in Requests, NEW a \in Answers, Serve(r, a) PROVE table' = table
  BY <1>3 DEF Serve
<1>4. ASSUME Restart PROVE table' = table
  BY <1>4, LoadedIsTable DEF Restart
<1>5. ASSUME NEW r \in Requests, Store(r), NEW k \in Keys, table[k] # None
      PROVE  table'[k] = table[k]
  BY <1>5, StoreRecords
<1> QED BY <1>1, <1>2, <1>3, <1>4, <1>5 DEF Next, Work

\* No step parts the cassette from the table: where neither the cassette, the
\* decisions nor the kept call change, the lines are as good as they were.
LEMMA LinesStand ==
  ASSUME CallsTypeOK, StagesInv, LinesInv, UNCHANGED <<table, cassette, made>>,
         unlined \subseteq unlined',
         \A r \in Requests : call[r] = "kept" =>
            \/ call'[r] = "kept" /\ got'[r] = got[r]
            \/ KeyOf(r, got[r]) \in unlined'
  PROVE  LinesInv'
<1> USE DEF OnRecord, HasLine
<1>1. \A i \in DOMAIN cassette' : table'[cassette'[i].key] = cassette'[i].answer
  BY DEF LinesInv
<1>2. ASSUME NEW k \in Keys, table'[k] # None
      PROVE  \/ HasLine(k)' \/ k \in unlined'
             \/ \E r \in Requests : call'[r] = "kept" /\ KeyOf(r, got'[r]) = k
  <2>1. CASE HasLine(k) \/ k \in unlined
    BY <2>1
  <2>2. CASE \E r \in Requests : call[r] = "kept" /\ KeyOf(r, got[r]) = k
    <3>1. PICK r \in Requests : call[r] = "kept" /\ KeyOf(r, got[r]) = k
      BY <2>2
    <3> QED BY <3>1
  <2> QED BY <1>2, <2>1, <2>2 DEF LinesInv
<1>3. \A m \in made' : /\ table'[<<m.request, Pin>>] = m.answer
                       /\ HasLine(<<m.request, Pin>>)' \/ <<m.request, Pin>> \in unlined'
  BY DEF LinesInv
<1> QED BY <1>1, <1>2, <1>3 DEF LinesInv

LEMMA LinesKept ==
  ASSUME CallsTypeOK, StagesInv, LinesInv, Next
  PROVE  LinesInv'
<1> USE CallsFacts DEF NoCalls
<1>1. ASSUME Ask PROVE LinesInv'
  <2>1. /\ UNCHANGED <<table, cassette, made, unlined>>
        /\ \A r \in Requests : call[r] = "none"
    BY <1>1 DEF Ask, accounts, StagesInv
  <2> QED BY <2>1, LinesStand
<1>2. ASSUME Gathered \/ Misread PROVE LinesInv'
  <2>1. UNCHANGED <<table, cassette, made, unlined, call, got>>
    BY <1>2 DEF Gathered, Misread, accounts
  <2> QED BY <2>1, LinesStand
<1>3. ASSUME NEW r \in Requests, NEW a \in Answers, Serve(r, a) PROVE LinesInv'
  <2>1. /\ UNCHANGED <<table, cassette, made, unlined>> /\ phase = "asking"
    BY <1>3 DEF Serve
  <2>2. \A q \in Requests : call[q] # "kept"
    BY <2>1 DEF StagesInv
  <2> QED BY <2>1, <2>2, LinesStand
<1>4. ASSUME (\E r \in Requests : Fail(r)) \/ Timeout PROVE LinesInv'
  <2>1. /\ UNCHANGED <<table, cassette, made, unlined>> /\ phase = "asking"
    BY <1>4 DEF Fail, Timeout, accounts
  <2>2. \A q \in Requests : call[q] # "kept"
    BY <2>1 DEF StagesInv
  <2> QED BY <2>1, <2>2, LinesStand
<1>5. ASSUME Settled PROVE LinesInv'
  <2>1. /\ UNCHANGED <<table, cassette, made, unlined>> /\ phase = "storing"
    BY <1>5 DEF Settled, accounts
  <2>2. \A q \in Requests : call[q] # "kept"
    BY <2>1 DEF StagesInv
  <2> QED BY <2>1, <2>2, LinesStand
<1>6. ASSUME Crash PROVE LinesInv'
  <2>1. /\ UNCHANGED <<table, cassette, made>> /\ unlined \subseteq unlined'
        /\ \A r \in Requests : call[r] = "kept" => KeyOf(r, got[r]) \in unlined'
    BY <1>6 DEF Crash
  <2> QED BY <2>1, LinesStand
<1>7. ASSUME Restart PROVE LinesInv'
  <2>1. UNCHANGED <<table, cassette, made, unlined, call, got>>
    BY <1>7, LoadedIsTable DEF Restart, accounts
  <2> QED BY <2>1, LinesStand
<1>8. ASSUME NEW r \in Requests, Store(r) PROVE LinesInv'
  <2>1. UNCHANGED <<cassette, made, unlined, got>> /\ call[r] = "arrived" /\ phase = "storing"
    BY <1>8 DEF Store, accounts
  <2>2. \A q \in Requests : call[q] # "kept"
    BY <2>1 DEF StagesInv
  <2> DEFINE k == KeyOf(r, got[r])
  <2>3. CASE table[k] # None
    <3>1. UNCHANGED table
      BY <1>8, <2>3, StoreRecords
    <3> QED BY <2>1, <2>2, <3>1, LinesStand
  <2>4. CASE table[k] = None
    <3>1. call'[r] = "kept"
      BY <1>8, <2>4, StoreRecords DEF CallsTypeOK
    <3>2. \A x \in Keys : x # k => table'[x] = table[x]
      BY <1>8, StoreRecords
    <3>3. \A x \in Keys : table[x] # None => table'[x] = table[x]
      BY RecordStands
    <3>4. ASSUME NEW i \in DOMAIN cassette' PROVE table'[cassette'[i].key] = cassette'[i].answer
      <4>1. cassette[i] \in Lines
        BY <2>1, <3>4 DEF CallsTypeOK
      <4>2. cassette[i].key \in Keys /\ cassette[i].answer \in Answers
        BY <4>1 DEF Lines
      <4>3. table[cassette[i].key] = cassette[i].answer
        BY <2>1, <3>4 DEF LinesInv
      <4> QED BY <2>1, <3>3, <4>2, <4>3
    <3>5. ASSUME NEW x \in Keys, table'[x] # None
          PROVE  \/ HasLine(x)' \/ x \in unlined'
                 \/ \E q \in Requests : call'[q] = "kept" /\ KeyOf(q, got'[q]) = x
      <4>1. CASE x = k
        BY <2>1, <3>1, <4>1
      <4>2. CASE x # k
        BY <2>1, <2>2, <3>2, <3>5, <4>2 DEF LinesInv, HasLine
      <4> QED BY <4>1, <4>2
    <3>6. ASSUME NEW m \in made'
          PROVE  /\ OnRecord(m.request)' = m.answer
                 /\ HasLine(<<m.request, Pin>>)' \/ <<m.request, Pin>> \in unlined'
      <4>1. m \in made /\ m \in Decisions
        BY <2>1, <3>6 DEF CallsTypeOK
      <4>2. m.request \in Requests /\ m.answer \in Answers
        BY <4>1 DEF Decisions
      <4>3. <<m.request, Pin>> \in Keys /\ table[<<m.request, Pin>>] = m.answer
        BY <4>1, <4>2 DEF LinesInv, OnRecord
      <4>4. table'[<<m.request, Pin>>] = m.answer
        BY <3>3, <4>2, <4>3
      <4> QED BY <2>1, <4>1, <4>4 DEF LinesInv, OnRecord, HasLine
    <3> QED BY <3>4, <3>5, <3>6 DEF LinesInv
  <2> QED BY <2>3, <2>4
<1>9. ASSUME NEW r \in Requests, AppendLine(r) PROVE LinesInv'
  <2> DEFINE k == KeyOf(r, got[r])
  <2>1. /\ UNCHANGED <<table, made, got>> /\ call[r] = "kept"
        /\ cassette' = IF torn THEN cassette ELSE Append(cassette, Line(r))
        /\ unlined' = IF torn THEN unlined \cup {k} ELSE unlined
    BY <1>9 DEF AppendLine
  <2>2. CASE torn
    <3>1. k \in unlined' /\ unlined \subseteq unlined' /\ UNCHANGED cassette
      BY <2>1, <2>2
    <3>2. \A q \in Requests : call[q] = "kept" => q = r
      BY <2>1 DEF StagesInv
    <3> QED BY <2>1, <3>1, <3>2, LinesStand
  <2>3. CASE ~torn
    <3>1. cassette' = Append(cassette, Line(r)) /\ unlined' = unlined
      BY <2>1, <2>3
    <3>2. Line(r) = [key |-> k, answer |-> got[r]] /\ table[k] = got[r]
      BY <2>1 DEF Line, StagesInv
    <3>3. cassette \in Seq(Lines)
      BY DEF CallsTypeOK
    <3>4. /\ DOMAIN cassette' = DOMAIN cassette \cup {Len(cassette) + 1}
          /\ \A i \in DOMAIN cassette : cassette'[i] = cassette[i]
          /\ cassette'[Len(cassette) + 1] = Line(r)
      BY <3>1, <3>3
    <3>5. \A i \in DOMAIN cassette' : table'[cassette'[i].key] = cassette'[i].answer
      BY <2>1, <3>2, <3>4 DEF LinesInv
    <3>6. \A x : HasLine(x) => HasLine(x)'
      BY <3>4 DEF HasLine
    <3>7. \E i \in DOMAIN cassette' : cassette'[i].key = k
      <4>1. Line(r).key = k
        BY <3>2
      <4> QED BY <3>4, <4>1
    <3>8. ASSUME NEW x \in Keys, table'[x] # None PROVE HasLine(x)' \/ x \in unlined'
      <4>1. \/ HasLine(x) \/ x \in unlined
            \/ \E q \in Requests : call[q] = "kept" /\ KeyOf(q, got[q]) = x
        BY <2>1, <3>8 DEF LinesInv
      <4>2. \A q \in Requests : call[q] = "kept" => q = r
        BY <2>1 DEF StagesInv
      <4>3. CASE HasLine(x) \/ x \in unlined
        BY <3>1, <3>6, <4>3
      <4>4. CASE x = k
        BY <3>7, <4>4 DEF HasLine
      <4> QED BY <4>1, <4>2, <4>3, <4>4
    <3>9. \A m \in made' :
             /\ OnRecord(m.request)' = m.answer
             /\ HasLine(<<m.request, Pin>>)' \/ <<m.request, Pin>> \in unlined'
      BY <2>1, <3>1, <3>6 DEF LinesInv, OnRecord
    <3> QED BY <3>5, <3>8, <3>9 DEF LinesInv
  <2> QED BY <2>2, <2>3
<1>10. ASSUME Decide PROVE LinesInv'
  <2>1. UNCHANGED <<table, cassette, unlined, call, got>> /\ phase = "settled"
    BY <1>10 DEF Decide, accounts
  <2>2. \A q \in Requests : call[q] # "kept"
    BY <2>1 DEF StagesInv
  <2>3. Batch[tick] \subseteq Requests
    BY <2>1 DEF StagesInv, CallsTypeOK
  <2>4. ASSUME NEW m \in made'
        PROVE  /\ OnRecord(m.request)' = m.answer
               /\ HasLine(<<m.request, Pin>>)' \/ <<m.request, Pin>> \in unlined'
    <3>1. CASE m \in made
      BY <2>1, <3>1 DEF LinesInv, OnRecord, HasLine
    <3>2. ASSUME NEW r \in Batch[tick], m = [tick |-> tick, request |-> r, answer |-> OnRecord(r)]
          PROVE  /\ OnRecord(m.request)' = m.answer
                 /\ HasLine(<<m.request, Pin>>)' \/ <<m.request, Pin>> \in unlined'
      <4>1. m.request = r /\ m.answer = OnRecord(r) /\ r \in Requests
        BY <2>3, <3>2
      <4>2. OnRecord(r) # None /\ <<r, Pin>> \in Keys
        BY <1>10, <4>1, <3>2 DEF Decide, Good
      <4>3. HasLine(<<r, Pin>>) \/ <<r, Pin>> \in unlined
        BY <2>2, <4>2 DEF LinesInv, OnRecord
      <4> QED BY <2>1, <4>1, <4>3 DEF OnRecord, HasLine
    <3> QED BY <1>10, <2>4, <3>1, <3>2 DEF Decide
  <2>5. \A i \in DOMAIN cassette' : table'[cassette'[i].key] = cassette'[i].answer
    BY <2>1 DEF LinesInv
  <2>6. \A k \in Keys : table'[k] # None => HasLine(k)' \/ k \in unlined'
    BY <2>1, <2>2 DEF LinesInv, HasLine
  <2> QED BY <2>4, <2>5, <2>6 DEF LinesInv
<1> QED BY <1>1, <1>2, <1>3, <1>4, <1>5, <1>6, <1>7, <1>8, <1>9, <1>10 DEF Next, Work

-----------------------------------------------------------------------------
\* CallsInv is inductive, and holds.
THEOREM CallsInvariance == Spec => []CallsInv
<1>1. Init => CallsInv
  <2> SUFFICES ASSUME Init PROVE CallsInv
    OBVIOUS
  <2>1. CallsTypeOK
    <3>1. tick \in Nat \ {0} /\ faults \in Nat
      BY DEF Init
    <3>5. torn \in BOOLEAN /\ phase \in Phases
      BY DEF Init, Phases
    <3>2. /\ call \in [Requests -> Stages] /\ got \in [Requests -> Answers \cup {None}]
          /\ table \in [Keys -> Answers \cup {None}]
      BY DEF Init, NoCalls, Stages
    <3>3. served \in [Requests -> Nat] /\ lost \in [Requests -> Nat]
      BY DEF Init
    <3>4. cassette \in Seq(Lines) /\ unlined \subseteq Keys /\ made \subseteq Decisions
      BY DEF Init
    <3> QED BY <3>1, <3>2, <3>3, <3>4, <3>5 DEF CallsTypeOK
  <2>2. StagesInv
    BY CallsFacts DEF Init, StagesInv, NoCalls
  <2>3. PaidInv
    BY CallsFacts DEF Init, PaidInv, InHand, OnRecord, NoCalls
  <2>4. LinesInv
    BY CallsFacts DEF Init, LinesInv
  <2> QED BY <2>1, <2>2, <2>3, <2>4 DEF CallsInv
<1>2. CallsInv /\ [Next]_vars => CallsInv'
  <2> SUFFICES ASSUME CallsInv, [Next]_vars PROVE CallsInv'
    OBVIOUS
  <2>1. CASE Next
    BY <2>1, CallsTyped, StagesKept, PaidKept, LinesKept DEF CallsInv
  <2>2. CASE UNCHANGED vars
    BY <2>2 DEF vars, CallsInv, CallsTypeOK, StagesInv, PaidInv, LinesInv, OnRecord, InHand, HasLine
  <2> QED BY <2>1, <2>2
<1> QED BY <1>1, <1>2, PTL DEF Spec

\* Nothing is paid for twice: the pinned build has answered a request once, and
\* once more for each answer that died before it was stored.
THEOREM NothingPaidTwice == Spec => []PaidOnce
<1>1. CallsInv => PaidOnce
  <2> SUFFICES ASSUME CallsInv, NEW r \in Requests PROVE served[r] <= 1 + lost[r]
    BY DEF PaidOnce
  <2>1. InHand(r) => OnRecord(r) = None
    BY DEF CallsInv, StagesInv, InHand
  <2>2. served[r] \in Nat /\ lost[r] \in Nat
    BY DEF CallsInv, CallsTypeOK
  <2>3. served[r] <= lost[r] + (IF InHand(r) THEN 1 ELSE 0)
                     + (IF OnRecord(r) # None THEN 1 ELSE 0)
    BY DEF CallsInv, PaidInv
  <2> QED BY <2>1, <2>2, <2>3
<1> QED BY <1>1, CallsInvariance, PTL

\* A replay on an empty database finds in the cassette what every committed
\* decision was made on, but for the lines that a death cut off.
THEOREM EverythingReplays == Spec => []Replayable
<1>1. CallsInv => Replayable
  <2> SUFFICES ASSUME CallsInv, NEW m \in made, <<m.request, Pin>> \notin unlined
               PROVE  Loaded([k \in Keys |-> None], cassette)[<<m.request, Pin>>] = m.answer
    BY DEF Replayable
  <2>1. m \in Decisions
    BY DEF CallsInv, CallsTypeOK
  <2>2. <<m.request, Pin>> \in Keys
    BY <2>1, CallsFacts DEF Decisions
  <2>3. HasLine(<<m.request, Pin>>) /\ table[<<m.request, Pin>>] = m.answer
    BY DEF CallsInv, LinesInv, OnRecord
  <2> QED BY <2>2, <2>3, LineIsFound DEF CallsInv
<1> QED BY <1>1, CallsInvariance, PTL

\* The first writer wins, and for good: no step changes or drops an answer that
\* is on record, and starting again on the same cassette loads nothing new.
RecordsStand == [][\A k \in Keys : table[k] # None => table'[k] = table[k]]_vars

THEOREM RecordedForGood == Spec => RecordsStand
<1>1. CallsInv /\ [Next]_vars => [\A k \in Keys : table[k] # None => table'[k] = table[k]]_vars
  BY RecordStands DEF CallsInv
<1> QED BY <1>1, CallsInvariance, PTL DEF Spec, RecordsStand

-----------------------------------------------------------------------------
\* What room there is is asked want by want, and each is answered by those let
\* in before it.
LEMMA ChosenIs ==
  ASSUME Len(Wants) \in Nat
  PROVE  /\ Chosen \subseteq 1 .. Len(Wants)
         /\ \A i \in 1 .. Len(Wants) :
              i \in Chosen <=> RoomFor(i, {k \in Chosen : k < i})
<1> DEFINE n == Len(Wants)
           Folds(f, j) == f = [i \in 0 .. j |->
             IF i = 0 THEN {}
             ELSE f[i - 1] \cup IF RoomFor(i, f[i - 1]) THEN {i} ELSE {}]
<1>1. \A j \in Nat : \E f : Folds(f, j)
  <2> DEFINE Bad == {j \in Nat : ~ \E f : Folds(f, j)}
  <2>1. SUFFICES ASSUME Bad # {} PROVE FALSE
    OBVIOUS
  <2>2. PICK j \in Bad : \A y \in Bad : j <= y
    BY <2>1, LeastNatural
  <2>3. CASE j = 0
    <3> DEFINE f == [i \in 0 .. 0 |-> {}]
    <3>1. Folds(f, 0)
      OBVIOUS
    <3> QED BY <2>2, <2>3, <3>1
  <2>4. CASE j # 0
    <3>0. j \in Nat /\ j \in Bad
      BY <2>2
    <3> HIDE DEF Bad
    <3>1. j - 1 \in Nat /\ j - 1 \notin Bad /\ j \in Nat
      BY <2>2, <2>4, <3>0
    <3> USE DEF Bad
    <3>2. PICK g : Folds(g, j - 1)
      BY <3>1
    <3> DEFINE last == g[j - 1] \cup IF RoomFor(j, g[j - 1]) THEN {j} ELSE {}
               f == [i \in 0 .. j |-> IF i < j THEN g[i] ELSE last]
    <3>3. \A i \in 0 .. j : f[i] = IF i = 0 THEN {}
                            ELSE f[i - 1] \cup IF RoomFor(i, f[i - 1]) THEN {i} ELSE {}
      <4> SUFFICES ASSUME NEW i \in 0 .. j
                   PROVE  f[i] = IF i = 0 THEN {}
                            ELSE f[i - 1] \cup IF RoomFor(i, f[i - 1]) THEN {i} ELSE {}
        OBVIOUS
      <4> HIDE DEF last
      <4>1. CASE i = 0
        <5>1. g[0] = {}
          BY <3>1, <3>2
        <5> QED BY <2>4, <3>1, <4>1, <5>1
      <4>2. CASE i # 0 /\ i < j
        <5>1. g[i] = g[i - 1] \cup IF RoomFor(i, g[i - 1]) THEN {i} ELSE {}
          <6>1. i \in 0 .. j - 1
            BY <3>1, <4>2
          <6>2. g = [x \in 0 .. j - 1 |->
                      IF x = 0 THEN {} ELSE g[x - 1] \cup IF RoomFor(x, g[x - 1]) THEN {x} ELSE {}]
            BY <3>2
          <6> QED BY <4>2, <6>1, <6>2
        <5>2. f[i] = g[i] /\ f[i - 1] = g[i - 1]
          BY <3>1, <4>2
        <5> HIDE DEF f
        <5> QED BY <4>2, <5>1, <5>2
      <4>3. CASE i = j
        <5>1. f[j] = last /\ f[j - 1] = g[j - 1]
          BY <3>1, <2>4
        <5> HIDE DEF f
        <5> QED BY <2>4, <4>3, <5>1 DEF last
      <4> QED BY <3>1, <4>1, <4>2, <4>3
    <3>4. Folds(f, j)
      BY <3>3
    <3> QED BY <2>2, <3>4
  <2> QED BY <2>3, <2>4
<1> DEFINE up == CHOOSE f : Folds(f, n)
<1>2. Folds(up, n)
  BY <1>1
<1>3. Chosen = up[n]
  BY DEF Chosen
<1> HIDE DEF up
<1>4. /\ up[0] = {}
      /\ \A i \in 1 .. n : up[i] = up[i - 1] \cup IF RoomFor(i, up[i - 1]) THEN {i} ELSE {}
  BY <1>2
<1> HIDE DEF Folds
<1> DEFINE Below(j) == /\ up[j] \subseteq 1 .. j
                       /\ \A i \in 0 .. j : up[i] = {k \in up[j] : k <= i}
<1>5. \A j \in 0 .. n : Below(j)
  <2> DEFINE Bad == {j \in Nat : j <= n /\ ~ Below(j)}
  <2>1. SUFFICES ASSUME Bad # {} PROVE FALSE
    OBVIOUS
  <2>2. PICK j \in Bad : \A y \in Bad : j <= y
    BY <2>1, LeastNatural
  <2>3. CASE j = 0
    <3>1. Below(0)
      BY <1>4
    <3> QED BY <2>2, <2>3, <3>1
  <2>4. CASE j # 0
    <3>1. j \in 1 .. n /\ j - 1 \in Nat /\ Below(j - 1)
      BY <2>2, <2>4
    <3>2. up[j] = up[j - 1] \cup IF RoomFor(j, up[j - 1]) THEN {j} ELSE {}
      BY <1>4, <3>1
    <3>3. up[j - 1] \subseteq 1 .. j - 1 /\ \A i \in 0 .. j - 1 : up[i] = {k \in up[j - 1] : k <= i}
      BY <3>1
    <3> HIDE DEF Below
    <3>4. up[j] \subseteq 1 .. j
      BY <3>1, <3>2, <3>3
    <3>5. ASSUME NEW i \in 0 .. j PROVE up[i] = {k \in up[j] : k <= i}
      <4>1. CASE i = j
        BY <3>1, <3>4, <4>1
      <4>2. CASE i # j
        <5>1. i \in 0 .. j - 1
          BY <3>1, <4>2
        <5>2. up[i] = {k \in up[j - 1] : k <= i}
          BY <3>3, <5>1
        <5>3. {k \in up[j - 1] : k <= i} = {k \in up[j] : k <= i}
          BY <3>1, <3>2, <3>3, <5>1
        <5> QED BY <5>2, <5>3
      <4> QED BY <4>1, <4>2
    <3>6. Below(j)
      BY <3>4, <3>5 DEF Below
    <3> QED BY <2>2, <3>6
  <2> QED BY <2>3, <2>4
<1>6. Chosen \subseteq 1 .. n
  BY <1>3, <1>5
<1>7. ASSUME NEW i \in 1 .. n
      PROVE  i \in Chosen <=> RoomFor(i, {k \in Chosen : k < i})
  <2>1. up[i] = {k \in Chosen : k <= i} /\ up[i - 1] = {k \in Chosen : k <= i - 1}
    BY <1>3, <1>5
  <2>2. {k \in Chosen : k <= i - 1} = {k \in Chosen : k < i}
    <3>1. \A k \in Chosen : k <= i - 1 <=> k < i
      BY <1>6
    <3> QED BY <3>1
  <2>3. i \notin up[i - 1]
    BY <2>1, <1>6
  <2>4. i \in up[i] <=> RoomFor(i, up[i - 1])
    BY <1>4, <2>3
  <2>5. i \in up[i] <=> i \in Chosen
    BY <2>1
  <2> QED BY <2>1, <2>2, <2>4, <2>5
<1> QED BY <1>6, <1>7

\* What a tick wants, and who may be asked.
LEMMA OpinionFacts ==
  /\ Unsure \subseteq Questions /\ Models \in Nat /\ Allowance \in Nat
  /\ Len(Escalations) \in Nat
  /\ Preference \subseteq Nat /\ 0 \notin Preference
  /\ \A m \in Nat : m > 0 /\ ~ (m > Models) => m \in Preference
  /\ \A S \in MayGoLive : S \subseteq Questions
BY OpinionsAssumption DEF Preference

LEMMA WantsFacts ==
  ASSUME turn \in Nat \ {0}, turn <= Len(Escalations)
  PROVE  /\ Wants \in Seq(Questions) /\ Len(Wants) \in Nat
         /\ DOMAIN Wants = 1 .. Len(Wants)
         /\ \A i \in DOMAIN Wants : i \in Nat /\ Wants[i] \in Questions
<1>1. turn \in DOMAIN Escalations /\ Escalations \in Seq(Seq(Questions))
  BY OpinionsAssumption
<1>2. Wants \in Seq(Questions)
  BY <1>1 DEF Wants
<1> HIDE DEF Wants
<1> QED BY <1>2

\* The first of the usable opinions is one of them, and somebody's.
LEMMA FirstIsUsable ==
  ASSUME NEW q \in Questions, Found(q)
  PROVE  First(q) \in Usable(q) /\ First(q) \in Preference /\ First(q) # Jev
<1>1. Usable(q) \subseteq Nat /\ Usable(q) # {}
  BY OpinionFacts DEF Usable, Found
<1>2. \E x \in Usable(q) : \A y \in Usable(q) : x <= y
  BY <1>1, LeastNatural
<1>3. First(q) \in Usable(q)
  BY <1>2 DEF First, Min
<1> QED BY <1>3, OpinionFacts DEF Usable, Jev

\* Where a tick has something asked, it has wants, and asks about those.
LEMMA AskedFacts ==
  ASSUME OpinionsTypeOK, HeardInv, step # "between"
  PROVE  /\ wanted \subseteq DOMAIN Wants /\ IsFiniteSet(wanted)
         /\ AsksAbout(wanted) \subseteq Questions /\ Unanswered \subseteq Questions
         /\ Pending \subseteq Questions
<1>1. wanted \subseteq DOMAIN Wants /\ turn \in Nat \ {0} /\ turn <= Len(Escalations)
  BY DEF OpinionsTypeOK, LoopTypes, RecordTypes, HeardInv
<1>2. IsFiniteSet(1 .. Len(Wants))
  BY <1>1, WantsFacts, FS_Interval
<1>3. IsFiniteSet(wanted)
  BY <1>1, <1>2, WantsFacts, FS_Subset
<1>4. AsksAbout(wanted) \subseteq Questions
  BY <1>1, WantsFacts DEF AsksAbout
<1> QED BY <1>1, <1>3, <1>4 DEF Unanswered, Pending

\* No step leaves the types.
LEMMA OpinionsTyped ==
  ASSUME OpinionsTypeOK, HeardInv, OpinionsNext
  PROVE  OpinionsTypeOK'
<1> USE DEF OpinionsTypeOK, LoopTypes, RecordTypes, process, durable, NoReplies
<1>1. ASSUME Begin PROVE OpinionsTypeOK'
  <2>0. turn \in Nat \ {0} /\ turn <= Len(Escalations) /\ UNCHANGED turn
    BY <1>1 DEF Begin
  <2>1. wanted' \subseteq 1 .. Len(Wants) /\ wanted' \subseteq Nat
    BY <1>1, <2>0, WantsFacts, ChosenIs DEF Begin
  <2> DEFINE open == {q \in AsksAbout(wanted') : ~Found(q)}
             known == {s \in open \X Preference : HeardOf(s[1], s[2], onRecord, marks)}
             gone == {s \in open \X Preference : s[2] \notin reachable} \ known
  <2>2. open \subseteq Questions
    <3>1. \A i \in 1 .. Len(Wants) : Wants[i] \in Questions
      BY <2>0, WantsFacts
    <3>2. AsksAbout(wanted') = {Wants[i] : i \in wanted'}
      BY DEF AsksAbout
    <3> QED BY <2>1, <3>1, <3>2
  <2>3. known \subseteq Questions \X Preference /\ gone \subseteq Questions \X Preference
    BY <2>2
  <2> HIDE DEF open
  <2>4. /\ heard' = known \cup gone
        /\ marks' = marks \cup {<<s[1], s[2], "unresolvable">> : s \in gone}
        /\ step' \in {"deciding", "asking"}
    BY <1>1 DEF Begin, open, MarkedForGood
  <2> HIDE DEF known, gone
  <2>5. \A s \in gone : s[1] \in Questions /\ s[2] \in Preference
    BY <2>3
  <2>6. marks' \subseteq Questions \X Preference \X MarkOf
    BY <2>4, <2>5 DEF MarkOf
  <2>7. heard' \subseteq Questions \X Preference
    BY <2>3, <2>4
  <2>8. /\ UNCHANGED <<turn, live, replies, shadowTime, onRecord, opinions, settled, mishaps>>
        /\ model' = 1 /\ failure' = FALSE
    BY <1>1 DEF Begin
  <2>9. wanted' \subseteq Nat /\ step' \in {"between", "asking", "keeping", "deciding"}
    BY <2>1, <2>4
  <2>10. model' \in Nat /\ failure' \in BOOLEAN
    BY <2>8
  <2>11. /\ turn' = turn /\ live' = live /\ replies' = replies /\ shadowTime' = shadowTime
         /\ onRecord' = onRecord /\ opinions' = opinions /\ settled' = settled
         /\ mishaps' = mishaps
    BY <2>8
  <2>12. LoopTypes'
    BY <2>7, <2>9, <2>10, <2>11
  <2>13. RecordTypes'
    BY <2>6, <2>11
  <2> HIDE DEF LoopTypes, RecordTypes
  <2> QED BY <2>12, <2>13
<1>2. ASSUME NextModel \/ Asked PROVE OpinionsTypeOK'
  <2>1. /\ step' \in {step, "deciding"} /\ model' \in {model, model + 1}
        /\ UNCHANGED <<turn, live, wanted, replies, heard, failure, shadowTime, mishaps>>
        /\ UNCHANGED <<onRecord, marks, opinions, settled>>
    BY <1>2 DEF NextModel, Asked
  <2>2. step' \in {"between", "asking", "keeping", "deciding"} /\ model' \in Nat
    BY <2>1
  <2> QED BY <2>1, <2>2
<1>3. ASSUME AskRound PROVE OpinionsTypeOK'
  <2>1. PICK failing \in SUBSET Pending, unusable \in SUBSET Pending :
          /\ mishaps' = mishaps + Cardinality(failing)
          /\ replies' = [q \in Questions |->
               IF q \notin Pending THEN "none" ELSE IF q \in failing THEN "fails"
               ELSE IF q \in unusable THEN "unusable" ELSE "usable"]
    BY <1>3 DEF AskRound
  <2>2. IsFiniteSet(failing)
    <3>1. step # "between"
      BY <1>3 DEF AskRound
    <3>2. Pending \subseteq AsksAbout(wanted)
      BY DEF Pending, Unanswered
    <3>3. IsFiniteSet(wanted)
      BY <3>1, AskedFacts
    <3>4. IsFiniteSet(AsksAbout(wanted))
      <4> DEFINE f == [i \in wanted |-> Wants[i]]
      <4>0. f = [i \in wanted |-> f[i]]
        OBVIOUS
      <4> HIDE DEF f
      <4>1. IsFiniteSet({f[i] : i \in wanted})
        BY <3>3, <4>0, ImageIsFinite
      <4> USE DEF f
      <4>2. {f[i] : i \in wanted} = AsksAbout(wanted)
        BY DEF AsksAbout
      <4> QED BY <4>1, <4>2
    <3> QED BY <3>2, <3>4, FS_Subset
  <2>3. Cardinality(failing) \in Nat
    BY <2>2, FS_CardinalityType
  <2>4. replies' \in [Questions -> {"none", "usable", "unusable", "fails"}]
    BY <2>1
  <2>5. mishaps' \in Nat
    BY <2>1, <2>3
  <2>6. /\ step' = "keeping"
        /\ turn' = turn /\ live' = live /\ wanted' = wanted /\ model' = model
        /\ heard' = heard /\ failure' = failure /\ shadowTime' = shadowTime
        /\ onRecord' = onRecord /\ marks' = marks /\ opinions' = opinions /\ settled' = settled
    BY <1>3 DEF AskRound
  <2>7. RecordTypes'
    BY <2>6
  <2>8. LoopTypes'
    BY <2>4, <2>5, <2>6
  <2> HIDE DEF LoopTypes, RecordTypes
  <2> QED BY <2>7, <2>8
<1>4. ASSUME RoundTimesOut PROVE OpinionsTypeOK'
  <2>1. /\ step' \in {step, "between"} /\ model' \in {model, model + 1}
        /\ shadowTime' \in BOOLEAN /\ mishaps' = mishaps + 1
        /\ UNCHANGED <<turn, live, wanted, replies, heard, failure>>
        /\ UNCHANGED <<onRecord, marks, opinions, settled>>
    BY <1>4 DEF RoundTimesOut
  <2>2. step' \in {"between", "asking", "keeping", "deciding"} /\ model' \in Nat
    BY <2>1
  <2> QED BY <2>1, <2>2
<1>5. ASSUME NEW q \in Questions, Keep(q) PROVE OpinionsTypeOK'
  <2>1. step = "keeping" /\ model \in Preference
    BY <1>5 DEF Keep, HeardInv
  <2>2. replies' \in [Questions -> {"none", "usable", "unusable", "fails"}]
    BY <1>5 DEF Keep
  <2>3. onRecord' \in [Questions -> [Preference -> Verdicts]]
    <3>1. CASE replies[q] # "fails"
      <4>1. replies[q] \in Verdicts
        BY <1>5, <3>1 DEF Keep, Verdicts
      <4>2. onRecord' = [onRecord EXCEPT ![q] =
              [onRecord[q] EXCEPT ![model] =
                 IF onRecord[q][model] = "nothing" THEN replies[q] ELSE onRecord[q][model]]]
        BY <1>5, <3>1 DEF Keep
      <4>3. [onRecord[q] EXCEPT ![model] =
               IF onRecord[q][model] = "nothing" THEN replies[q] ELSE onRecord[q][model]]
            \in [Preference -> Verdicts]
        BY <2>1, <4>1
      <4> QED BY <4>2, <4>3
    <3>2. CASE replies[q] = "fails"
      BY <1>5, <3>2 DEF Keep
    <3> QED BY <3>1, <3>2
  <2>4. marks' \subseteq Questions \X Preference \X MarkOf
    BY <1>5, <2>1 DEF Keep, MarkOf
  <2>5. failure' \in BOOLEAN
    BY <1>5 DEF Keep
  <2>6. UNCHANGED <<turn, step, live, wanted, model, heard, shadowTime, opinions, settled, mishaps>>
    BY <1>5 DEF Keep
  <2> QED BY <2>2, <2>3, <2>4, <2>5, <2>6
<1>6. ASSUME RoundEnds PROVE OpinionsTypeOK'
  <2>1. model \in Preference /\ Unanswered \subseteq Questions
    BY <1>6, AskedFacts DEF RoundEnds, HeardInv
  <2>2. heard' \subseteq Questions \X Preference
    BY <1>6, <2>1 DEF RoundEnds
  <2> QED BY <1>6, <2>2 DEF RoundEnds
<1>7. ASSUME TryAgain PROVE OpinionsTypeOK'
  BY <1>7 DEF TryAgain
<1>8. ASSUME Restarted PROVE OpinionsTypeOK'
  BY <1>8, OpinionFacts DEF Restarted
<1>9. ASSUME Commit PROVE OpinionsTypeOK'
  <2>1. step # "between" /\ turn \in Nat \ {0} /\ turn <= Len(Escalations)
    BY <1>9 DEF Commit, HeardInv
  <2> DEFINE heardOut == {i \in wanted : Found(Wants[i])}
             acting == {k \in DOMAIN Wants : Acting(Wants[k])}
             o(i) == [turn |-> turn, want |-> i, applied |-> Acting(Wants[i])]
             d(i) == [turn |-> turn, want |-> i, question |-> Wants[i], denied |-> i \notin wanted,
                      by |-> IF i \in wanted /\ Found(Wants[i]) THEN First(Wants[i]) ELSE Jev]
  <2>2. opinions' = opinions \cup {o(i) : i \in heardOut}
        /\ settled' = settled \cup {d(i) : i \in acting}
    BY <1>9 DEF Commit
  <2>3. IsFiniteSet(heardOut) /\ IsFiniteSet(acting)
    <3>1. IsFiniteSet(DOMAIN Wants)
      BY <2>1, WantsFacts, FS_Interval
    <3> QED BY <3>1, <2>1, AskedFacts, FS_Subset
  <2>4. ASSUME NEW i \in heardOut PROVE o(i) \in OpinionRows
    <3>1. i \in Nat /\ Acting(Wants[i]) \in BOOLEAN
      BY DEF Acting
    <3> QED BY <3>1, <2>1 DEF OpinionRows
  <2>5. ASSUME NEW i \in acting PROVE d(i) \in SettledRows
    <3>1. i \in Nat /\ Wants[i] \in Questions
      BY <2>1, WantsFacts
    <3>2. (IF i \in wanted /\ Found(Wants[i]) THEN First(Wants[i]) ELSE Jev) \in Nat
      BY <3>1, FirstIsUsable, OpinionFacts DEF Jev
    <3>3. (i \notin wanted) \in BOOLEAN
      OBVIOUS
    <3> QED BY <3>1, <3>2, <3>3, <2>1 DEF SettledRows
  <2> HIDE DEF heardOut, acting, o, d
  <2>6. IsFiniteSet({o(i) : i \in heardOut}) /\ IsFiniteSet({d(i) : i \in acting})
    <3> DEFINE of == [i \in heardOut |-> o(i)]
               df == [i \in acting |-> d(i)]
    <3>0. of = [i \in heardOut |-> of[i]] /\ df = [i \in acting |-> df[i]]
      OBVIOUS
    <3> HIDE DEF of, df
    <3>1. IsFiniteSet({of[i] : i \in heardOut}) /\ IsFiniteSet({df[i] : i \in acting})
      BY <2>3, <3>0, ImageIsFinite
    <3> USE DEF of, df
    <3>2. {of[i] : i \in heardOut} = {o(i) : i \in heardOut}
          /\ {df[i] : i \in acting} = {d(i) : i \in acting}
      OBVIOUS
    <3> QED BY <3>1, <3>2
  <2>7. IsFiniteSet(opinions') /\ IsFiniteSet(settled')
    BY <2>2, <2>6, FS_Union
  <2>8. opinions' \subseteq OpinionRows /\ settled' \subseteq SettledRows
    BY <2>2, <2>4, <2>5
  <2>9. /\ UNCHANGED <<live, wanted, model, replies, heard, failure, onRecord, marks, mishaps>>
        /\ turn' = turn + 1 /\ step' = "between" /\ shadowTime' = TRUE
    BY <1>9 DEF Commit
  <2> QED BY <2>7, <2>8, <2>9
<1> QED BY <1>1, <1>2, <1>3, <1>4, <1>5, <1>6, <1>7, <1>8, <1>9 DEF OpinionsNext, Progress

\* A reply that is kept changes nothing that was on record, and is about a
\* question that nobody has answered yet.
LEMMA KeptReply ==
  ASSUME OpinionsTypeOK, HeardInv, NEW q \in Questions, Keep(q)
  PROVE  /\ step = "keeping" /\ model \in Preference
         /\ ~Found(q) /\ <<q, model>> \notin heard /\ q \in AsksAbout(wanted)
         /\ \A p \in Questions, m \in Preference :
              /\ onRecord[p][m] # "nothing" => onRecord'[p][m] = onRecord[p][m]
              /\ p # q \/ m # model => onRecord'[p][m] = onRecord[p][m]
         /\ \A p \in Questions, m \in Preference :
              <<p, m, "unresolvable">> \in marks' <=> <<p, m, "unresolvable">> \in marks
         /\ replies' = [replies EXCEPT ![q] = "none"]
         /\ UNCHANGED <<turn, step, live, wanted, model, heard, opinions, settled>>
<1> USE DEF OpinionsTypeOK, LoopTypes, RecordTypes
<1>1. /\ step = "keeping" /\ model \in Preference
      /\ ~Found(q) /\ <<q, model>> \notin heard /\ q \in AsksAbout(wanted)
  BY DEF Keep, HeardInv
<1>2. ASSUME NEW p \in Questions, NEW m \in Preference
      PROVE  /\ onRecord[p][m] # "nothing" => onRecord'[p][m] = onRecord[p][m]
             /\ p # q \/ m # model => onRecord'[p][m] = onRecord[p][m]
  <2>1. CASE replies[q] # "fails"
    <3>1. onRecord' = [onRecord EXCEPT ![q] =
            [onRecord[q] EXCEPT ![model] =
               IF onRecord[q][model] = "nothing" THEN replies[q] ELSE onRecord[q][model]]]
      BY <2>1 DEF Keep
    <3> DEFINE row == [onRecord[q] EXCEPT ![model] =
               IF onRecord[q][model] = "nothing" THEN replies[q] ELSE onRecord[q][model]]
    <3>2. /\ \A x \in Preference : x # model => row[x] = onRecord[q][x]
          /\ onRecord[q][model] # "nothing" => row[model] = onRecord[q][model]
      BY <1>1
    <3>3. onRecord'[p] = IF p = q THEN row ELSE onRecord[p]
      BY <3>1
    <3> HIDE DEF row
    <3> QED BY <3>2, <3>3
  <2>2. CASE replies[q] = "fails"
    BY <2>2 DEF Keep
  <2> QED BY <2>1, <2>2
<1>3. marks' = marks \/ marks' = marks \cup {<<q, model, "failed">>}
  BY DEF Keep
<1>4. replies' = [replies EXCEPT ![q] = "none"]
      /\ UNCHANGED <<turn, step, live, wanted, model, heard, opinions, settled>>
  BY DEF Keep, process
<1> QED BY <1>1, <1>2, <1>3, <1>4

\* What is found stays found, and only what is asked about can come to be.
LEMMA FoundAfterKeep ==
  ASSUME OpinionsTypeOK, HeardInv, NEW q \in Questions, Keep(q), NEW p \in Questions
  PROVE  /\ Found(p) => Found(p)'
         /\ p # q => Usable(p)' = Usable(p)
<1>1. \A m \in Preference :
        /\ onRecord[p][m] # "nothing" => onRecord'[p][m] = onRecord[p][m]
        /\ p # q => onRecord'[p][m] = onRecord[p][m]
  BY KeptReply
<1> QED BY <1>1 DEF Found, Usable

\* No step asks again who was heard, or about what was found.
LEMMA HeardKept ==
  ASSUME OpinionsTypeOK, HeardInv, OpinionsNext
  PROVE  HeardInv'
<1> USE DEF NoReplies, process, durable
<1>1. ASSUME Begin PROVE HeardInv'
  <2>0. turn \in Nat \ {0} /\ turn <= Len(Escalations) /\ Wants' = Wants
    BY <1>1 DEF Begin, OpinionsTypeOK, LoopTypes, Wants
  <2>1. wanted' \subseteq DOMAIN Wants
    BY <1>1, <2>0, WantsFacts, ChosenIs DEF Begin
  <2> DEFINE open == {q \in AsksAbout(wanted') : ~Found(q)}
             known == {s \in open \X Preference : HeardOf(s[1], s[2], onRecord, marks)}
             gone == {s \in open \X Preference : s[2] \notin reachable} \ known
  <2>2. /\ heard' = known \cup gone
        /\ marks' = marks \cup {<<s[1], s[2], "unresolvable">> : s \in gone}
        /\ step' \in {"deciding", "asking"} /\ model' = 1
        /\ UNCHANGED <<turn, live, replies, onRecord>>
    BY <1>1 DEF Begin, MarkedForGood
  <2>3. \A q \in Questions : replies'[q] = "none"
    <3>1. step = "between"
      BY <1>1 DEF Begin
    <3> QED BY <2>2, <3>1 DEF HeardInv
  <2>4. ASSUME NEW q \in Questions, NEW m \in Preference, <<q, m>> \in heard'
        PROVE  onRecord'[q][m] # "nothing" \/ <<q, m, "unresolvable">> \in marks' \/ ~Acting(q)'
    <3>1. CASE <<q, m>> \in known
      BY <2>2, <3>1 DEF HeardOf, Acting
    <3>2. CASE <<q, m>> \in gone
      <4>1. <<q, m, "unresolvable">> \in {<<s[1], s[2], "unresolvable">> : s \in gone}
        <5> HIDE DEF gone
        <5> QED BY <3>2
      <4> QED BY <2>2, <4>1
    <3> QED BY <2>2, <2>4, <3>1, <3>2
  <2>5. ASSUME NEW q \in AsksAbout(wanted)', NEW m \in Preference,
               ~Found(q)', <<q, m, "unresolvable">> \in marks'
        PROVE  <<q, m>> \in heard'
    <3>1. q \in AsksAbout(wanted') /\ ~Found(q)
      BY <2>0, <2>2, <2>5 DEF AsksAbout, Found, Usable
    <3>2. q \in open /\ <<q, m>> \in open \X Preference
      BY <3>1
    <3> HIDE DEF open
    <3>3. CASE <<q, m, "unresolvable">> \in marks
      <4>1. HeardOf(q, m, onRecord, marks)
        BY <3>3 DEF HeardOf
      <4> QED BY <2>2, <3>2, <4>1
    <3>4. CASE <<q, m, "unresolvable">> \in {<<s[1], s[2], "unresolvable">> : s \in gone}
      <4>1. PICK s \in gone : <<q, m, "unresolvable">> = <<s[1], s[2], "unresolvable">>
        BY <3>4
      <4>2. s = <<q, m>>
        BY <4>1
      <4> QED BY <2>2, <4>2
    <3> QED BY <2>2, <2>5, <3>3, <3>4
  <2>6. step' # "keeping" /\ model' > 0 /\ turn' <= Len(Escalations) /\ wanted' \subseteq DOMAIN Wants'
    BY <2>0, <2>1, <2>2
  <2> QED BY <2>3, <2>4, <2>5, <2>6 DEF HeardInv
<1>2. ASSUME UNCHANGED <<turn, live, wanted, heard, onRecord, marks>>,
             step # "between", step' # "between", model' > 0,
             step' # "keeping" => \A q \in Questions : replies'[q] = "none",
             step' = "keeping" =>
               /\ model' \in Preference
               /\ \A q \in Questions : replies'[q] # "none" =>
                    q \in AsksAbout(wanted) /\ ~Found(q) /\ <<q, model'>> \notin heard
      PROVE  HeardInv'
  <2>1. /\ Wants' = Wants /\ AsksAbout(wanted)' = AsksAbout(wanted)
        /\ \A q : Found(q)' <=> Found(q)
        /\ \A q : Acting(q)' <=> Acting(q)
    BY <1>2 DEF Wants, AsksAbout, Found, Usable, Acting
  <2> QED BY <1>2, <2>1 DEF HeardInv
<1>3. ASSUME NextModel PROVE HeardInv'
  <2>1. /\ UNCHANGED <<turn, live, wanted, heard, onRecord, marks, replies>>
        /\ step = "asking" /\ step' = "asking" /\ model' = model + 1
    BY <1>3 DEF NextModel
  <2>2. model' > 0 /\ \A q \in Questions : replies'[q] = "none"
    BY <2>1 DEF HeardInv, OpinionsTypeOK, LoopTypes
  <2> QED BY <1>2, <2>1, <2>2
<1>4. ASSUME AskRound PROVE HeardInv'
  <2>1. /\ UNCHANGED <<turn, live, wanted, heard, onRecord, marks, model>>
        /\ step = "asking" /\ step' = "keeping"
    BY <1>4 DEF AskRound
  <2>2. model > 0 /\ model \in Nat /\ ~ (model > Models)
    BY <1>4, <2>1 DEF AskRound, Exhausted, HeardInv, OpinionsTypeOK, LoopTypes
  <2>3. model \in Preference
    BY <2>2, OpinionFacts
  <2>4. \A q \in Questions : replies'[q] # "none" => q \in Pending
    BY <1>4 DEF AskRound
  <2>5. \A q \in Pending : q \in AsksAbout(wanted) /\ ~Found(q) /\ <<q, model>> \notin heard
    BY DEF Pending, Unanswered
  <2> QED BY <1>2, <2>1, <2>2, <2>3, <2>4, <2>5
<1>5. ASSUME RoundTimesOut PROVE HeardInv'
  <2>1. /\ UNCHANGED <<turn, live, wanted, heard, onRecord, marks, replies>>
        /\ step = "asking"
        /\ step' = "between" \/ (step' = "asking" /\ model' = model + 1)
    BY <1>5 DEF RoundTimesOut
  <2>2. \A q \in Questions : replies'[q] = "none"
    BY <2>1 DEF HeardInv
  <2>3. CASE step' = "between"
    BY <2>2, <2>3 DEF HeardInv
  <2>4. CASE step' = "asking" /\ model' = model + 1
    <3>1. model' > 0
      BY <2>1, <2>4 DEF HeardInv, OpinionsTypeOK, LoopTypes
    <3> QED BY <1>2, <2>1, <2>2, <2>4, <3>1
  <2> QED BY <2>1, <2>3, <2>4
<1>6. ASSUME NEW q \in Questions, Keep(q) PROVE HeardInv'
  <2>1. /\ step = "keeping" /\ model \in Preference
        /\ UNCHANGED <<turn, step, live, wanted, model, heard>>
        /\ replies' = [replies EXCEPT ![q] = "none"]
    BY <1>6, KeptReply
  <2>2. Wants' = Wants /\ AsksAbout(wanted)' = AsksAbout(wanted)
        /\ AsksAbout(wanted) \subseteq Questions
    BY <2>1, AskedFacts DEF Wants, AsksAbout
  <2>3. ASSUME NEW p \in Questions, NEW m \in Preference, <<p, m>> \in heard'
        PROVE  onRecord'[p][m] # "nothing" \/ <<p, m, "unresolvable">> \in marks' \/ ~Acting(p)'
    <3>1. onRecord[p][m] # "nothing" \/ <<p, m, "unresolvable">> \in marks \/ ~Acting(p)
      BY <2>1, <2>3 DEF HeardInv
    <3>2. Acting(p)' <=> Acting(p)
      BY <2>1 DEF Acting
    <3> QED BY <1>6, <3>1, <3>2, KeptReply
  <2>4. ASSUME NEW p \in AsksAbout(wanted)', NEW m \in Preference,
               ~Found(p)', <<p, m, "unresolvable">> \in marks'
        PROVE  <<p, m>> \in heard'
    <3>1. p \in AsksAbout(wanted) /\ p \in Questions
      BY <2>2, <2>4
    <3>2. ~Found(p) /\ <<p, m, "unresolvable">> \in marks
      BY <1>6, <2>4, <3>1, KeptReply, FoundAfterKeep
    <3> QED BY <2>1, <3>1, <3>2 DEF HeardInv
  <2>5. ASSUME NEW p \in Questions, replies'[p] # "none"
        PROVE  p \in AsksAbout(wanted)' /\ ~Found(p)' /\ <<p, model'>> \notin heard'
    <3>1. p # q /\ replies[p] # "none"
      BY <2>1, <2>5 DEF OpinionsTypeOK, LoopTypes
    <3>2. p \in AsksAbout(wanted) /\ ~Found(p) /\ <<p, model>> \notin heard
      BY <2>1, <3>1 DEF HeardInv
    <3>3. ~Found(p)'
      BY <1>6, <3>1, <3>2, FoundAfterKeep DEF Found
    <3> QED BY <2>1, <2>2, <3>2, <3>3
  <2>6. turn' <= Len(Escalations) /\ wanted' \subseteq DOMAIN Wants' /\ model' > 0
        /\ step' = "keeping" /\ model' \in Preference
    BY <2>1, <2>2 DEF HeardInv
  <2> QED BY <2>3, <2>4, <2>5, <2>6 DEF HeardInv
<1>7. ASSUME RoundEnds PROVE HeardInv'
  <2>1. /\ UNCHANGED <<turn, live, wanted, onRecord, marks, replies>>
        /\ step = "keeping" /\ step' = "asking" /\ model' = model + 1 /\ replies = NoReplies
        /\ heard' = heard \cup
             {<<q, model>> : q \in {p \in Unanswered : HeardOf(p, model, onRecord, marks)}}
    BY <1>7 DEF RoundEnds
  <2>2. /\ Wants' = Wants /\ AsksAbout(wanted)' = AsksAbout(wanted)
        /\ \A q : Found(q)' <=> Found(q)
        /\ \A q : Acting(q)' <=> Acting(q)
    BY <2>1 DEF Wants, AsksAbout, Found, Usable, Acting
  <2>3. ASSUME NEW p \in Questions, NEW m \in Preference, <<p, m>> \in heard'
        PROVE  onRecord'[p][m] # "nothing" \/ <<p, m, "unresolvable">> \in marks' \/ ~Acting(p)'
    <3>1. CASE <<p, m>> \in heard
      BY <2>1, <2>2, <3>1 DEF HeardInv
    <3>2. CASE <<p, m>> \notin heard
      <4>1. m = model /\ HeardOf(p, model, onRecord, marks)
        BY <2>1, <2>3, <3>2
      <4> QED BY <2>1, <2>2, <4>1 DEF HeardOf
    <3> QED BY <3>1, <3>2
  <2>4. ASSUME NEW p \in AsksAbout(wanted)', NEW m \in Preference,
               ~Found(p)', <<p, m, "unresolvable">> \in marks'
        PROVE  <<p, m>> \in heard'
    BY <2>1, <2>2, <2>4 DEF HeardInv
  <2>5. turn' <= Len(Escalations) /\ wanted' \subseteq DOMAIN Wants' /\ model' > 0
    BY <2>1, <2>2 DEF HeardInv, OpinionsTypeOK, LoopTypes
  <2>6. \A q \in Questions : replies'[q] = "none"
    BY <2>1
  <2> QED BY <2>1, <2>3, <2>4, <2>5, <2>6 DEF HeardInv
<1>8. ASSUME Asked PROVE HeardInv'
  <2>1. /\ UNCHANGED <<turn, live, wanted, heard, onRecord, marks, model, replies>>
        /\ step = "asking" /\ step' = "deciding"
    BY <1>8 DEF Asked
  <2>2. model' > 0 /\ \A q \in Questions : replies'[q] = "none"
    BY <2>1 DEF HeardInv
  <2> QED BY <1>2, <2>1, <2>2
<1>9. ASSUME TryAgain \/ Commit \/ Restarted PROVE HeardInv'
  <2>1. step' = "between" /\ (replies' = NoReplies \/ (replies' = replies /\ step = "deciding"))
    BY <1>9 DEF TryAgain, Commit, Restarted
  <2>2. \A q \in Questions : replies'[q] = "none"
    BY <2>1 DEF HeardInv
  <2> QED BY <2>1, <2>2 DEF HeardInv
<1> QED BY <1>1, <1>3, <1>4, <1>5, <1>6, <1>7, <1>8, <1>9 DEF OpinionsNext, Progress

\* What room there is for one that acts does not change while its tick asks.
LEMMA RoomKept ==
  ASSUME OpinionsTypeOK, HeardInv, RoomInv, OpinionsNext
  PROVE  RoomInv'
<1>1. ASSUME Begin PROVE RoomInv'
  <2>1. /\ turn \in Nat \ {0} /\ turn <= Len(Escalations)
        /\ wanted' = Chosen /\ UNCHANGED <<turn, live, opinions>>
    BY <1>1 DEF Begin, OpinionsTypeOK, LoopTypes, process, durable
  <2>2. Wants' = Wants /\ Len(Wants) \in Nat /\ DOMAIN Wants = 1 .. Len(Wants)
    BY <2>1, WantsFacts DEF Wants
  <2>3. \A q : Acting(q)' <=> Acting(q)
    BY <2>1 DEF Acting
  <2>4. ASSUME NEW i \in DOMAIN Wants, Acting(Wants[i]), i \notin wanted'
        PROVE  Allowance <= Cardinality(Applied)' + Cardinality(LetIn(i)')
    <3> DEFINE before == {k \in Chosen : k < i}
    <3>1. i \in 1 .. Len(Wants) /\ i \notin Chosen
      BY <2>1, <2>2, <2>4
    <3>2. ~ RoomFor(i, before)
      BY <2>2, <3>1, ChosenIs
    <3>3. ~ (Allowance > Cardinality({o \in opinions : o.applied})
                         + Cardinality({k \in before : Acting(Wants[k])}))
      BY <2>4, <3>2 DEF RoomFor
    <3>4. {o \in opinions : o.applied} = Applied' /\ {k \in before : Acting(Wants[k])} = LetIn(i)'
      BY <2>1, <2>2, <2>3 DEF Applied, LetIn
    <3>5. IsFiniteSet(Applied') /\ IsFiniteSet(LetIn(i)')
      <4>1. IsFiniteSet(opinions)
        BY DEF OpinionsTypeOK, RecordTypes
      <4>2. IsFiniteSet(1 .. Len(Wants))
        BY <2>2, FS_Interval
      <4>3. Applied' \subseteq opinions /\ LetIn(i)' \subseteq 1 .. Len(Wants)
        BY <2>1, <2>2, ChosenIs DEF Applied, LetIn
      <4> QED BY <4>1, <4>2, <4>3, FS_Subset
    <3>6. Cardinality(Applied') \in Nat /\ Cardinality(LetIn(i)') \in Nat
      BY <3>5, FS_CardinalityType
    <3> HIDE DEF before
    <3>7. ~ (Allowance > Cardinality(Applied') + Cardinality(LetIn(i)'))
      BY <3>3, <3>4
    <3> QED BY <3>6, <3>7, OpinionFacts
  <2> QED BY <2>2, <2>3, <2>4 DEF RoomInv
<1>2. ASSUME UNCHANGED <<turn, live, wanted, opinions>>, step # "between" PROVE RoomInv'
  BY <1>2 DEF RoomInv, Wants, Acting, Applied, LetIn
<1>3. ASSUME NextModel \/ AskRound \/ RoundTimesOut \/ RoundEnds \/ Asked PROVE RoomInv'
  <2>1. UNCHANGED <<turn, live, wanted, opinions>> /\ step # "between"
    BY <1>3 DEF NextModel, AskRound, RoundTimesOut, RoundEnds, Asked, process, durable
  <2> QED BY <1>2, <2>1
<1>4. ASSUME NEW q \in Questions, Keep(q) PROVE RoomInv'
  <2>1. UNCHANGED <<turn, live, wanted, opinions>> /\ step # "between"
    BY <1>4, KeptReply
  <2> QED BY <1>2, <2>1
<1>5. ASSUME TryAgain \/ Commit \/ Restarted PROVE RoomInv'
  BY <1>5 DEF TryAgain, Commit, Restarted, RoomInv
<1> QED BY <1>1, <1>3, <1>4, <1>5 DEF OpinionsNext, Progress

\* The rows of earlier ticks stand as long as what they stand on does.
LEMMA RowsStand ==
  ASSUME OpinionsTypeOK, SettledInv, UNCHANGED <<turn, opinions, settled>>,
         \A d \in settled : ~d.denied /\ StandsOn(d) => StandsOn(d)'
  PROVE  SettledInv'
<1>1. \A d \in settled : LetInBefore(d)' = LetInBefore(d)
  BY DEF LetInBefore
<1>2. \A d \in settled' : ~d.denied => StandsOn(d)'
  BY DEF SettledInv
<1> QED BY <1>1, <1>2 DEF SettledInv

\* A row stands while its question's record is as it was, and the marks only grow.
LEMMA RowStands ==
  ASSUME NEW d, StandsOn(d), onRecord'[d.question] = onRecord[d.question],
         \A m \in Preference : <<d.question, m, "unresolvable">> \in marks
                               => <<d.question, m, "unresolvable">> \in marks'
  PROVE  StandsOn(d)'
<1>1. Usable(d.question)' = Usable(d.question)
  BY DEF Usable
<1>2. First(d.question)' = First(d.question) /\ (Found(d.question)' <=> Found(d.question))
  BY <1>1 DEF First, Found
<1> QED BY <1>2 DEF StandsOn

\* An answer that is kept does not move an opinion that a decision stands on:
\* who could be asked had not been heard, so nothing had been settled on that.
LEMMA KeepMovesNothing ==
  ASSUME OpinionsTypeOK, HeardInv, NEW q \in Questions, Keep(q),
         NEW d \in settled, StandsOn(d)
  PROVE  StandsOn(d)'
<1>0. d.question \in Questions /\ q \in AsksAbout(wanted) /\ step = "keeping"
      /\ model \in Preference
  BY KeptReply DEF OpinionsTypeOK, RecordTypes, SettledRows
<1>1. CASE d.question # q
  <2>1. \A m \in Preference : onRecord'[d.question][m] = onRecord[d.question][m]
    BY <1>0, <1>1, KeptReply
  <2>2. /\ Usable(d.question)' = Usable(d.question)
        /\ \A m \in Preference : <<d.question, m, "unresolvable">> \in marks'
                                 <=> <<d.question, m, "unresolvable">> \in marks
    BY <1>0, <1>1, KeptReply, FoundAfterKeep
  <2>3. First(d.question)' = First(d.question) /\ (Found(d.question)' <=> Found(d.question))
    BY <2>2 DEF First, Found
  <2> QED BY <2>1, <2>2, <2>3 DEF StandsOn
<1>2. CASE d.question = q
  <2>1. ~Found(q) /\ <<q, model>> \notin heard
    BY KeptReply
  <2>2. d.by = Jev
    BY <1>2, <2>1 DEF StandsOn
  <2>3. <<q, model, "unresolvable">> \notin marks
    BY <1>0, <2>1 DEF HeardInv
  <2>4. ASSUME NEW m \in Preference
        PROVE  \/ onRecord'[q][m] = "unusable"
               \/ <<q, m, "unresolvable">> \in marks' /\ onRecord'[q][m] = "nothing"
    <3>1. \/ onRecord[q][m] = "unusable"
          \/ <<q, m, "unresolvable">> \in marks /\ onRecord[q][m] = "nothing"
      BY <1>2, <2>2 DEF StandsOn
    <3>2. CASE onRecord[q][m] = "unusable"
      BY <3>2, KeptReply
    <3>3. CASE <<q, m, "unresolvable">> \in marks /\ onRecord[q][m] = "nothing"
      <4>1. m # model
        BY <2>3, <3>3
      <4> QED BY <3>3, <4>1, KeptReply
    <3> QED BY <3>1, <3>2, <3>3
  <2> QED BY <1>2, <2>2, <2>4 DEF StandsOn
<1> QED BY <1>1, <1>2

\* The tick commits: what it settles on stands, since nobody who could still be
\* heard is left; and as many were let in before a want that is turned away as
\* the allowance counts.
LEMMA CommitSettles ==
  ASSUME OpinionsInv, Commit
  PROVE  SettledInv'
<1> DEFINE acting == {k \in DOMAIN Wants : Acting(Wants[k])}
           heardOut == {i \in wanted : Found(Wants[i])}
           o(i) == [turn |-> turn, want |-> i, applied |-> Acting(Wants[i])]
           d(i) == [turn |-> turn, want |-> i, question |-> Wants[i], denied |-> i \notin wanted,
                    by |-> IF i \in wanted /\ Found(Wants[i]) THEN First(Wants[i]) ELSE Jev]
<1>1. /\ opinions' = opinions \cup {o(i) : i \in heardOut}
      /\ settled' = settled \cup {d(i) : i \in acting}
      /\ turn' = turn + 1 /\ UNCHANGED <<onRecord, marks>>
      /\ step # "between" /\ ~Stopped
  BY DEF Commit
<1>2. turn \in Nat \ {0} /\ turn <= Len(Escalations) /\ wanted \subseteq DOMAIN Wants
  BY <1>1 DEF OpinionsInv, OpinionsTypeOK, LoopTypes, HeardInv
<1>3. \A i \in DOMAIN Wants : i \in Nat /\ Wants[i] \in Questions
  BY <1>2, WantsFacts
<1>4. /\ IsFiniteSet(settled) /\ IsFiniteSet(settled') /\ IsFiniteSet(Applied)
      /\ \A i : IsFiniteSet(LetIn(i))
  <2>1. IsFiniteSet(settled) /\ IsFiniteSet(opinions)
    BY DEF OpinionsInv, OpinionsTypeOK, RecordTypes
  <2>2. IsFiniteSet(settled')
    <3>1. OpinionsNext
      BY DEF OpinionsNext, Progress
    <3> QED BY <3>1, OpinionsTyped DEF OpinionsInv, OpinionsTypeOK, RecordTypes
  <2>3. IsFiniteSet(wanted)
    BY <1>1, AskedFacts DEF OpinionsInv
  <2>4. Applied \subseteq opinions /\ \A i : LetIn(i) \subseteq wanted
    BY DEF Applied, LetIn
  <2> QED BY <2>1, <2>2, <2>3, <2>4, FS_Subset
<1>5. \A r \in settled' : r.turn < turn'
  BY <1>1, <1>2 DEF OpinionsInv, SettledInv, OpinionsTypeOK, RecordTypes, SettledRows
<1>6. \A r \in opinions' : r.turn < turn'
  BY <1>1, <1>2 DEF OpinionsInv, SettledInv, OpinionsTypeOK, RecordTypes, OpinionRows
<1>7. \A r : StandsOn(r)' <=> StandsOn(r)
  BY <1>1 DEF StandsOn, Found, First, Usable
<1>8. ASSUME NEW i \in acting, i \in wanted PROVE StandsOn(d(i))
  <2> DEFINE q == Wants[i]
  <2>1. q \in Questions /\ Acting(q) /\ q \in AsksAbout(wanted)
    BY <1>3, <1>8 DEF AsksAbout
  <2>2. d(i).question = q /\ d(i).by = IF Found(q) THEN First(q) ELSE Jev
    BY <1>8
  <2> HIDE DEF d, q
  <2>3. CASE Found(q)
    BY <2>1, <2>2, <2>3, FirstIsUsable DEF StandsOn
  <2>4. CASE ~Found(q)
    <3>1. Unheard(q) = {}
      BY <1>1, <2>1, <2>4 DEF Stopped, Unanswered
    <3>2. ASSUME NEW m \in Preference
          PROVE  \/ onRecord[q][m] = "unusable"
                 \/ <<q, m, "unresolvable">> \in marks /\ onRecord[q][m] = "nothing"
      <4>1. onRecord[q][m] \in Verdicts /\ onRecord[q][m] # "usable"
        BY <2>1, <2>4 DEF OpinionsInv, OpinionsTypeOK, RecordTypes, Found, Usable
      <4>2. <<q, m>> \in heard
        BY <3>1 DEF Unheard
      <4>3. onRecord[q][m] # "nothing" \/ <<q, m, "unresolvable">> \in marks
        BY <1>1, <2>1, <4>2 DEF OpinionsInv, HeardInv
      <4> QED BY <4>1, <4>3 DEF Verdicts
    <3> QED BY <2>2, <2>4, <3>2 DEF StandsOn
  <2> QED BY <2>3, <2>4
<1>9. \A r \in settled' : ~r.denied => StandsOn(r)'
  <2> SUFFICES ASSUME NEW r \in settled', ~r.denied PROVE StandsOn(r)
    BY <1>7
  <2>1. CASE r \in settled
    BY <2>1 DEF OpinionsInv, SettledInv
  <2>2. CASE \E i \in acting : r = d(i)
    <3>1. PICK i \in acting : r = d(i)
      BY <2>2
    <3>2. i \in wanted
      BY <3>1
    <3> HIDE DEF d
    <3> QED BY <1>8, <3>1, <3>2
  <2> QED BY <1>1, <2>1, <2>2
<1>10. \A r \in opinions' : r.applied =>
         \E e \in settled' : e.turn = r.turn /\ e.want = r.want /\ ~e.denied
  <2> SUFFICES ASSUME NEW r \in opinions', r.applied
               PROVE  \E e \in settled' : e.turn = r.turn /\ e.want = r.want /\ ~e.denied
    OBVIOUS
  <2>1. CASE r \in opinions
    BY <1>1, <2>1 DEF OpinionsInv, SettledInv
  <2>2. CASE \E i \in heardOut : r = o(i)
    <3>1. PICK i \in heardOut : r = o(i)
      BY <2>2
    <3>2. i \in acting /\ i \in wanted
      BY <1>2, <3>1
    <3>3. d(i) \in settled' /\ d(i).turn = r.turn /\ d(i).want = r.want /\ ~d(i).denied
      BY <1>1, <3>1, <3>2
    <3> QED BY <3>3
  <2> QED BY <1>1, <2>1, <2>2
<1>11. \A r \in settled' : IsFiniteSet(LetInBefore(r)')
  BY <1>4, FS_Subset DEF LetInBefore
<1>12. ASSUME NEW r \in settled, r.denied PROVE Cardinality(LetInBefore(r)') >= Allowance
  <2>1. LetInBefore(r) \subseteq LetInBefore(r)' /\ r \in settled'
    BY <1>1 DEF LetInBefore
  <2>2. IsFiniteSet(LetInBefore(r))
    BY <1>11, <2>1, FS_Subset
  <2>3. Cardinality(LetInBefore(r)) >= Allowance
    BY <1>12 DEF OpinionsInv, SettledInv
  <2>4. Cardinality(LetInBefore(r)) <= Cardinality(LetInBefore(r)')
    BY <1>11, <2>1, FS_Subset
  <2>5. Cardinality(LetInBefore(r)) \in Nat /\ Cardinality(LetInBefore(r)') \in Nat
    BY <1>11, <2>1, <2>2, FS_CardinalityType
  <2> QED BY <2>3, <2>4, <2>5, OpinionFacts
<1>13. ASSUME NEW i \in acting, i \notin wanted
       PROVE  \A r : r = d(i) => Cardinality(LetInBefore(r)') >= Allowance
  <2> TAKE r
  <2> HAVE r = d(i)
  <2> DEFINE Earlier == {e \in settled : ~e.denied}
             Now == {d(k) : k \in LetIn(i)}
  <2>1. r.turn = turn /\ r.want = i /\ r \in settled'
    BY <1>1, <1>13
  <2>2. Allowance <= Cardinality(Applied) + Cardinality(LetIn(i))
    BY <1>1, <1>13 DEF OpinionsInv, RoomInv
  <2>3. \A k \in LetIn(i) : /\ d(k) \in settled' /\ ~d(k).denied
                            /\ d(k).turn = turn /\ d(k).want = k /\ k < i
    BY <1>1, <1>2 DEF LetIn
  <2> HIDE DEF d
  <2>4. \A e \in Earlier : e \in settled' /\ e.turn < turn
    BY <1>1 DEF OpinionsInv, SettledInv
  <2>5. Earlier \cup Now \subseteq LetInBefore(r)' /\ Earlier \cap Now = {}
    <3>1. Earlier \subseteq LetInBefore(r)'
      BY <2>1, <2>4 DEF LetInBefore
    <3>2. Now \subseteq LetInBefore(r)'
      BY <2>1, <2>3 DEF LetInBefore
    <3>3. Earlier \cap Now = {}
      <4> SUFFICES ASSUME NEW e \in Earlier, e \in Now PROVE FALSE
        OBVIOUS
      <4>1. e.turn = turn /\ e.turn < turn
        BY <2>3, <2>4
      <4> QED BY <1>2, <4>1
    <3> QED BY <3>1, <3>2, <3>3
  <2>6. IsFiniteSet(Earlier) /\ Cardinality(Applied) <= Cardinality(Earlier)
    <3> DEFINE f == [e \in Earlier |-> [turn |-> e.turn, want |-> e.want, applied |-> TRUE]]
    <3>1. IsFiniteSet(Earlier)
      BY <1>4, FS_Subset
    <3>2. \A x \in Applied : \E e \in Earlier : x = f[e]
      <4> SUFFICES ASSUME NEW x \in Applied PROVE \E e \in Earlier : x = f[e]
        OBVIOUS
      <4>1. x \in opinions /\ x.applied /\ x \in OpinionRows
        BY DEF Applied, OpinionsInv, OpinionsTypeOK, RecordTypes
      <4>2. x = [turn |-> x.turn, want |-> x.want, applied |-> TRUE]
        BY <4>1 DEF OpinionRows
      <4>3. PICK e \in settled : e.turn = x.turn /\ e.want = x.want /\ ~e.denied
        BY <4>1 DEF OpinionsInv, SettledInv
      <4>4. f[e] = [turn |-> e.turn, want |-> e.want, applied |-> TRUE]
        BY <4>3
      <4> QED BY <4>2, <4>3, <4>4
    <3>3. f = [e \in Earlier |-> f[e]]
      OBVIOUS
    <3> HIDE DEF f, Earlier
    <3>4. /\ IsFiniteSet({f[e] : e \in Earlier})
          /\ Cardinality({f[e] : e \in Earlier}) <= Cardinality(Earlier)
      BY <3>1, <3>3, ImageIsFinite
    <3>5. Applied \subseteq {f[e] : e \in Earlier}
      BY <3>2
    <3>6. Cardinality(Applied) <= Cardinality({f[e] : e \in Earlier})
      BY <3>4, <3>5, FS_Subset
    <3>7. /\ Cardinality(Applied) \in Nat /\ Cardinality(Earlier) \in Nat
          /\ Cardinality({f[e] : e \in Earlier}) \in Nat
      BY <1>4, <3>1, <3>4, FS_CardinalityType
    <3> QED BY <3>1, <3>4, <3>6, <3>7
  <2>7. IsFiniteSet(Now) /\ Cardinality(LetIn(i)) <= Cardinality(Now)
    <3> DEFINE f == [k \in LetIn(i) |-> d(k)]
               g == [e \in Now |-> e.want]
    <3>1. IsFiniteSet(Now)
      <4>1. f = [k \in LetIn(i) |-> f[k]] /\ {f[k] : k \in LetIn(i)} = Now
        OBVIOUS
      <4> HIDE DEF f, Now
      <4> QED BY <1>4, <4>1, ImageIsFinite
    <3>2. g = [e \in Now |-> g[e]]
      OBVIOUS
    <3>3. {g[e] : e \in Now} = LetIn(i)
      BY <2>3
    <3> HIDE DEF g, Now
    <3>4. Cardinality({g[e] : e \in Now}) <= Cardinality(Now)
      BY <3>1, <3>2, ImageIsFinite
    <3> QED BY <3>1, <3>3, <3>4
  <2> HIDE DEF Earlier, Now
  <2>8. /\ IsFiniteSet(Earlier \cup Now)
        /\ Cardinality(Earlier \cup Now) = Cardinality(Earlier) + Cardinality(Now)
    <3>1. Cardinality(Earlier \cap Now) = 0
      BY <2>5, FS_EmptySet
    <3>2. Cardinality(Earlier) \in Nat /\ Cardinality(Now) \in Nat
      BY <2>6, <2>7, FS_CardinalityType
    <3>3. /\ IsFiniteSet(Earlier \cup Now)
          /\ Cardinality(Earlier \cup Now)
               = Cardinality(Earlier) + Cardinality(Now) - Cardinality(Earlier \cap Now)
      BY <2>6, <2>7, FS_Union, Zenon
    <3> QED BY <3>1, <3>2, <3>3
  <2>9. Cardinality(Earlier \cup Now) <= Cardinality(LetInBefore(r)')
    BY <1>11, <2>1, <2>5, FS_Subset
  <2>10. /\ Cardinality(Earlier) \in Nat /\ Cardinality(Now) \in Nat
         /\ Cardinality(LetInBefore(r)') \in Nat
         /\ Cardinality(Applied) \in Nat /\ Cardinality(LetIn(i)) \in Nat
    BY <1>4, <1>11, <2>1, <2>6, <2>7, FS_CardinalityType
  <2> QED BY <2>2, <2>6, <2>7, <2>8, <2>9, <2>10, OpinionFacts
<1>14. \A r \in settled' : r.denied => Cardinality(LetInBefore(r)') >= Allowance
  <2> SUFFICES ASSUME NEW r \in settled', r.denied
               PROVE  Cardinality(LetInBefore(r)') >= Allowance
    OBVIOUS
  <2>1. CASE r \in settled
    BY <1>12, <2>1
  <2>2. CASE \E i \in acting : r = d(i)
    <3>1. PICK i \in acting : r = d(i)
      BY <2>2
    <3>2. i \notin wanted
      BY <3>1
    <3> HIDE DEF d
    <3> QED BY <1>13, <3>1, <3>2
  <2> QED BY <1>1, <2>1, <2>2
<1> QED BY <1>5, <1>6, <1>9, <1>10, <1>14 DEF SettledInv

\* No step unsettles what earlier ticks settled.
LEMMA SettledKept ==
  ASSUME OpinionsInv, OpinionsNext
  PROVE  SettledInv'
<1> USE DEF OpinionsInv, process, durable
<1>1. ASSUME UNCHANGED <<turn, onRecord, opinions, settled>>, marks \subseteq marks'
      PROVE  SettledInv'
  <2>1. ASSUME NEW d \in settled, StandsOn(d) PROVE StandsOn(d)'
    BY <1>1, <2>1, RowStands
  <2> QED BY <1>1, <2>1, RowsStand
<1>2. ASSUME Begin PROVE SettledInv'
  <2>1. UNCHANGED <<turn, onRecord, opinions, settled>> /\ marks \subseteq marks'
    BY <1>2 DEF Begin
  <2> QED BY <1>1, <2>1
<1>3. ASSUME \/ NextModel \/ AskRound \/ RoundTimesOut \/ RoundEnds \/ Asked
             \/ TryAgain \/ Restarted
      PROVE  SettledInv'
  <2>1. UNCHANGED <<turn, onRecord, opinions, settled>> /\ marks \subseteq marks'
    BY <1>3 DEF NextModel, AskRound, RoundTimesOut, RoundEnds, Asked, TryAgain, Restarted
  <2> QED BY <1>1, <2>1
<1>4. ASSUME NEW q \in Questions, Keep(q) PROVE SettledInv'
  <2>1. UNCHANGED <<turn, opinions, settled>>
    BY <1>4, KeptReply
  <2>2. \A d \in settled : StandsOn(d) => StandsOn(d)'
    BY <1>4, KeepMovesNothing
  <2> QED BY <2>1, <2>2, RowsStand
<1>5. ASSUME Commit PROVE SettledInv'
  BY <1>5, CommitSettles
<1> QED BY <1>2, <1>3, <1>4, <1>5 DEF OpinionsNext, Progress

-----------------------------------------------------------------------------
\* OpinionsInv is inductive, and holds.
THEOREM OpinionsInvariance == OpinionsSpec => []OpinionsInv
<1>1. OpinionsInit => OpinionsInv
  <2> SUFFICES ASSUME OpinionsInit PROVE OpinionsInv
    OBVIOUS
  <2>1. LoopTypes
    <3>1. turn \in Nat \ {0} /\ step = "between" /\ model \in Nat /\ mishaps \in Nat
      BY DEF OpinionsInit
    <3>5. wanted \subseteq Nat
      BY DEF OpinionsInit
    <3>6. failure \in BOOLEAN /\ shadowTime \in BOOLEAN
      BY Zenon DEF OpinionsInit
    <3>2. live \subseteq Questions
      BY OpinionFacts DEF OpinionsInit
    <3>3. heard \subseteq Questions \X Preference
      BY DEF OpinionsInit
    <3>4. replies \in [Questions -> {"none", "usable", "unusable", "fails"}]
      BY DEF OpinionsInit, NoReplies
    <3> QED BY <3>1, <3>2, <3>3, <3>4, <3>5, <3>6 DEF LoopTypes
  <2>2. RecordTypes
    BY FS_EmptySet DEF OpinionsInit, RecordTypes, Verdicts
  <2>3. HeardInv /\ RoomInv
    BY DEF OpinionsInit, HeardInv, RoomInv, NoReplies
  <2>4. SettledInv
    BY DEF OpinionsInit, SettledInv
  <2> QED BY <2>1, <2>2, <2>3, <2>4 DEF OpinionsInv, OpinionsTypeOK
<1>2. OpinionsInv /\ [OpinionsNext]_opinionVars => OpinionsInv'
  <2> SUFFICES ASSUME OpinionsInv, [OpinionsNext]_opinionVars PROVE OpinionsInv'
    OBVIOUS
  <2>1. CASE OpinionsNext
    BY <2>1, OpinionsTyped, HeardKept, RoomKept, SettledKept DEF OpinionsInv
  <2>2. CASE UNCHANGED opinionVars
    <3>1. UNCHANGED <<turn, step, live, wanted, model, replies, heard, failure, shadowTime,
                      onRecord, marks, opinions, settled, mishaps>>
      BY <2>2 DEF opinionVars
    <3>2. OpinionsTypeOK'
      BY <3>1 DEF OpinionsInv, OpinionsTypeOK, LoopTypes, RecordTypes
    <3>3. HeardInv'
      BY <3>1 DEF OpinionsInv, HeardInv, Wants, AsksAbout, Found, Usable, Acting
    <3>4. RoomInv'
      BY <3>1 DEF OpinionsInv, RoomInv, Wants, Acting, Applied, LetIn
    <3>5. SettledInv'
      BY <3>1, RowStands, RowsStand DEF OpinionsInv
    <3> QED BY <3>2, <3>3, <3>4, <3>5 DEF OpinionsInv
  <2> QED BY <2>1, <2>2
<1> QED BY <1>1, <1>2, PTL DEF OpinionsSpec

\* A replay reads back what the recording saw: for every decision that an opinion
\* was let in for, the record still gives the opinion it was made on, and says of
\* everybody that nothing will ever come where it was made on Jev's.
THEOREM OpinionsReplay == OpinionsSpec => []LiveOpinionsReplay
<1>1. OpinionsInv => LiveOpinionsReplay
  BY DEF OpinionsInv, SettledInv, LiveOpinionsReplay, StandsOn
<1> QED BY <1>1, OpinionsInvariance, PTL

\* One that acts is turned away only when as many that act as a day allows were
\* let in before it: what runs in shadow has taken no place of theirs.
THEOREM ShadowWaits == OpinionsSpec => []ShadowTakesNoLivePlace
<1>1. OpinionsInv => ShadowTakesNoLivePlace
  BY DEF OpinionsInv, SettledInv, ShadowTakesNoLivePlace, LetInBefore
<1> QED BY <1>1, OpinionsInvariance, PTL

-----------------------------------------------------------------------------
(***************************************************************************)
(* Sums. What a fold of the community modules adds up to: its recursion is  *)
(* unfolded by hand.                                                       *)
(***************************************************************************)
AddUp(f, S) == MapThenSumSet(LAMBDA x : f[x], S)

\* the member a fold of a set begins with
Pick(s) == CHOOSE x \in s : TRUE

\* g adds up f over the sets of D, as a fold does.
Sums(g, f, D) ==
  g = [s \in D |-> IF s = {} THEN 0 ELSE f[Pick(s)] + g[s \ {Pick(s)}]]

\* What MapThenSumSet is.
LEMMA AddUpIsAFold ==
  ASSUME NEW f, NEW S
  PROVE  AddUp(f, S) = (CHOOSE g : Sums(g, f, SUBSET S))[S]
BY DEF AddUp, MapThenSumSet, MapThenFoldSet, Sums, Pick

\* Of finite sets, there is a smallest.
LEMMA LeastSet ==
  ASSUME NEW F, F # {}, \A S \in F : IsFiniteSet(S)
  PROVE  \E S \in F : \A T \in F : Cardinality(S) <= Cardinality(T)
<1> DEFINE sizes == {Cardinality(S) : S \in F}
<1>1. sizes \subseteq Nat /\ sizes # {}
  BY FS_CardinalityType
<1>2. PICK n \in sizes : \A m \in sizes : n <= m
  BY <1>1, LeastNatural
<1> QED BY <1>2

\* There is such a sum, over the subsets of a finite set.
LEMMA SumsExist ==
  ASSUME NEW f, NEW S, IsFiniteSet(S)
  PROVE  \E g : Sums(g, f, SUBSET S)
<1> DEFINE Upto(n) == {s \in SUBSET S : Cardinality(s) < n}
           Bad == {n \in Nat : ~ \E g : Sums(g, f, Upto(n))}
<1>1. ASSUME NEW s \in SUBSET S PROVE IsFiniteSet(s) /\ Cardinality(s) \in Nat /\ Cardinality(s) <= Cardinality(S)
  BY FS_Subset, FS_CardinalityType
<1>2. ASSUME NEW s \in SUBSET S, s # {}
      PROVE  Pick(s) \in s /\ s \ {Pick(s)} \in SUBSET S /\ Cardinality(s \ {Pick(s)}) = Cardinality(s) - 1
  <2>1. Pick(s) \in s
    BY <1>2 DEF Pick
  <2> QED BY <1>1, <2>1, FS_RemoveElement
<1>3. Bad = {}
  <2> SUFFICES ASSUME Bad # {} PROVE FALSE
    OBVIOUS
  <2>1. PICK n \in Bad : \A m \in Bad : n <= m
    BY LeastNatural
  <2>2. CASE n = 0
    <3>1. Upto(0) = {}
      BY <1>1
    <3>2. Sums([s \in {} |-> 0], f, {})
      BY DEF Sums
    <3> QED BY <2>1, <2>2, <3>1, <3>2
  <2>3. CASE n # 0
    <3>1. n \in Nat /\ n \in Bad /\ n - 1 \in Nat
      <4>1. Bad \subseteq Nat /\ n \in Bad
        BY <2>1
      <4> HIDE DEF Bad
      <4> QED BY <2>3, <4>1
    <3>2. n - 1 \notin Bad
      <4> HIDE DEF Bad
      <4> QED BY <2>1, <3>1
    <3>3. PICK g : Sums(g, f, Upto(n - 1))
      BY <3>1, <3>2
    <3> DEFINE h == [s \in Upto(n) |->
                       IF s = {} THEN 0 ELSE f[Pick(s)] + g[s \ {Pick(s)}]]
    <3>4. ASSUME NEW s \in Upto(n), s # {} PROVE h[s \ {Pick(s)}] = g[s \ {Pick(s)}]
      <4> DEFINE t == s \ {Pick(s)}
      <4>1. t \in Upto(n) /\ t \in Upto(n - 1)
        <5>1. s \in SUBSET S /\ Cardinality(s) < n /\ Cardinality(s) \in Nat
          BY <1>1
        <5>2. t \in SUBSET S /\ Cardinality(t) = Cardinality(s) - 1
          BY <1>2, <3>4, <5>1
        <5> HIDE DEF t
        <5> QED BY <3>1, <5>1, <5>2
      <4>2. h[t] = IF t = {} THEN 0 ELSE f[Pick(t)] + g[t \ {Pick(t)}]
        BY <4>1
      <4>3. g[t] = IF t = {} THEN 0 ELSE f[Pick(t)] + g[t \ {Pick(t)}]
        <5> HIDE DEF t, Upto
        <5> QED BY <3>3, <4>1 DEF Sums
      <4> QED BY <4>2, <4>3
    <3>5. h = [s \in Upto(n) |-> IF s = {} THEN 0 ELSE f[Pick(s)] + h[s \ {Pick(s)}]]
      BY <3>4
    <3>6. Sums(h, f, Upto(n))
      <4> HIDE DEF h, Upto
      <4> QED BY <3>5 DEF Sums
    <3> QED BY <3>1, <3>6
  <2> QED BY <2>2, <2>3
<1>4. Cardinality(S) \in Nat /\ Cardinality(S) + 1 \in Nat
  BY FS_CardinalityType
<1>5. PICK g : Sums(g, f, Upto(Cardinality(S) + 1))
  BY <1>3, <1>4
<1>6. Upto(Cardinality(S) + 1) = SUBSET S
  BY <1>1, <1>4
<1> QED BY <1>5, <1>6

\* Are they the same on T?
SameOn(f, e, T) == \A x \in T : f[x] = e[x]

\* And only one.
LEMMA SumsAgree ==
  ASSUME NEW f, NEW e, NEW T, IsFiniteSet(T), SameOn(f, e, T)
  PROVE  \A S, g, h : T \subseteq S /\ Sums(g, f, SUBSET S) /\ Sums(h, e, SUBSET T) => g[T] = h[T]
<1> SUFFICES ASSUME NEW S, NEW g, NEW h,
                    T \subseteq S, Sums(g, f, SUBSET S), Sums(h, e, SUBSET T)
             PROVE  g[T] = h[T]
  OBVIOUS
<1> DEFINE Bad == {t \in SUBSET T : g[t] # h[t]}
<1>1. Bad = {}
  <2> SUFFICES ASSUME Bad # {} PROVE FALSE
    OBVIOUS
  <2>1. \A t \in SUBSET T : IsFiniteSet(t) /\ Cardinality(t) \in Nat
    BY FS_Subset, FS_CardinalityType
  <2>2. PICK t \in Bad : \A u \in Bad : Cardinality(t) <= Cardinality(u)
    BY <2>1, LeastSet
  <2>3. /\ g[t] = IF t = {} THEN 0 ELSE f[Pick(t)] + g[t \ {Pick(t)}]
        /\ h[t] = IF t = {} THEN 0 ELSE e[Pick(t)] + h[t \ {Pick(t)}]
    BY DEF Sums
  <2>4. t # {}
    BY <2>2, <2>3
  <2>5. Pick(t) \in t
    BY <2>4 DEF Pick
  <2>6. Cardinality(t \ {Pick(t)}) = Cardinality(t) - 1
    BY <2>1, <2>2, <2>5, FS_RemoveElement
  <2>7. t \ {Pick(t)} \notin Bad
    <3> HIDE DEF Bad
    <3>1. t \in SUBSET T
      BY DEF Bad
    <3> QED BY <2>1, <2>2, <2>6, <3>1
  <2>8. g[t \ {Pick(t)}] = h[t \ {Pick(t)}]
    BY <2>7
  <2> QED BY <2>2, <2>3, <2>5, <2>8 DEF SameOn
<1> QED BY <1>1

\* A sum is what one of them comes to, and the sum of the others.
LEMMA AddUpUnfolds ==
  ASSUME NEW f, NEW S, IsFiniteSet(S)
  PROVE  AddUp(f, S) = IF S = {} THEN 0 ELSE f[Pick(S)] + AddUp(f, S \ {Pick(S)})
<1> DEFINE rest == S \ {Pick(S)}
           whole == CHOOSE g : Sums(g, f, SUBSET S)
           less == CHOOSE g : Sums(g, f, SUBSET rest)
<1>1. Sums(whole, f, SUBSET S) /\ AddUp(f, S) = whole[S]
  BY SumsExist, AddUpIsAFold
<1>2. IsFiniteSet(rest) /\ rest \subseteq S /\ SameOn(f, f, rest)
  BY FS_Subset DEF SameOn
<1>3. Sums(less, f, SUBSET rest) /\ AddUp(f, rest) = less[rest]
  BY <1>2, SumsExist, AddUpIsAFold
<1> HIDE DEF whole, less
<1>4. whole[S] = IF S = {} THEN 0 ELSE f[Pick(S)] + whole[rest]
  BY <1>1 DEF Sums
<1> HIDE DEF rest
<1>5. whole[rest] = less[rest]
  BY <1>1, <1>2, <1>3, SumsAgree
<1>6. AddUp(f, S) = IF S = {} THEN 0 ELSE f[Pick(S)] + AddUp(f, rest)
  BY <1>1, <1>3, <1>4, <1>5
<1> QED BY <1>6 DEF rest

\* Only what is summed over counts.
LEMMA AddUpExtends ==
  ASSUME NEW f, NEW e, NEW S, IsFiniteSet(S), SameOn(f, e, S)
  PROVE  AddUp(f, S) = AddUp(e, S)
<1>1. PICK g : Sums(g, f, SUBSET S) /\ AddUp(f, S) = g[S]
  BY SumsExist, AddUpIsAFold
<1>2. PICK h : Sums(h, e, SUBSET S) /\ AddUp(e, S) = h[S]
  BY SumsExist, AddUpIsAFold
<1>3. S \subseteq S
  OBVIOUS
<1>4. \A R, a, b : S \subseteq R /\ Sums(a, f, SUBSET R) /\ Sums(b, e, SUBSET S) => a[S] = b[S]
  BY SumsAgree
<1> QED BY <1>1, <1>2, <1>3, <1>4

\* In whatever order they are added.
LEMMA AddUpTakesOut ==
  ASSUME NEW f, NEW S, IsFiniteSet(S), \A x \in S : f[x] \in Nat
  PROVE  /\ AddUp(f, S) \in Nat
         /\ \A x \in S : AddUp(f, S) = f[x] + AddUp(f, S \ {x})
<1> DEFINE Adds(s) == /\ AddUp(f, s) \in Nat
                      /\ \A x \in s : AddUp(f, s) = f[x] + AddUp(f, s \ {x})
           Bad == {s \in SUBSET S : ~ Adds(s)}
<1>1. Bad = {}
  <2> SUFFICES ASSUME Bad # {} PROVE FALSE
    OBVIOUS
  <2>1. \A s \in SUBSET S : IsFiniteSet(s) /\ Cardinality(s) \in Nat
    BY FS_Subset, FS_CardinalityType
  <2>2. PICK s \in Bad : \A t \in Bad : Cardinality(s) <= Cardinality(t)
    BY <2>1, LeastSet
  <2> HIDE DEF Adds
  <2>3. s \in SUBSET S
    BY <2>2
  <2>4. ASSUME NEW x \in s PROVE Adds(s \ {x})
    <3>1. Cardinality(s \ {x}) = Cardinality(s) - 1
      BY <2>1, <2>3, FS_RemoveElement
    <3>2. s \ {x} \notin Bad
      <4> HIDE DEF Bad
      <4> QED BY <2>1, <2>2, <2>3, <3>1
    <3> QED BY <2>3, <3>2
  <2> DEFINE y == Pick(s)
  <2>5. CASE s = {}
    <3>1. AddUp(f, s) = 0
      BY <2>1, <2>3, <2>5, AddUpUnfolds
    <3> QED BY <2>2, <2>5, <3>1 DEF Adds
  <2>6. CASE s # {}
    <3>1. y \in s
      BY <2>6 DEF Pick
    <3>2. AddUp(f, s) = f[y] + AddUp(f, s \ {y})
      BY <2>1, <2>3, <2>6, AddUpUnfolds
    <3> HIDE DEF y
    <3>3. AddUp(f, s \ {y}) \in Nat /\ f[y] \in Nat
      BY <2>3, <2>4, <3>1 DEF Adds
    <3>4. ASSUME NEW x \in s PROVE AddUp(f, s) = f[x] + AddUp(f, s \ {x})
      <4>1. CASE x = y
        BY <3>2, <4>1
      <4>2. CASE x # y
        <5>1. AddUp(f, s \ {y}) = f[x] + AddUp(f, (s \ {y}) \ {x})
          BY <2>4, <3>1, <4>2 DEF Adds
        <5>2. AddUp(f, s \ {x}) = f[y] + AddUp(f, (s \ {x}) \ {y})
          BY <2>4, <3>1, <4>2 DEF Adds
        <5>3. (s \ {x}) \ {y} = (s \ {y}) \ {x}
          OBVIOUS
        <5>4. x \in s \ {y}
          BY <4>2
        <5>5. Adds((s \ {y}) \ {x})
          <6>1. (s \ {y}) \ {x} \in SUBSET S
            BY <2>3
          <6>2. Cardinality((s \ {y}) \ {x}) = Cardinality(s) - 2
            <7>1. Cardinality(s \ {y}) = Cardinality(s) - 1 /\ IsFiniteSet(s \ {y})
              BY <2>1, <2>3, <3>1, FS_RemoveElement
            <7>2. Cardinality((s \ {y}) \ {x}) = Cardinality(s \ {y}) - 1
              BY <5>4, <7>1, FS_RemoveElement
            <7> QED BY <2>1, <2>3, <7>1, <7>2
          <6>3. (s \ {y}) \ {x} \notin Bad
            <7> HIDE DEF Bad
            <7> QED BY <2>1, <2>2, <2>3, <6>1, <6>2
          <6> QED BY <6>1, <6>3
        <5>6. /\ f[x] \in Nat /\ f[y] \in Nat
              /\ AddUp(f, (s \ {y}) \ {x}) \in Nat
          BY <2>3, <3>1, <5>5 DEF Adds
        <5>7. AddUp(f, s \ {x}) = f[y] + AddUp(f, (s \ {y}) \ {x})
          BY <5>2, <5>3
        <5> HIDE DEF Bad
        <5> QED BY <3>2, <5>1, <5>6, <5>7
      <4> QED BY <4>1, <4>2
    <3>5. AddUp(f, s) \in Nat
      BY <3>2, <3>3
    <3>6. Adds(s)
      BY <3>4, <3>5 DEF Adds
    <3> QED BY <2>2, <3>6
  <2> QED BY <2>5, <2>6
<1> QED BY <1>1

\* The sum over a part and the sum over the rest.
LEMMA AddUpSplits ==
  ASSUME NEW f, NEW S, IsFiniteSet(S), \A x \in S : f[x] \in Nat,
         NEW T, T \subseteq S
  PROVE  AddUp(f, S) = AddUp(f, T) + AddUp(f, S \ T)
<1> DEFINE Splits(u) == AddUp(f, S) = AddUp(f, u) + AddUp(f, S \ u)
           Bad == {u \in SUBSET S : ~ Splits(u)}
<1>0. \A u \in SUBSET S : /\ IsFiniteSet(u) /\ Cardinality(u) \in Nat
                          /\ AddUp(f, u) \in Nat
  <2> SUFFICES ASSUME NEW u \in SUBSET S
               PROVE  IsFiniteSet(u) /\ Cardinality(u) \in Nat /\ AddUp(f, u) \in Nat
    OBVIOUS
  <2>1. IsFiniteSet(u) /\ Cardinality(u) \in Nat
    BY FS_Subset, FS_CardinalityType
  <2> QED BY <2>1, AddUpTakesOut
<1>1. Bad = {}
  <2> SUFFICES ASSUME Bad # {} PROVE FALSE
    OBVIOUS
  <2>1. PICK u \in Bad : \A v \in Bad : Cardinality(u) <= Cardinality(v)
    BY <1>0, LeastSet
  <2>2. u \in SUBSET S /\ ~ Splits(u)
    OBVIOUS
  <2>3. CASE u = {}
    <3>1. AddUp(f, {}) = 0
      BY FS_EmptySet, AddUpUnfolds
    <3>2. S \ u = S /\ AddUp(f, S) \in Nat
      BY <1>0, <2>3
    <3> QED BY <2>2, <2>3, <3>1, <3>2
  <2>4. CASE u # {}
    <3>1. PICK x \in u : TRUE
      BY <2>4
    <3> DEFINE v == u \ {x}
    <3>2. v \in SUBSET S /\ Cardinality(v) = Cardinality(u) - 1
      BY <1>0, <2>2, FS_RemoveElement
    <3>3. Splits(v)
      <4>1. v \notin Bad
        <5> HIDE DEF Bad, v
        <5> QED BY <1>0, <2>1, <2>2, <3>2
      <4> QED BY <3>2, <4>1
    <3>4. AddUp(f, u) = f[x] + AddUp(f, v)
      BY <1>0, <2>2, AddUpTakesOut
    <3>5. AddUp(f, S \ v) = f[x] + AddUp(f, (S \ v) \ {x})
      <4>1. S \ v \in SUBSET S /\ x \in S \ v
        BY <2>2
      <4> HIDE DEF v
      <4> QED BY <1>0, <4>1, AddUpTakesOut
    <3>6. (S \ v) \ {x} = S \ u
      BY <2>2
    <3>7. f[x] \in Nat /\ AddUp(f, v) \in Nat /\ AddUp(f, S \ u) \in Nat
      BY <1>0, <2>2, <3>2
    <3>8. AddUp(f, S \ v) = f[x] + AddUp(f, S \ u)
      BY <3>5, <3>6
    <3> HIDE DEF v
    <3> QED BY <2>2, <3>3, <3>4, <3>7, <3>8
  <2> QED BY <2>3, <2>4
<1> QED BY <1>1

-----------------------------------------------------------------------------
(* The sum of a field of rows. *)

ByField(g, rs, field, D) ==
  g = [s \in D |-> IF s = {} THEN 0 ELSE rs[Pick(s)][field] + g[s \ {Pick(s)}]]

FieldOf(rs, field, S) == [x \in S |-> rs[x][field]]

\* It is the sum of what the field holds.
LEMMA FieldsAddUp ==
  ASSUME NEW rs, NEW field, NEW S, IsFiniteSet(S)
  PROVE  (CHOOSE g : ByField(g, rs, field, SUBSET S))[S] = AddUp(FieldOf(rs, field, S), S)
<1> DEFINE f == FieldOf(rs, field, S)
<1>1. ASSUME NEW s \in SUBSET S, s # {} PROVE rs[Pick(s)][field] = f[Pick(s)]
  <2>1. Pick(s) \in S
    BY <1>1 DEF Pick
  <2> QED BY <2>1 DEF FieldOf
<1>2. \A g : ByField(g, rs, field, SUBSET S) <=> Sums(g, f, SUBSET S)
  <2> HIDE DEF f
  <2> TAKE g
  <2>1. [s \in SUBSET S |-> IF s = {} THEN 0 ELSE rs[Pick(s)][field] + g[s \ {Pick(s)}]]
          = [s \in SUBSET S |-> IF s = {} THEN 0 ELSE f[Pick(s)] + g[s \ {Pick(s)}]]
    BY <1>1
  <2> QED BY <2>1 DEF ByField, Sums
<1> HIDE DEF f
<1> DEFINE all == CHOOSE g : ByField(g, rs, field, SUBSET S)
           sum == CHOOSE g : Sums(g, f, SUBSET S)
<1>3. Sums(all, f, SUBSET S)
  <2>1. \E g : ByField(g, rs, field, SUBSET S)
    BY <1>2, SumsExist
  <2>2. ByField(all, rs, field, SUBSET S)
    BY <2>1
  <2> QED BY <1>2, <2>2
<1>4. Sums(sum, f, SUBSET S) /\ AddUp(f, S) = sum[S]
  BY SumsExist, AddUpIsAFold
<1> HIDE DEF all, sum
<1>5. S \subseteq S /\ SameOn(f, f, S)
  BY DEF SameOn
<1>6. all[S] = sum[S]
  BY <1>3, <1>4, <1>5, SumsAgree
<1> QED BY <1>4, <1>6 DEF all, f

(***************************************************************************)
(* SpendLedger. The costs of its rows add up.                              *)
(***************************************************************************)
LEMMA SumOfAddsUp ==
  ASSUME NEW rs, NEW S, IsFiniteSet(S)
  PROVE  SumOf(rs, S) = AddUp(FieldOf(rs, "usd", S), S)
<1>1. SumOf(rs, S) = (CHOOSE g : ByField(g, rs, "usd", SUBSET S))[S]
  BY DEF SumOf, MapThenSumSet, MapThenFoldSet, ByField, Pick
<1> QED BY <1>1, FieldsAddUp

\* Do the rows of T cost the same?
SameCosts(rs, qs, T) == \A x \in T : rs[x].usd = qs[x].usd

\* Only the rows summed over count.
LEMMA SumOfExtends ==
  ASSUME NEW rs, NEW qs, NEW S, IsFiniteSet(S), SameCosts(rs, qs, S)
  PROVE  SumOf(rs, S) = SumOf(qs, S)
<1>1. FieldOf(rs, "usd", S) = FieldOf(qs, "usd", S)
  BY DEF FieldOf, SameCosts
<1> QED BY <1>1, SumOfAddsUp

\* The sum over some of the rows, by what all of them cost.
LEMMA SumOfSome ==
  ASSUME NEW rs, NEW S, IsFiniteSet(S), NEW T, T \subseteq S
  PROVE  IsFiniteSet(T) /\ SumOf(rs, T) = AddUp(FieldOf(rs, "usd", S), T)
<1>1. IsFiniteSet(T)
  BY FS_Subset
<1>2. SameOn(FieldOf(rs, "usd", T), FieldOf(rs, "usd", S), T)
  BY DEF FieldOf, SameOn
<1> QED BY <1>1, <1>2, SumOfAddsUp, AddUpExtends

\* In whatever order they are added.
LEMMA SumOfTakesOut ==
  ASSUME NEW rs, NEW S, IsFiniteSet(S), \A x \in S : rs[x].usd \in Nat
  PROVE  /\ SumOf(rs, S) \in Nat
         /\ \A x \in S : SumOf(rs, S) = rs[x].usd + SumOf(rs, S \ {x})
<1> DEFINE f == FieldOf(rs, "usd", S)
<1>1. \A x \in S : f[x] = rs[x].usd /\ f[x] \in Nat
  BY DEF FieldOf
<1>2. SumOf(rs, S) = AddUp(f, S) /\ \A x \in S : SumOf(rs, S \ {x}) = AddUp(f, S \ {x})
  BY SumOfSome
<1> HIDE DEF f
<1> QED BY <1>1, <1>2, AddUpTakesOut

\* The sum over a part and the sum over the rest.
LEMMA SumOfSplits ==
  ASSUME NEW rs, NEW S, IsFiniteSet(S), \A x \in S : rs[x].usd \in Nat,
         NEW T, T \subseteq S
  PROVE  SumOf(rs, S) = SumOf(rs, T) + SumOf(rs, S \ T)
<1> DEFINE f == FieldOf(rs, "usd", S)
<1>1. \A x \in S : f[x] \in Nat
  BY DEF FieldOf
<1>2. SumOf(rs, S) = AddUp(f, S) /\ SumOf(rs, T) = AddUp(f, T) /\ SumOf(rs, S \ T) = AddUp(f, S \ T)
  BY SumOfSome
<1> HIDE DEF f
<1> QED BY <1>1, <1>2, AddUpSplits

-----------------------------------------------------------------------------
RowKinds == {"reserve", "settle", "release", "baseline", "remote"}
SpendRows == [kind : RowKinds, call : Calls \cup {Null}, usd : Nat, estimated : BOOLEAN]

\* The reservations nothing has closed.
StandingIn(rs) == {i \in Of(rs, "reserve") : ~ClosedIn(rs, rs[i].call)}

\* The rows of a kind are some of the rows.
LEMMA OfIsFinite ==
  ASSUME NEW rs \in Seq(SpendRows), NEW k
  PROVE  Of(rs, k) \subseteq 1 .. Len(rs) /\ IsFiniteSet(Of(rs, k))
<1>1. Of(rs, k) \subseteq 1 .. Len(rs) /\ Len(rs) \in Nat
  BY DEF Of
<1>2. IsFiniteSet(1 .. Len(rs))
  BY <1>1, FS_Interval
<1> QED BY <1>1, <1>2, FS_Subset

\* The first row of a kind, and the last.
LEMMA FirstAndLast ==
  ASSUME NEW n \in Nat, NEW S, S \subseteq 1 .. n, S # {}
  PROVE  /\ Min(S) \in S /\ \A y \in S : Min(S) <= y
         /\ Max(S) \in S /\ \A y \in S : Max(S) >= y
<1>0. S \subseteq Nat
  OBVIOUS
<1>1. \E x \in S : \A y \in S : x <= y
  BY <1>0, LeastNatural
<1>2. \E x \in S : \A y \in S : x >= y
  <2> DEFINE back == {n - x : x \in S}
  <2>1. back \subseteq Nat /\ back # {}
    <3>1. \A x \in S : n - x \in Nat
      OBVIOUS
    <3> QED BY <3>1
  <2>2. PICK b \in back : \A c \in back : b <= c
    BY <2>1, LeastNatural
  <2>3. PICK x \in S : b = n - x
    OBVIOUS
  <2>4. \A y \in S : n - x <= n - y
    BY <2>2, <2>3
  <2> QED BY <2>4
<1> QED BY <1>1, <1>2 DEF Min, Max

\* _append moves the total by what the row changes: what it makes of the fold of the rows
\* before is the fold of the rows after.
LEMMA MoveFolds ==
  ASSUME NEW rs \in Seq(SpendRows), NEW r \in SpendRows,
         r.kind = "reserve" => \A i \in DOMAIN rs : rs[i].call # r.call
  PROVE  Move(Fold(rs), rs, r) = Fold(Append(rs, r))
<1> DEFINE n == Len(rs)
           qs == Append(rs, r)
           New(k) == IF r.kind = k THEN {n + 1} ELSE {}
<1>1. /\ n \in Nat /\ DOMAIN rs = 1 .. n
      /\ qs \in Seq(SpendRows) /\ Len(qs) = n + 1 /\ DOMAIN qs = 1 .. n + 1
      /\ qs[n + 1] = r /\ \A i \in 1 .. n : qs[i] = rs[i]
  OBVIOUS
<1>2. \A i \in 1 .. n : rs[i] \in SpendRows
  OBVIOUS
<1> HIDE DEF qs, n
<1>3. ASSUME NEW k PROVE Of(qs, k) = Of(rs, k) \cup New(k)
  BY <1>1 DEF Of
<1>4. ASSUME NEW k PROVE /\ Of(rs, k) \subseteq 1 .. n /\ IsFiniteSet(Of(rs, k))
                         /\ Of(qs, k) \subseteq 1 .. n + 1 /\ IsFiniteSet(Of(qs, k))
  BY <1>1, OfIsFinite DEF n
<1>5. ASSUME NEW S, S \subseteq 1 .. n
      PROVE  /\ IsFiniteSet(S) /\ SumOf(qs, S) = SumOf(rs, S) /\ SumOf(rs, S) \in Nat
             /\ SumOf(qs, S \cup {n + 1}) = SumOf(rs, S) + r.usd
  <2>1. IsFiniteSet(S)
    <3>1. IsFiniteSet(1 .. n)
      BY <1>1, FS_Interval
    <3> QED BY <1>5, <3>1, FS_Subset
  <2>2. SameCosts(qs, rs, S)
    BY <1>1, <1>5 DEF SameCosts
  <2>3. SumOf(qs, S) = SumOf(rs, S)
    BY <2>1, <2>2, SumOfExtends
  <2>4. SumOf(rs, S) \in Nat
    <3>1. \A x \in S : rs[x].usd \in Nat
      BY <1>2, <1>5 DEF SpendRows
    <3> QED BY <2>1, <3>1, SumOfTakesOut
  <2>5. IsFiniteSet(S \cup {n + 1})
    BY <2>1, FS_AddElement
  <2>6. \A x \in S \cup {n + 1} : qs[x].usd \in Nat
    BY <1>1, <1>2, <1>5 DEF SpendRows
  <2>7. SumOf(qs, S \cup {n + 1}) = qs[n + 1].usd + SumOf(qs, (S \cup {n + 1}) \ {n + 1})
    BY <2>5, <2>6, SumOfTakesOut
  <2>8. (S \cup {n + 1}) \ {n + 1} = S
    BY <1>1, <1>5
  <2>9. r.usd \in Nat
    BY DEF SpendRows
  <2>10. SumOf(qs, S \cup {n + 1}) = r.usd + SumOf(rs, S)
    BY <1>1, <2>3, <2>7, <2>8
  <2> QED BY <2>1, <2>3, <2>4, <2>9, <2>10
<1>6. SumOf(qs, Of(qs, "settle")) = SumOf(rs, Of(rs, "settle")) + (IF r.kind = "settle" THEN r.usd ELSE 0)
  <2> DEFINE A == Of(rs, "settle")
  <2>1. A \subseteq 1 .. n /\ Of(qs, "settle") = A \cup New("settle")
    BY <1>3, <1>4
  <2> HIDE DEF A
  <2>2. /\ SumOf(qs, A) = SumOf(rs, A) /\ SumOf(rs, A) \in Nat
        /\ SumOf(qs, A \cup {n + 1}) = SumOf(rs, A) + r.usd
    BY <1>5, <2>1
  <2>3. CASE r.kind = "settle"
    <3>1. Of(qs, "settle") = A \cup {n + 1}
      BY <2>1, <2>3
    <3> QED BY <2>2, <2>3, <3>1 DEF A
  <2>4. CASE r.kind # "settle"
    <3>1. Of(qs, "settle") = A
      BY <2>1, <2>4
    <3> QED BY <2>2, <2>4, <3>1 DEF A
  <2> QED BY <2>3, <2>4
<1>7. ASSUME NEW S, S \subseteq 1 .. n
      PROVE  /\ Cardinality(S) \in Nat
             /\ Cardinality(S \cup {n + 1}) = Cardinality(S) + 1
  <2>1. n + 1 \notin S
    BY <1>1, <1>7
  <2>2. IsFiniteSet(S)
    BY <1>5, <1>7
  <2> QED BY <2>1, <2>2, FS_CardinalityType, FS_AddElement
<1>8. Cardinality(Of(qs, "settle")) = Cardinality(Of(rs, "settle")) + (IF r.kind = "settle" THEN 1 ELSE 0)
  <2> DEFINE A == Of(rs, "settle")
  <2>1. A \subseteq 1 .. n /\ Of(qs, "settle") = A \cup New("settle")
    BY <1>3, <1>4
  <2> HIDE DEF A
  <2>2. Cardinality(A) \in Nat /\ Cardinality(A \cup {n + 1}) = Cardinality(A) + 1
    BY <1>7, <2>1
  <2>3. CASE r.kind = "settle"
    <3>1. Of(qs, "settle") = A \cup {n + 1}
      BY <2>1, <2>3
    <3> QED BY <2>2, <2>3, <3>1 DEF A
  <2>4. CASE r.kind # "settle"
    <3>1. Of(qs, "settle") = A
      BY <2>1, <2>4
    <3> QED BY <2>2, <2>4, <3>1 DEF A
  <2> QED BY <2>3, <2>4
<1>9. Cardinality({i \in Of(qs, "settle") : qs[i].estimated})
        = Cardinality({i \in Of(rs, "settle") : rs[i].estimated})
          + (IF r.kind = "settle" /\ r.estimated THEN 1 ELSE 0)
  <2> DEFINE S == {i \in Of(rs, "settle") : rs[i].estimated}
  <2>1. S \subseteq 1 .. n
    BY <1>4
  <2>2. {i \in Of(qs, "settle") : qs[i].estimated}
          = S \cup (IF r.kind = "settle" /\ r.estimated THEN {n + 1} ELSE {})
    <3>1. \A i \in Of(rs, "settle") : qs[i] = rs[i]
      BY <1>1, <1>4
    <3>2. Of(qs, "settle") = Of(rs, "settle") \cup New("settle")
      BY <1>3
    <3> QED BY <1>1, <3>1, <3>2
  <2> DEFINE W == {i \in Of(qs, "settle") : qs[i].estimated}
  <2>3. Cardinality(S) \in Nat /\ Cardinality(S \cup {n + 1}) = Cardinality(S) + 1
    <3> HIDE DEF S
    <3> QED BY <1>7, <2>1
  <2>4. W = S \cup (IF r.kind = "settle" /\ r.estimated THEN {n + 1} ELSE {})
    BY <2>2
  <2> HIDE DEF S, W
  <2>5. CASE r.kind = "settle" /\ r.estimated
    <3>1. W = S \cup {n + 1}
      BY <2>4, <2>5
    <3> QED BY <2>3, <2>5, <3>1 DEF S, W
  <2>6. CASE ~(r.kind = "settle" /\ r.estimated)
    <3>1. W = S
      BY <2>4, <2>6
    <3>2. Cardinality(W) = Cardinality(S) + 0
      BY <2>3, <3>1
    <3>3. (IF r.kind = "settle" /\ r.estimated THEN 1 ELSE 0) = 0
      BY <2>6
    <3> QED BY <3>2, <3>3 DEF S, W
  <2> QED BY <2>5, <2>6
<1>10. (IF Of(qs, "baseline") = {} THEN Null ELSE qs[Min(Of(qs, "baseline"))].usd)
         = IF r.kind = "baseline" /\ Fold(rs).baseline = Null THEN r.usd ELSE Fold(rs).baseline
  <2> DEFINE B == Of(rs, "baseline")
             C == Of(qs, "baseline")
  <2>1. Fold(rs).baseline = IF B = {} THEN Null ELSE rs[Min(B)].usd
    BY DEF Fold
  <2>2. C = B \cup New("baseline") /\ B \subseteq 1 .. n /\ C \subseteq 1 .. n + 1
    BY <1>3, <1>4
  <2> HIDE DEF B, C
  <2>3. CASE B = {}
    <3>1. CASE r.kind = "baseline"
      <4>1. C = {n + 1}
        BY <2>2, <2>3, <3>1
      <4>2. Min(C) \in C
        <5>1. n + 1 \in Nat /\ C \subseteq 1 .. n + 1 /\ C # {}
          BY <1>1, <2>2, <4>1
        <5> QED BY <5>1, FirstAndLast
      <4>3. Min(C) = n + 1
        BY <4>1, <4>2
      <4> QED BY <1>1, <2>1, <2>3, <3>1, <4>1, <4>3 DEF C
    <3>2. CASE r.kind # "baseline"
      BY <2>1, <2>2, <2>3, <3>2 DEF C
    <3> QED BY <3>1, <3>2
  <2>4. CASE B # {}
    <3>1. Min(B) \in B /\ \A y \in B : Min(B) <= y
      BY <1>1, <2>2, <2>4, FirstAndLast
    <3>2. C # {} /\ n + 1 \in Nat
      BY <1>1, <2>2, <2>4
    <3>3. Min(C) \in C /\ \A y \in C : Min(C) <= y
      BY <2>2, <3>2, FirstAndLast
    <3>4. Min(B) \in C /\ Min(B) \in 1 .. n
      BY <2>2, <3>1
    <3>5. Min(C) \in B
      <4> SUFFICES ASSUME Min(C) = n + 1 PROVE FALSE
        BY <2>2, <3>3
      <4> QED BY <1>1, <3>3, <3>4
    <3>6. Min(C) = Min(B)
      <4>1. Min(C) <= Min(B) /\ Min(B) <= Min(C)
        BY <3>1, <3>3, <3>4, <3>5
      <4>2. Min(C) \in 1 .. n
        BY <2>2, <3>5
      <4> QED BY <1>1, <3>4, <4>1, <4>2
    <3>7. rs[Min(B)].usd # Null /\ qs[Min(B)] = rs[Min(B)]
      BY <1>1, <1>2, <3>4, LedgerAssumption DEF SpendRows
    <3> QED BY <2>1, <2>4, <3>2, <3>6, <3>7 DEF C
  <2> QED BY <2>3, <2>4
<1>11. (IF Of(qs, "remote") = {} THEN Null ELSE qs[Max(Of(qs, "remote"))].usd)
         = IF r.kind = "remote" THEN r.usd ELSE Fold(rs).remote
  <2> DEFINE B == Of(rs, "remote")
             C == Of(qs, "remote")
  <2>1. Fold(rs).remote = IF B = {} THEN Null ELSE rs[Max(B)].usd
    BY DEF Fold
  <2>2. C = B \cup New("remote") /\ B \subseteq 1 .. n /\ C \subseteq 1 .. n + 1
    BY <1>3, <1>4
  <2> HIDE DEF B, C
  <2>3. CASE r.kind = "remote"
    <3>1. n + 1 \in C /\ n + 1 \in Nat
      BY <1>1, <2>2, <2>3
    <3>2. Max(C) \in C /\ Max(C) >= n + 1
      BY <2>2, <3>1, FirstAndLast
    <3>3. Max(C) = n + 1
      <4>1. Max(C) \in 1 .. n + 1
        BY <2>2, <3>2
      <4> QED BY <1>1, <3>2, <4>1
    <3> QED BY <1>1, <2>3, <3>1, <3>3 DEF C
  <2>4. CASE r.kind # "remote"
    <3>1. C = B
      BY <2>2, <2>4
    <3>2. CASE B = {}
      BY <2>1, <2>4, <3>1, <3>2 DEF C
    <3>3. CASE B # {}
      <4>1. Max(B) \in B
        BY <1>1, <2>2, <3>3, FirstAndLast
      <4>2. qs[Max(B)] = rs[Max(B)]
        BY <1>1, <2>2, <4>1
      <4> QED BY <2>1, <2>4, <3>1, <3>3, <4>2 DEF C
    <3> QED BY <3>2, <3>3
  <2> QED BY <2>3, <2>4
<1> DEFINE closes == r.kind \in {"settle", "release"}
<1>12. ASSUME NEW c PROVE ClosedIn(qs, c) <=> ClosedIn(rs, c) \/ (closes /\ r.call = c)
  BY <1>1 DEF ClosedIn
<1>13. SumOf(qs, StandingIn(qs))
         = SumOf(rs, StandingIn(rs)) + (IF r.kind = "reserve" THEN r.usd ELSE 0)
           - (IF closes THEN OpenReserve(rs, r.call) ELSE 0)
  <2> DEFINE A == StandingIn(rs)
             T == {i \in Of(rs, "reserve") : rs[i].call = r.call}
  <2>1. A \subseteq 1 .. n /\ T \subseteq 1 .. n
    BY <1>4 DEF StandingIn
  <2>2. \A i \in 1 .. n : i \in Of(qs, "reserve") <=> i \in Of(rs, "reserve")
    BY <1>1 DEF Of
  <2>3. \A i \in 1 .. n : i \in StandingIn(qs) <=> i \in A /\ ~(closes /\ r.call = rs[i].call)
    BY <1>1, <1>12, <2>2 DEF StandingIn
  <2>4. StandingIn(qs) \subseteq 1 .. n + 1
    BY <1>4 DEF StandingIn
  <2>5. r.usd \in Nat
    BY DEF SpendRows
  <2>6. CASE closes
    <3>1. n + 1 \notin StandingIn(qs)
      BY <1>1, <2>6 DEF StandingIn, Of
    <3>2. r.kind # "reserve"
      BY <2>6
    <3>3. CASE ClosedIn(rs, r.call)
      <4>1. StandingIn(qs) = A
        <5>1. \A i \in A : r.call # rs[i].call
          BY <3>3 DEF StandingIn
        <5>2. StandingIn(qs) \subseteq 1 .. n
          BY <1>1, <2>4, <3>1
        <5> HIDE DEF A
        <5> QED BY <2>1, <2>3, <5>1, <5>2
      <4>2. OpenReserve(rs, r.call) = 0
        BY <3>3 DEF OpenReserve
      <4> HIDE DEF A
      <4>3. SumOf(qs, A) = SumOf(rs, A) /\ SumOf(rs, A) \in Nat
        BY <1>5, <2>1
      <4> QED BY <2>6, <3>2, <4>1, <4>2, <4>3 DEF A
    <3>4. CASE ~ClosedIn(rs, r.call)
      <4>1. T \subseteq A
        BY <3>4 DEF StandingIn
      <4>2. StandingIn(qs) = A \ T
        <5>1. \A i \in A : i \in T <=> r.call = rs[i].call
          BY DEF StandingIn
        <5> QED BY <1>1, <2>1, <2>3, <2>4, <2>6, <3>1, <5>1
      <4>3. OpenReserve(rs, r.call) = SumOf(rs, T)
        BY <3>4 DEF OpenReserve
      <4> HIDE DEF A, T
      <4>4. A \ T \subseteq 1 .. n
        BY <2>1
      <4>5. /\ SumOf(qs, A \ T) = SumOf(rs, A \ T) /\ SumOf(rs, A \ T) \in Nat
            /\ SumOf(rs, A) \in Nat /\ SumOf(rs, T) \in Nat /\ IsFiniteSet(A)
        BY <1>5, <2>1, <4>4
      <4>6. SumOf(rs, A) = SumOf(rs, T) + SumOf(rs, A \ T)
        <5>1. \A x \in A : rs[x].usd \in Nat
          BY <1>2, <2>1 DEF SpendRows
        <5> QED BY <4>1, <4>5, <5>1, SumOfSplits
      <4> QED BY <2>6, <3>2, <4>2, <4>3, <4>5, <4>6 DEF A
    <3> QED BY <3>3, <3>4
  <2>7. CASE r.kind = "reserve"
    <3>1. ~closes
      BY <2>7
    <3>2. n + 1 \in StandingIn(qs)
      <4>1. ~ClosedIn(rs, r.call)
        BY <2>7 DEF ClosedIn
      <4>2. ~ClosedIn(qs, r.call)
        BY <1>12, <3>1, <4>1
      <4>3. n + 1 \in Of(qs, "reserve")
        BY <1>1, <2>7 DEF Of
      <4> QED BY <1>1, <4>2, <4>3 DEF StandingIn
    <3>3. StandingIn(qs) = A \cup {n + 1}
      BY <1>1, <2>1, <2>3, <2>4, <3>1, <3>2
    <3> HIDE DEF A
    <3>4. SumOf(qs, A \cup {n + 1}) = SumOf(rs, A) + r.usd /\ SumOf(rs, A) \in Nat
      BY <1>5, <2>1
    <3> QED BY <2>5, <2>7, <3>1, <3>3, <3>4 DEF A
  <2>8. CASE ~closes /\ r.kind # "reserve"
    <3>1. n + 1 \notin StandingIn(qs)
      BY <1>1, <2>8 DEF StandingIn, Of
    <3>2. StandingIn(qs) = A
      <4>1. StandingIn(qs) \subseteq 1 .. n
        BY <1>1, <2>4, <3>1
      <4> HIDE DEF A
      <4> QED BY <2>1, <2>3, <2>8, <4>1
    <3> HIDE DEF A
    <3>3. SumOf(qs, A) = SumOf(rs, A) /\ SumOf(rs, A) \in Nat
      BY <1>5, <2>1
    <3> QED BY <2>8, <3>2, <3>3 DEF A
  <2> QED BY <2>6, <2>7, <2>8
<1> DEFINE paid == SumOf(qs, Of(qs, "settle"))
           calls == Cardinality(Of(qs, "settle"))
           guesses == Cardinality({i \in Of(qs, "settle") : qs[i].estimated})
           standing == SumOf(qs, StandingIn(qs))
           first == IF Of(qs, "baseline") = {} THEN Null ELSE qs[Min(Of(qs, "baseline"))].usd
           last == IF Of(qs, "remote") = {} THEN Null ELSE qs[Max(Of(qs, "remote"))].usd
           said == [as_of |-> n + 1, settled |-> paid, calls |-> calls, estimated |-> guesses,
                    reserved |-> standing, baseline |-> first, remote |-> last]
<1>14. Fold(qs) = said
  BY <1>1 DEF Fold, StandingIn
<1>15. Move(Fold(rs), rs, r) = said
  <2> DEFINE t == Fold(rs)
  <2>1. /\ t.settled = SumOf(rs, Of(rs, "settle"))
        /\ t.calls = Cardinality(Of(rs, "settle"))
        /\ t.estimated = Cardinality({i \in Of(rs, "settle") : rs[i].estimated})
        /\ t.reserved = SumOf(rs, StandingIn(rs))
    BY DEF Fold, StandingIn
  <2>2. t.settled + (IF r.kind = "settle" THEN r.usd ELSE 0) = paid
    BY <1>6, <2>1
  <2>3. t.calls + (IF r.kind = "settle" THEN 1 ELSE 0) = calls
    BY <1>8, <2>1
  <2>4. t.estimated + (IF r.kind = "settle" /\ r.estimated THEN 1 ELSE 0) = guesses
    BY <1>9, <2>1
  <2>5. t.reserved + (IF r.kind = "reserve" THEN r.usd ELSE 0)
          - (IF closes THEN OpenReserve(rs, r.call) ELSE 0) = standing
    BY <1>13, <2>1
  <2>6. (IF r.kind = "baseline" /\ t.baseline = Null THEN r.usd ELSE t.baseline) = first
    BY <1>10
  <2>7. (IF r.kind = "remote" THEN r.usd ELSE t.remote) = last
    BY <1>11
  <2> HIDE DEF t, paid, calls, guesses, standing, first, last
  <2>8. Move(t, rs, r) =
          [as_of     |-> n + 1,
           settled   |-> t.settled + (IF r.kind = "settle" THEN r.usd ELSE 0),
           calls     |-> t.calls + (IF r.kind = "settle" THEN 1 ELSE 0),
           estimated |-> t.estimated + (IF r.kind = "settle" /\ r.estimated THEN 1 ELSE 0),
           reserved  |-> t.reserved + (IF r.kind = "reserve" THEN r.usd ELSE 0)
                           - (IF closes THEN OpenReserve(rs, r.call) ELSE 0),
           baseline  |-> IF r.kind = "baseline" /\ t.baseline = Null THEN r.usd ELSE t.baseline,
           remote    |-> IF r.kind = "remote" THEN r.usd ELSE t.remote]
    BY DEF Move, n
  <2>9. Move(t, rs, r) = said
    BY <2>2, <2>3, <2>4, <2>5, <2>6, <2>7, <2>8
  <2> QED BY <2>9 DEF t
<1> HIDE DEF said
<1>16. Move(Fold(rs), rs, r) = Fold(qs)
  BY <1>14, <1>15
<1> QED BY <1>16 DEF qs

-----------------------------------------------------------------------------
(* The ledger: while a handle is open nobody writes past it.               *)
LedgerTypeOK ==
  /\ rows \in Seq(SpendRows)
  /\ opened \subseteq Handles
  /\ legacyUp \in BOOLEAN
  /\ total.as_of \in Nat

\* The total says how far it goes, and is the fold of the rows that far; an open handle has
\* brought it up to date.
TotalInv ==
  /\ total.as_of <= Len(rows)
  /\ total.as_of = Len(rows) => total = Fold(rows)
  /\ opened # {} => total.as_of = Len(rows) /\ ~legacyUp

LedgerInv == LedgerTypeOK /\ TotalInv

\* The fold goes as far as the rows.
LEMMA FoldSaysHowFar == \A rs : Fold(rs).as_of = Len(rs)
BY DEF Fold

\* A row that is put in by an open handle.
LEMMA PutKeeps ==
  ASSUME LedgerInv, opened # {}, NEW r \in SpendRows, Put(r),
         r.kind = "reserve" => \A i \in DOMAIN rows : rows[i].call # r.call,
         UNCHANGED <<opened, legacyUp>>
  PROVE  LedgerInv'
<1>1. total = Fold(rows) /\ rows \in Seq(SpendRows) /\ ~legacyUp
  BY DEF LedgerInv, TotalInv, LedgerTypeOK
<1>2. rows' = Append(rows, r) /\ total' = Move(Fold(rows), rows, r)
  BY <1>1 DEF Put
<1>3. total' = Fold(rows')
  BY <1>1, <1>2, MoveFolds
<1>4. rows' \in Seq(SpendRows) /\ Len(rows') \in Nat
  BY <1>1, <1>2
<1>5. total'.as_of = Len(rows')
  BY <1>3, FoldSaysHowFar
<1> QED BY <1>1, <1>3, <1>4, <1>5 DEF LedgerInv, TotalInv, LedgerTypeOK

\* LedgerInv is inductive.
LEMMA LedgerInvariance == ~Overlap => (LedgerSpec => []LedgerInv)
<1> SUFFICES ASSUME ~Overlap PROVE LedgerSpec => []LedgerInv
  OBVIOUS
<1>1. LedgerInit => LedgerInv
  <2> SUFFICES ASSUME LedgerInit PROVE LedgerInv
    OBVIOUS
  <2>1. rows = <<>> /\ total = Fold(rows) /\ opened = {} /\ legacyUp \in BOOLEAN
    BY DEF LedgerInit
  <2>2. total.as_of = 0 /\ Len(rows) = 0 /\ rows \in Seq(SpendRows)
    BY <2>1, FoldSaysHowFar
  <2> QED BY <2>1, <2>2 DEF LedgerInv, LedgerTypeOK, TotalInv
<1>2. LedgerInv /\ [LedgerNext]_ledgerVars => LedgerInv'
  <2> SUFFICES ASSUME LedgerInv, [LedgerNext]_ledgerVars PROVE LedgerInv'
    OBVIOUS
  <2> USE DEF LedgerInv, LedgerTypeOK, TotalInv
  <2>1. ASSUME NEW h \in Handles, Open(h) PROVE LedgerInv'
    <3>1. UNCHANGED <<rows, legacyUp>> /\ opened' \subseteq Handles /\ ~legacyUp
      BY <2>1 DEF Open
    <3>2. CASE total.as_of = Len(rows)
      BY <2>1, <3>1, <3>2 DEF Open
    <3>3. CASE total.as_of # Len(rows)
      <4>1. total' = Fold(rows)
        BY <2>1, <3>3 DEF Open
      <4>2. total'.as_of = Len(rows) /\ Len(rows) \in Nat
        BY <4>1, FoldSaysHowFar
      <4> QED BY <3>1, <4>1, <4>2
    <3> QED BY <3>2, <3>3
  <2>2. ASSUME NEW h \in Handles, Close(h) PROVE LedgerInv'
    BY <2>2 DEF Close
  <2>3. ASSUME NEW h \in Handles, ReadForRemote(h) PROVE LedgerInv'
    BY <2>3 DEF ReadForRemote
  <2>4. ASSUME NEW h \in Handles, NEW c \in Calls, Release(h, c) PROVE LedgerInv'
    <3>1. Row("release", c, 0, FALSE) \in SpendRows /\ Row("release", c, 0, FALSE).kind = "release"
      BY DEF Row, SpendRows, RowKinds
    <3> QED BY <2>4, <3>1, PutKeeps DEF Release
  <2>5. ASSUME NEW h \in Handles, NEW usd \in Amounts,
               RecordBaseline(h, usd) \/ RecordRemote(h, usd)
        PROVE  LedgerInv'
    <3>1. usd \in Nat
      BY LedgerAssumption
    <3>2. \A k \in {"baseline", "remote"} :
            Row(k, Null, usd, FALSE) \in SpendRows /\ Row(k, Null, usd, FALSE).kind = k
      BY <3>1 DEF Row, SpendRows, RowKinds
    <3>3. opened # {} /\ UNCHANGED <<opened, legacyUp>>
      BY <2>5 DEF RecordBaseline, RecordRemote
    <3>4. CASE Put(Row("baseline", Null, usd, FALSE)) \/ Put(Row("remote", Null, usd, FALSE))
      BY <3>2, <3>3, <3>4, PutKeeps
    <3>5. CASE UNCHANGED <<rows, total>>
      BY <3>3, <3>5
    <3> QED BY <2>5, <3>4, <3>5 DEF RecordBaseline, RecordRemote
  <2>6. ASSUME NEW h \in Handles, NEW c \in Calls, NEW usd \in Amounts, Reserve(h, c, usd)
        PROVE  LedgerInv'
    <3>1. /\ Row("reserve", c, usd, FALSE) \in SpendRows
          /\ Row("reserve", c, usd, FALSE).call = c
      BY LedgerAssumption DEF Row, SpendRows, RowKinds
    <3>2. \A i \in DOMAIN rows : rows[i].call # c
      BY <2>6 DEF Reserve, Known
    <3> QED BY <2>6, <3>1, <3>2, PutKeeps DEF Reserve
  <2>7. ASSUME NEW h \in Handles, NEW c \in Calls, NEW usd \in Amounts, NEW e \in BOOLEAN,
               Settle(h, c, usd, e)
        PROVE  LedgerInv'
    <3>1. /\ Row("settle", c, usd, e) \in SpendRows
          /\ Row("settle", c, usd, e).kind = "settle"
      BY LedgerAssumption DEF Row, SpendRows, RowKinds
    <3> QED BY <2>7, <3>1, PutKeeps DEF Settle
  <2>8. CASE LegacyAppend
    <3>1. PICK r : r \in SpendRows /\ rows' = Append(rows, r)
      <4>1. 0 \in Nat /\ Amounts \subseteq Nat
        BY LedgerAssumption
      <4>2. CASE \E c \in Calls, usd \in Amounts : rows' = Append(rows, Row("reserve", c, usd, FALSE))
        BY <4>1, <4>2 DEF Row, SpendRows, RowKinds
      <4>3. CASE \E c \in Calls, usd \in Amounts, e \in BOOLEAN :
                   rows' = Append(rows, Row("settle", c, usd, e))
        BY <4>1, <4>3 DEF Row, SpendRows, RowKinds
      <4>4. CASE \E c \in Calls : rows' = Append(rows, Row("release", c, 0, FALSE))
        BY <4>1, <4>4 DEF Row, SpendRows, RowKinds
      <4>5. CASE \E usd \in Amounts :
                   rows' = Append(rows, Row(IF Of(rows, "baseline") = {} THEN "baseline" ELSE "remote",
                                            Null, usd, FALSE))
        BY <4>1, <4>5 DEF Row, SpendRows, RowKinds
      <4> QED BY <2>8, <4>2, <4>3, <4>4, <4>5 DEF LegacyAppend
    <3>3. rows' \in Seq(SpendRows) /\ Len(rows') = Len(rows) + 1 /\ Len(rows) \in Nat
      BY <3>1
    <3>4. UNCHANGED <<total, opened, legacyUp>> /\ legacyUp
      BY <2>8 DEF LegacyAppend
    <3> QED BY <3>3, <3>4
  <2>9. CASE LegacyStop
    BY <2>9 DEF LegacyStop
  <2>10. CASE UNCHANGED ledgerVars
    BY <2>10 DEF ledgerVars
  <2> HIDE DEF LedgerInv, LedgerTypeOK, TotalInv
  <2> QED BY <2>1, <2>2, <2>3, <2>4, <2>5, <2>6, <2>7, <2>8, <2>9, <2>10 DEF LedgerNext
<1> QED BY <1>1, <1>2, PTL DEF LedgerSpec

\* What a spend check reads through an open ledger is the fold of the whole table, once the
\* process of the version before has stopped writing when one of this version opens: for any
\* number of processes, calls, prices and rows, one transaction at a time.
THEOREM OpenLedgerTheorem == ~Overlap => (LedgerSpec => []OpenLedgerIsExact)
<1>1. LedgerInv => OpenLedgerIsExact
  BY DEF LedgerInv, TotalInv, OpenLedgerIsExact
<1> QED BY <1>1, LedgerInvariance, PTL

(***************************************************************************)
(* Hours.                                                                  *)
(***************************************************************************)
RowStates == {"none", "pending", "lost", "logged"}
HoursRows == [state : RowStates, cents : Nat, month : MonthEnds \cup {Unbilled}]

HoursTypeOK ==
  /\ today \in Workdays
  /\ monthsDue \subseteq MonthEnds /\ waiting \subseteq MonthEnds
  /\ sheet \in [Rows -> HoursRows]
  /\ work \in [MonthEnds -> [Customers -> Nat]]
  /\ issued \in [MonthEnds -> [Customers -> Nat]]
  /\ prices \in Nat /\ prices >= PriceUnit
  /\ engaged \in [MonthEnds -> [Customers -> Nat]]

\* The rows that are on the bills of month m.
BilledFor(rs, m) == {r \in Rows : rs[r].month = m}

\* What is on a bill was logged, and is not touched by what the days still bring.
BilledIsLogged(rs) == \A r \in Rows : rs[r].month # Unbilled => rs[r].state = "logged"

\* A month whose run is still to come has nothing on its bills, and its run comes once.
BilledOnce ==
  /\ monthsDue \cap waiting = {}
  /\ \A m \in monthsDue \cup waiting :
       /\ BilledFor(sheet, m) = {}
       /\ \A c \in Customers : work[m][c] = 0 /\ issued[m][c] = 0

\* What bills is that come to month m is what was logged for it, less what does not divide.
Covered(bills, rs, m) ==
  /\ AddUp(bills[m], Customers) <= CentsOf(rs, BilledFor(rs, m))
  /\ CentsOf(rs, BilledFor(rs, m)) - AddUp(bills[m], Customers) < Cardinality(Customers)

\* The amounts of month m are its work at one price list, of those up to the list as it is.
AtOnePrice(bills, amounts, list, m) ==
  \E p \in PriceUnit .. list :
    \A c \in Customers : amounts[m][c] = Rounded(bills[m][c] * p, PriceUnit)

HoursInv ==
  /\ HoursTypeOK
  /\ BilledIsLogged(sheet)
  /\ BilledOnce
  /\ \A m \in MonthEnds : Covered(work, sheet, m) /\ AtOnePrice(work, issued, prices, m)

\* The facts of the constants that the proofs need.
LEMMA HoursConstants ==
  /\ Workdays \subseteq Nat /\ Workdays # {} /\ IsFiniteSet(Workdays) /\ MonthEnds \subseteq Workdays
  /\ IsFiniteSet(Rows) /\ IsFiniteSet(Customers) /\ Customers # {}
  /\ Cardinality(Customers) \in Nat \ {0}
  /\ Minutes \subseteq Nat /\ Matters \subseteq Nat
  /\ Unbilled \notin MonthEnds
  /\ PriceUnit \in Nat \ {0} /\ RiseTenths \in Nat /\ RiseTenths >= 10
<1>1. IsFiniteSet(Earners \X Workdays)
  BY HoursAssumption, FS_Product
<1>2. Cardinality(Customers) \in Nat /\ (Cardinality(Customers) = 0 <=> Customers = {})
  BY HoursAssumption, FS_CardinalityType, FS_EmptySet
<1>3. \A m \in MonthEnds : m \in Nat
  BY HoursAssumption
<1>4. Unbilled \notin Nat
  BY DEF Unbilled
<1> QED BY <1>1, <1>2, <1>3, <1>4, HoursAssumption DEF Rows

LEMMA CentsAddUp ==
  ASSUME NEW rs, NEW S, IsFiniteSet(S)
  PROVE  CentsOf(rs, S) = AddUp(FieldOf(rs, "cents", S), S)
<1>1. CentsOf(rs, S) = (CHOOSE g : ByField(g, rs, "cents", SUBSET S))[S]
  BY DEF CentsOf, MapThenSumSet, MapThenFoldSet, ByField, Pick
<1> QED BY <1>1, FieldsAddUp

\* Only the cents of the rows summed over count.
LEMMA CentsExtend ==
  ASSUME NEW rs, NEW qs, NEW S, IsFiniteSet(S), \A x \in S : rs[x].cents = qs[x].cents
  PROVE  CentsOf(rs, S) = CentsOf(qs, S)
<1>1. FieldOf(rs, "cents", S) = FieldOf(qs, "cents", S)
  BY DEF FieldOf
<1> QED BY <1>1, CentsAddUp

\* They come to a whole number of cents, and to none where there are no rows.
LEMMA CentsAreWhole ==
  ASSUME NEW rs, NEW S, IsFiniteSet(S), \A x \in S : rs[x].cents \in Nat
  PROVE  CentsOf(rs, S) \in Nat /\ (S = {} => CentsOf(rs, S) = 0)
<1> DEFINE f == FieldOf(rs, "cents", S)
<1>1. \A x \in S : f[x] \in Nat
  BY DEF FieldOf
<1>2. CentsOf(rs, S) = AddUp(f, S)
  BY CentsAddUp
<1> HIDE DEF f
<1>3. AddUp(f, S) \in Nat
  BY <1>1, AddUpTakesOut
<1>4. S = {} => AddUp(f, S) = 0
  BY AddUpUnfolds
<1> QED BY <1>2, <1>3, <1>4

\* What a function comes to that is nothing anywhere.
LEMMA NothingAddsUpToNothing ==
  ASSUME NEW f, NEW S, IsFiniteSet(S), \A x \in S : f[x] = 0
  PROVE  AddUp(f, S) = 0
<1> DEFINE Bad == {s \in SUBSET S : AddUp(f, s) # 0}
<1>1. \A s \in SUBSET S : IsFiniteSet(s) /\ Cardinality(s) \in Nat
  BY FS_Subset, FS_CardinalityType
<1>2. Bad = {}
  <2> SUFFICES ASSUME Bad # {} PROVE FALSE
    OBVIOUS
  <2>1. PICK s \in Bad : \A t \in Bad : Cardinality(s) <= Cardinality(t)
    BY <1>1, LeastSet
  <2>2. s \in SUBSET S /\ AddUp(f, s) # 0
    BY <2>1
  <2>3. s # {} /\ AddUp(f, s) = f[Pick(s)] + AddUp(f, s \ {Pick(s)})
    BY <1>1, <2>2, AddUpUnfolds
  <2>4. Pick(s) \in s
    BY <2>3 DEF Pick
  <2> DEFINE t == s \ {Pick(s)}
  <2>5. t \in SUBSET S /\ Cardinality(t) = Cardinality(s) - 1
    BY <1>1, <2>2, <2>4, FS_RemoveElement
  <2>6. t \notin Bad
    <3> HIDE DEF Bad, t
    <3> QED BY <1>1, <2>1, <2>2, <2>5
  <2>7. AddUp(f, t) = 0
    BY <2>5, <2>6
  <2> QED BY <2>2, <2>3, <2>4, <2>7
<1> QED BY <1>2

-----------------------------------------------------------------------------
(* The shares of a total. *)

\* A share is rounded down, by less than a cent.
LEMMA DivRoundsDown ==
  ASSUME NEW a \in Nat, NEW d \in Nat \ {0}
  PROVE  a \div d \in Nat /\ d * (a \div d) <= a /\ a <= d * (a \div d) + (d - 1)
OBVIOUS

\* One more share is within its bounds, if it and the others are.
LEMMA OneMoreShare ==
  ASSUME NEW d \in Nat, NEW t \in Nat, NEW n \in Nat,
         NEW w \in Nat, NEW f \in Nat, NEW v \in Nat, NEW e \in Nat,
         d * f <= t * w, t * w <= d * f + (d - 1) * n,
         d * e <= t * v, t * v <= d * e + (d - 1)
  PROVE  d * (e + f) <= t * (v + w) /\ t * (v + w) <= d * (e + f) + (d - 1) * (n + 1)
OBVIOUS

LEMMA SharesOfTheWhole ==
  ASSUME NEW d \in Nat \ {0}, NEW t \in Nat, NEW b \in Nat, NEW n \in Nat \ {0},
         d * b <= t * d, t * d <= d * b + (d - 1) * n
  PROVE  b <= t /\ t - b < n
OBVIOUS

\* Shares of a total by weight come to it, but for less than a cent each.
LEMMA SharesAddUp ==
  ASSUME NEW weight, NEW share, NEW S, IsFiniteSet(S), S # {},
         \A x \in S : weight[x] \in Nat,
         NEW t \in Nat, AddUp(weight, S) # 0,
         \A x \in S : share[x] = (t * weight[x]) \div AddUp(weight, S)
  PROVE  /\ \A x \in S : share[x] \in Nat
         /\ AddUp(share, S) <= t /\ t - AddUp(share, S) < Cardinality(S)
<1> DEFINE d == AddUp(weight, S)
           Fits(s) == /\ d * AddUp(share, s) <= t * AddUp(weight, s)
                      /\ t * AddUp(weight, s) <= d * AddUp(share, s) + (d - 1) * Cardinality(s)
           Bad == {s \in SUBSET S : ~ Fits(s)}
<1>1. d \in Nat \ {0}
  BY AddUpTakesOut
<1>2. ASSUME NEW x \in S
      PROVE  /\ share[x] \in Nat
             /\ d * share[x] <= t * weight[x] /\ t * weight[x] <= d * share[x] + (d - 1)
  <2> DEFINE a == t * weight[x]
  <2>1. a \in Nat /\ share[x] = a \div d
    OBVIOUS
  <2> HIDE DEF a, d
  <2>2. a \div d \in Nat /\ d * (a \div d) <= a /\ a <= d * (a \div d) + (d - 1)
    BY <1>1, <2>1, DivRoundsDown
  <2> QED BY <2>1, <2>2 DEF a
<1>3. ASSUME NEW s \in SUBSET S
      PROVE  /\ IsFiniteSet(s) /\ Cardinality(s) \in Nat
             /\ AddUp(share, s) \in Nat /\ AddUp(weight, s) \in Nat
  <2>1. IsFiniteSet(s)
    BY FS_Subset
  <2> QED BY <1>2, <2>1, FS_CardinalityType, AddUpTakesOut
<1> HIDE DEF d
<1>4. Bad = {}
  <2> SUFFICES ASSUME Bad # {} PROVE FALSE
    OBVIOUS
  <2>1. PICK s \in Bad : \A u \in Bad : Cardinality(s) <= Cardinality(u)
    BY <1>3, LeastSet
  <2>2. s \in SUBSET S /\ ~ Fits(s)
    BY <2>1
  <2>3. CASE s = {}
    <3>1. AddUp(share, s) = 0 /\ AddUp(weight, s) = 0 /\ Cardinality(s) = 0
      BY <2>3, FS_EmptySet, AddUpUnfolds
    <3> QED BY <1>1, <2>2, <3>1
  <2>4. CASE s # {}
    <3>1. PICK x \in s : TRUE
      BY <2>4
    <3> DEFINE u == s \ {x}
    <3>2. u \in SUBSET S /\ x \in S /\ Cardinality(u) = Cardinality(s) - 1
      BY <1>3, <2>2, FS_RemoveElement
    <3>3. Fits(u)
      <4>1. u \notin Bad
        <5> HIDE DEF Bad, u
        <5> QED BY <1>3, <2>1, <2>2, <3>2
      <4> QED BY <3>2, <4>1
    <3>4. AddUp(share, s) = share[x] + AddUp(share, u) /\ AddUp(weight, s) = weight[x] + AddUp(weight, u)
      <4>1. \A y \in s : share[y] \in Nat /\ weight[y] \in Nat
        BY <1>2, <2>2
      <4> QED BY <1>3, <2>2, <4>1, AddUpTakesOut
    <3>5. Cardinality(s) = Cardinality(u) + 1
      BY <1>3, <2>2, <3>2
    <3> DEFINE n == Cardinality(u)
               w == AddUp(weight, u)
               f == AddUp(share, u)
               v == weight[x]
               e == share[x]
    <3>6. n \in Nat /\ w \in Nat /\ f \in Nat /\ v \in Nat /\ e \in Nat
      BY <1>2, <1>3, <3>2
    <3>7. /\ d * f <= t * w /\ t * w <= d * f + (d - 1) * n
          /\ d * e <= t * v /\ t * v <= d * e + (d - 1)
      BY <1>2, <3>2, <3>3
    <3>8. ~ (/\ d * (e + f) <= t * (v + w)
             /\ t * (v + w) <= d * (e + f) + (d - 1) * (n + 1))
      BY <2>2, <3>4, <3>5
    <3> HIDE DEF n, w, f, v, e
    <3> QED BY <1>1, <3>6, <3>7, <3>8, OneMoreShare
  <2> QED BY <2>3, <2>4
<1>5. Fits(S)
  BY <1>4
<1> DEFINE b == AddUp(share, S)
           n == Cardinality(S)
<1>6. b \in Nat /\ n \in Nat \ {0}
  BY <1>3, FS_EmptySet, FS_CardinalityType
<1>7. d * b <= t * d /\ t * d <= d * b + (d - 1) * n
  BY <1>5 DEF d
<1>8. b <= t /\ t - b < n
  <2> HIDE DEF b, n
  <2> QED BY <1>1, <1>6, <1>7, SharesOfTheWhole
<1> QED BY <1>2, <1>8

-----------------------------------------------------------------------------
(* A day writes hours down, and touches none that are on a bill. *)

\* From rs to qs, nothing that is on a bill has changed, and nothing has come to be on one.
LeavesTheBills(rs, qs) ==
  /\ qs \in [Rows -> HoursRows]
  /\ \A r \in Rows : qs[r].month = rs[r].month /\ (rs[r].month # Unbilled => qs[r] = rs[r])

LEMMA RowEdits ==
  ASSUME NEW w \in HoursRows, NEW s \in RowStates, NEW c \in Nat
  PROVE  /\ [w EXCEPT !.state = s] \in HoursRows /\ [w EXCEPT !.state = s].month = w.month
         /\ [w EXCEPT !.state = s, !.cents = c] \in HoursRows
         /\ [w EXCEPT !.state = s, !.cents = c].month = w.month
BY DEF HoursRows

LEMMA RowIsMarked ==
  ASSUME NEW w \in HoursRows, NEW m \in MonthEnds
  PROVE  /\ [w EXCEPT !.month = m] \in HoursRows
         /\ [w EXCEPT !.month = m].month = m /\ [w EXCEPT !.month = m].cents = w.cents
         /\ [w EXCEPT !.month = m].state = w.state
BY DEF HoursRows

LEMMA NoRowIsARow ==
  NoRow \in HoursRows /\ NoRow.month = Unbilled
BY DEF NoRow, HoursRows, RowStates

\* What is rounded is a whole number, and not less than what it is rounded down to.
LEMMA RoundedIsWhole ==
  ASSUME NEW n \in Nat, NEW d \in Nat \ {0}
  PROVE  Rounded(n, d) \in Nat /\ Rounded(n, d) >= n \div d
<1>1. n \div d \in Nat
  BY DivRoundsDown
<1>2. Rounded(n, d) = n \div d \/ Rounded(n, d) = n \div d + 1
  BY DEF Rounded
<1> QED BY <1>1, <1>2

\* A price list that is raised is not lowered.
LEMMA PricesRise ==
  ASSUME NEW p \in Nat
  PROVE  Rounded(p * RiseTenths, 10) \in Nat /\ Rounded(p * RiseTenths, 10) >= p
<1> DEFINE a == p * RiseTenths
<1>1. a \in Nat /\ a >= 10 * p
  BY HoursConstants
<1>2. a \div 10 >= p
  <2> HIDE DEF a
  <2> QED BY <1>1
<1> HIDE DEF a
<1>3. Rounded(a, 10) \in Nat /\ Rounded(a, 10) >= a \div 10
  BY <1>1, RoundedIsWhole
<1>4. a \div 10 \in Nat
  BY <1>1
<1> QED BY <1>2, <1>3, <1>4 DEF a

\* What is remembered is a number of cents.
LEMMA RememberedIsWhole ==
  ASSUME NEW cents \in Nat, NEW late \in Int
  PROVE  Remembered(cents, late) \in Nat
<1> DEFINE k == 10 - late * ForgetTenths
<1>1. late * ForgetTenths \in Int
  BY HoursAssumption
<1>2. CASE late * ForgetTenths > 10
  BY <1>2 DEF Remembered
<1>3. CASE ~ (late * ForgetTenths > 10)
  <2>1. k \in Nat /\ Remembered(cents, late) = Rounded(cents * k, 10)
    BY <1>1, <1>3 DEF Remembered
  <2> HIDE DEF k
  <2> DEFINE a == cents * k
  <2>2. a \in Nat
    BY <2>1
  <2>3. Remembered(cents, late) = Rounded(a, 10)
    BY <2>1
  <2> HIDE DEF a
  <2> QED BY <2>2, <2>3, RoundedIsWhole
<1> QED BY <1>2, <1>3

LEMMA WorkedLeavesTheBills ==
  ASSUME NEW rs \in [Rows -> HoursRows], BilledIsLogged(rs), NEW present,
         NEW drawn \in [Earners -> Minutes]
  PROVE  LeavesTheBills(rs, Worked(rs, present, drawn))
<1> DEFINE qs == Worked(rs, present, drawn)
           new(r) == [NoRow EXCEPT !.state = "pending", !.cents = drawn[r[1]]]
<1>1. ASSUME NEW r \in Rows PROVE new(r) \in HoursRows /\ new(r).month = Unbilled
  <2>1. drawn[r[1]] \in Nat
    BY HoursConstants DEF Rows
  <2> QED BY <2>1, NoRowIsARow, RowEdits DEF RowStates
<1>2. qs = [r \in Rows |-> IF r[2] = today /\ r[1] \in present /\ rs[r].state = "none" THEN new(r) ELSE rs[r]]
  BY DEF Worked
<1> HIDE DEF qs, new
<1>3. ASSUME NEW r \in Rows
      PROVE  qs[r] \in HoursRows /\ qs[r].month = rs[r].month /\ (rs[r].month # Unbilled => qs[r] = rs[r])
  <2>1. CASE rs[r].state = "none"
    <3>1. rs[r].month = Unbilled
      BY <2>1 DEF BilledIsLogged
    <3> QED BY <1>1, <1>2, <3>1
  <2>2. CASE rs[r].state # "none"
    BY <1>2, <2>2
  <2> QED BY <2>1, <2>2
<1> QED BY <1>2, <1>3 DEF LeavesTheBills, qs

LEMMA LostLeavesTheBills ==
  ASSUME NEW rs \in [Rows -> HoursRows], BilledIsLogged(rs)
  PROVE  LeavesTheBills(rs, Lost(rs))
<1> DEFINE qs == Lost(rs)
<1>1. qs = [r \in Rows |-> IF rs[r].state = "pending" /\ r[2] <= today - LostAfterDays
                             THEN [rs[r] EXCEPT !.state = "lost"] ELSE rs[r]]
  BY DEF Lost
<1> HIDE DEF qs
<1>2. ASSUME NEW r \in Rows
      PROVE  qs[r] \in HoursRows /\ qs[r].month = rs[r].month /\ (rs[r].month # Unbilled => qs[r] = rs[r])
  <2> DEFINE w == rs[r]
  <2>1. w \in HoursRows /\ [w EXCEPT !.state = "lost"] \in HoursRows /\ [w EXCEPT !.state = "lost"].month = w.month
    BY RowEdits DEF RowStates
  <2>2. qs[r] = w \/ (w.state = "pending" /\ qs[r] = [w EXCEPT !.state = "lost"])
    BY <1>1
  <2>3. w.month # Unbilled => w.state # "pending"
    BY DEF BilledIsLogged
  <2> HIDE DEF w
  <2> QED BY <2>1, <2>2, <2>3 DEF w
<1> QED BY <1>1, <1>2 DEF LeavesTheBills, qs

LEMMA LoggedLeavesTheBills ==
  ASSUME NEW rs \in [Rows -> HoursRows], BilledIsLogged(rs), NEW who, today \in Workdays
  PROVE  LeavesTheBills(rs, Logged(rs, who))
<1> DEFINE qs == Logged(rs, who)
           down(r) == [rs[r] EXCEPT !.state = "logged", !.cents = Remembered(@, today - r[2])]
<1>1. qs = [r \in Rows |-> IF rs[r].state = "pending" /\ r[1] \in who THEN down(r) ELSE rs[r]]
  BY DEF Logged
<1> HIDE DEF qs
<1>2. ASSUME NEW r \in Rows
      PROVE  qs[r] \in HoursRows /\ qs[r].month = rs[r].month /\ (rs[r].month # Unbilled => qs[r] = rs[r])
  <2> DEFINE w == rs[r]
             c == Remembered(w.cents, today - r[2])
  <2>1. w \in HoursRows /\ w.cents \in Nat
    BY DEF HoursRows
  <2>2. c \in Nat
    <3>1. r[2] \in Workdays
      BY DEF Rows
    <3>2. today \in Nat /\ r[2] \in Nat
      BY <3>1, HoursConstants
    <3> DEFINE cents == w.cents
               late == today - r[2]
    <3>3. cents \in Nat /\ late \in Int
      BY <2>1, <3>2
    <3> HIDE DEF cents, late
    <3>4. Remembered(cents, late) \in Nat
      BY <3>3, RememberedIsWhole
    <3> QED BY <3>4 DEF cents, late
  <2>3. down(r) = [w EXCEPT !.state = "logged", !.cents = c]
    BY Zenon
  <2> HIDE DEF w, c, down
  <2>4. down(r) \in HoursRows /\ down(r).month = w.month
    BY <2>1, <2>2, <2>3 DEF HoursRows, RowStates
  <2>5. qs[r] = w \/ (w.state = "pending" /\ qs[r] = down(r))
    BY <1>1 DEF w
  <2>6. w.month # Unbilled => w.state # "pending"
    BY DEF BilledIsLogged, w
  <2> QED BY <2>1, <2>4, <2>5, <2>6 DEF w
<1> QED BY <1>1, <1>2 DEF LeavesTheBills, qs

\* All that the end of a day does to the rows.
LEMMA DaysLeaveTheBills ==
  ASSUME NEW rs \in [Rows -> HoursRows], BilledIsLogged(rs), today \in Workdays,
         NEW present, NEW drawn \in [Earners -> Minutes], NEW who
  PROVE  LeavesTheBills(rs, Logged(Lost(Worked(rs, present, drawn)), who))
<1> DEFINE a == Worked(rs, present, drawn)
           b == Lost(a)
           c == Logged(b, who)
<1>1. LeavesTheBills(rs, a)
  BY WorkedLeavesTheBills
<1>2. a \in [Rows -> HoursRows] /\ BilledIsLogged(a)
  BY <1>1 DEF LeavesTheBills, BilledIsLogged
<1> HIDE DEF a
<1>3. LeavesTheBills(a, b)
  BY <1>2, LostLeavesTheBills
<1>4. b \in [Rows -> HoursRows] /\ BilledIsLogged(b)
  BY <1>2, <1>3 DEF LeavesTheBills, BilledIsLogged
<1> HIDE DEF b
<1>5. LeavesTheBills(b, c)
  BY <1>4, LoggedLeavesTheBills
<1> HIDE DEF c
<1>6. LeavesTheBills(rs, c)
  BY <1>1, <1>3, <1>5 DEF LeavesTheBills
<1> QED BY <1>6 DEF a, b, c

\* What a bill stands for is still there after it.
LEMMA StillCovered ==
  ASSUME NEW rs \in [Rows -> HoursRows], NEW qs, LeavesTheBills(rs, qs), BilledIsLogged(rs)
  PROVE  /\ BilledIsLogged(qs)
         /\ \A m \in MonthEnds : /\ BilledFor(qs, m) = BilledFor(rs, m)
                                 /\ CentsOf(qs, BilledFor(qs, m)) = CentsOf(rs, BilledFor(rs, m))
<1>1. BilledIsLogged(qs)
  BY DEF LeavesTheBills, BilledIsLogged
<1>2. ASSUME NEW m \in MonthEnds
      PROVE  /\ BilledFor(qs, m) = BilledFor(rs, m)
             /\ CentsOf(qs, BilledFor(qs, m)) = CentsOf(rs, BilledFor(rs, m))
  <2> DEFINE S == BilledFor(rs, m)
  <2>1. BilledFor(qs, m) = S
    BY DEF BilledFor, LeavesTheBills
  <2>2. IsFiniteSet(S)
    <3>1. S \subseteq Rows
      BY DEF BilledFor
    <3> QED BY <3>1, HoursConstants, FS_Subset
  <2>3. \A r \in S : qs[r].cents = rs[r].cents
    BY HoursConstants DEF BilledFor, LeavesTheBills
  <2> HIDE DEF S
  <2>4. CentsOf(qs, S) = CentsOf(rs, S)
    BY <2>2, <2>3, CentsExtend
  <2> QED BY <2>1, <2>4 DEF S
<1> QED BY <1>1, <1>2

-----------------------------------------------------------------------------
(* The run of a month. *)

\* Rows hold whole numbers of cents, and there are finitely many.
LEMMA HoursAreWhole ==
  ASSUME NEW rs \in [Rows -> HoursRows], NEW S, S \subseteq Rows
  PROVE  IsFiniteSet(S) /\ CentsOf(rs, S) \in Nat /\ (S = {} => CentsOf(rs, S) = 0)
<1>1. IsFiniteSet(S)
  BY HoursConstants, FS_Subset
<1>2. \A r \in S : rs[r].cents \in Nat
  BY DEF HoursRows
<1> QED BY <1>1, <1>2, CentsAreWhole

\* Who has a matter gets a share, and the shares come to the total.
LEMMA SharesAreTheTotal ==
  ASSUME HoursTypeOK, NEW m \in MonthEnds, NEW t \in Nat, ~ (\A c \in Customers : engaged[m][c] = 0),
         NEW bill, \A c \in Customers : bill[c] = Share(t, m, c)
  PROVE  /\ \A c \in Customers : bill[c] \in Nat
         /\ AddUp(bill, Customers) <= t /\ t - AddUp(bill, Customers) < Cardinality(Customers)
<1> DEFINE weight == engaged[m]
<1>1. \A c \in Customers : weight[c] \in Nat
  BY DEF HoursTypeOK
<1>2. AddUp(weight, Customers) = MapThenSumSet(LAMBDA d : engaged[m][d], Customers)
  BY DEF AddUp
<1>3. \A c \in Customers : bill[c] = (t * weight[c]) \div AddUp(weight, Customers)
  BY <1>2 DEF Share
<1>4. \E c \in Customers : weight[c] # 0
  OBVIOUS
<1> HIDE DEF weight
<1>5. AddUp(weight, Customers) # 0
  <2>1. PICK c \in Customers : weight[c] # 0
    BY <1>4
  <2>2. AddUp(weight, Customers) = weight[c] + AddUp(weight, Customers \ {c})
    BY <1>1, HoursConstants, AddUpTakesOut
  <2>3. AddUp(weight, Customers \ {c}) \in Nat
    <3>1. IsFiniteSet(Customers \ {c}) /\ \A x \in Customers \ {c} : weight[x] \in Nat
      BY <1>1, HoursConstants, FS_Subset
    <3> QED BY <3>1, AddUpTakesOut
  <2> QED BY <1>1, <2>1, <2>2, <2>3
<1> QED BY <1>1, <1>3, <1>5, HoursConstants, SharesAddUp

\* What month-end m, that had none yet, comes to have on its bills; the others keep theirs.
BilledNow(m) ==
  /\ sheet' \in [Rows -> HoursRows]
  /\ work' \in [MonthEnds -> [Customers -> Nat]] /\ issued' \in [MonthEnds -> [Customers -> Nat]]
  /\ BilledIsLogged(sheet')
  /\ \A k \in MonthEnds : Covered(work', sheet', k) /\ AtOnePrice(work', issued', prices, k)
  /\ \A k \in MonthEnds \ {m} : /\ BilledFor(sheet', k) = BilledFor(sheet, k)
                                /\ work'[k] = work[k] /\ issued'[k] = issued[k]

\* What the work of a month comes to at the price list of the day it is billed.
LEMMA PricedNow ==
  ASSUME NEW m \in MonthEnds, NEW t, work \in [MonthEnds -> [Customers -> Nat]],
         issued \in [MonthEnds -> [Customers -> Nat]], prices \in Nat, prices >= PriceUnit,
         \A c \in Customers : work[m][c] = 0 /\ issued[m][c] = 0,
         \A c \in Customers : Share(t, m, c) \in Nat,
         \A k \in MonthEnds : AtOnePrice(work, issued, prices, k), Invoice(m, t)
  PROVE  /\ issued' \in [MonthEnds -> [Customers -> Nat]]
         /\ \A k \in MonthEnds : AtOnePrice(work', issued', prices, k)
         /\ \A k \in MonthEnds \ {m} : issued'[k] = issued[k]
<1> DEFINE bill == issued'[m]
           part(c) == Share(t, m, c)
           price(c) == Rounded(part(c) * prices, PriceUnit)
<1>1. bill = [c \in Customers |-> issued[m][c] + price(c)] /\ issued' = [issued EXCEPT ![m] = bill]
  BY DEF Invoice
<1>2. ASSUME NEW c \in Customers PROVE price(c) \in Nat
  <2> DEFINE n == part(c) * prices
  <2>1. n \in Nat
    OBVIOUS
  <2> HIDE DEF n
  <2>2. Rounded(n, PriceUnit) \in Nat
    BY <2>1, HoursConstants, RoundedIsWhole
  <2> QED BY <2>2 DEF n
<1>3. ASSUME NEW c \in Customers PROVE work'[m][c] = part(c) /\ bill[c] = price(c)
  <2>1. work'[m][c] = work[m][c] + part(c)
    BY DEF Invoice
  <2>2. part(c) \in Nat /\ price(c) \in Nat
    BY <1>2
  <2>3. bill[c] = issued[m][c] + price(c)
    BY <1>1
  <2> HIDE DEF bill, part, price
  <2> QED BY <2>1, <2>2, <2>3
<1>4. bill \in [Customers -> Nat]
  <2>1. \A c \in Customers : bill[c] \in Nat
    BY <1>2, <1>3
  <2> HIDE DEF price
  <2> QED BY <1>1, <2>1
<1>5. AtOnePrice(work', issued', prices, m)
  <2>1. \A c \in Customers : issued'[m][c] = Rounded(work'[m][c] * prices, PriceUnit)
    BY <1>3
  <2>2. prices \in PriceUnit .. prices
    BY HoursConstants
  <2> QED BY <2>1, <2>2 DEF AtOnePrice
<1> HIDE DEF bill
<1>6. \A k \in MonthEnds \ {m} : issued'[k] = issued[k] /\ work'[k] = work[k]
  BY <1>1 DEF Invoice
<1>7. \A k \in MonthEnds \ {m} : AtOnePrice(work', issued', prices, k)
  BY <1>6 DEF AtOnePrice
<1> QED BY <1>1, <1>4, <1>5, <1>6, <1>7

LEMMA BillHoursBills ==
  ASSUME HoursInv, NEW m \in monthsDue \cup waiting, BillHours(m)
  PROVE  BilledNow(m)
<1> DEFINE taken == Takes(sheet)
           sum == CentsOf(sheet, taken)
<1>0. /\ m \in MonthEnds /\ sheet \in [Rows -> HoursRows]
      /\ work \in [MonthEnds -> [Customers -> Nat]] /\ issued \in [MonthEnds -> [Customers -> Nat]]
      /\ prices \in Nat /\ prices >= PriceUnit
      /\ BilledIsLogged(sheet)
      /\ \A k \in MonthEnds : Covered(work, sheet, k) /\ AtOnePrice(work, issued, prices, k)
      /\ BilledFor(sheet, m) = {} /\ \A c \in Customers : work[m][c] = 0 /\ issued[m][c] = 0
  BY DEF HoursInv, HoursTypeOK, BilledOnce
<1>1. CASE UNCHANGED <<sheet, invoices>>
  BY <1>0, <1>1 DEF BilledNow, Covered, AtOnePrice, invoices
<1>2. CASE /\ ~ (\A c \in Customers : engaged[m][c] = 0)
           /\ Invoice(m, sum)
           /\ sheet' = [r \in Rows |->
                          IF r \in taken THEN [sheet[r] EXCEPT !.month = m] ELSE sheet[r]]
  <2>0. taken \subseteq Rows /\ \A r \in taken : sheet[r].state = "logged" /\ sheet[r].month = Unbilled
    BY DEF Takes
  <2> HIDE DEF taken
  <2>1. sum \in Nat
    BY <1>0, <2>0, HoursAreWhole
  <2>9. HoursTypeOK /\ m \in MonthEnds /\ ~ (\A c \in Customers : engaged[m][c] = 0)
    BY <1>0, <1>2 DEF HoursInv
  <2> HIDE DEF sum
  <2>2. ASSUME NEW r \in Rows
        PROVE  /\ sheet'[r] \in HoursRows /\ sheet'[r].cents = sheet[r].cents
               /\ sheet'[r].state = sheet[r].state
               /\ sheet'[r].month = IF r \in taken THEN m ELSE sheet[r].month
    <3> DEFINE w == sheet[r]
    <3>1. w \in HoursRows /\ sheet'[r] = IF r \in taken THEN [w EXCEPT !.month = m] ELSE w
      BY <1>0, <1>2
    <3> HIDE DEF w
    <3>2. /\ [w EXCEPT !.month = m] \in HoursRows
          /\ [w EXCEPT !.month = m].month = m /\ [w EXCEPT !.month = m].cents = w.cents
          /\ [w EXCEPT !.month = m].state = w.state
      BY <1>0, <3>1, RowIsMarked
    <3> QED BY <3>1, <3>2 DEF w
  <2>3. sheet' \in [Rows -> HoursRows]
    BY <1>2, <2>2
  <2>4. BilledIsLogged(sheet')
    BY <1>0, <2>0, <2>2 DEF BilledIsLogged
  <2>5. BilledFor(sheet', m) = taken
    BY <1>0, <2>0, <2>2 DEF BilledFor
  <2>6. ASSUME NEW k \in MonthEnds \ {m} PROVE BilledFor(sheet', k) = BilledFor(sheet, k)
    BY <2>0, <2>2, HoursConstants DEF BilledFor
  <2> DEFINE bill == work'[m]
  <2>7. /\ work' \in [MonthEnds -> [Customers -> Nat]] /\ Covered(work', sheet', m)
        /\ \A k \in MonthEnds \ {m} : work'[k] = work[k]
        /\ \A c \in Customers : Share(sum, m, c) \in Nat
    <3>1. \A c \in Customers : bill[c] = work[m][c] + Share(sum, m, c)
      BY <1>0, <1>2 DEF Invoice
    <3>2. \A c \in Customers : Share(sum, m, c) \in Nat
      <4> DEFINE part == [c \in Customers |-> Share(sum, m, c)]
      <4>1. \A c \in Customers : part[c] = Share(sum, m, c)
        OBVIOUS
      <4> HIDE DEF part, bill
      <4> QED BY <2>1, <2>9, <4>1, SharesAreTheTotal
    <3>3. \A c \in Customers : bill[c] = Share(sum, m, c)
      BY <1>0, <3>1, <3>2
    <3>4. AddUp(bill, Customers) <= sum /\ sum - AddUp(bill, Customers) < Cardinality(Customers)
      <4> HIDE DEF bill
      <4> QED BY <2>1, <2>9, <3>3, SharesAreTheTotal
    <3>5. CentsOf(sheet', taken) = sum
      <4>1. IsFiniteSet(taken)
        BY <1>0, <2>0, HoursAreWhole
      <4>2. \A r \in taken : sheet'[r].cents = sheet[r].cents
        BY <2>0, <2>2
      <4> QED BY <4>1, <4>2, CentsExtend DEF sum
    <3>6. Covered(work', sheet', m)
      BY <2>5, <3>4, <3>5 DEF Covered
    <3>7. bill \in [Customers -> Nat]
      <4>1. bill = [c \in Customers |-> work[m][c] + Share(sum, m, c)]
        BY <1>0, <1>2 DEF Invoice
      <4> QED BY <3>2, <1>0, <4>1
    <3>8. work' = [work EXCEPT ![m] = bill]
      BY <1>0, <1>2 DEF Invoice
    <3> HIDE DEF bill
    <3> QED BY <1>0, <3>2, <3>6, <3>7, <3>8
  <2>8. ASSUME NEW k \in MonthEnds \ {m} PROVE Covered(work', sheet', k)
    <3> DEFINE S == BilledFor(sheet, k)
    <3>1. S \subseteq Rows /\ BilledFor(sheet', k) = S /\ work'[k] = work[k]
      BY <2>6, <2>7 DEF BilledFor
    <3>2. CentsOf(sheet', S) = CentsOf(sheet, S)
      <4>1. IsFiniteSet(S) /\ \A r \in S : sheet'[r].cents = sheet[r].cents
        <5> HIDE DEF S
        <5> QED BY <1>0, <2>2, <3>1, HoursAreWhole
      <4> HIDE DEF S
      <4> QED BY <4>1, CentsExtend
    <3> QED BY <1>0, <3>1, <3>2 DEF Covered
  <2>10. /\ issued' \in [MonthEnds -> [Customers -> Nat]]
         /\ \A k \in MonthEnds : AtOnePrice(work', issued', prices, k)
         /\ \A k \in MonthEnds \ {m} : issued'[k] = issued[k]
    BY <1>0, <1>2, <2>7, PricedNow
  <2> QED BY <1>0, <2>3, <2>4, <2>6, <2>7, <2>8, <2>10 DEF BilledNow
<1> QED BY <1>1, <1>2 DEF BillHours

LEMMA FirstOfTheMonths ==
  ASSUME NEW S, S \subseteq Workdays, S # {}
  PROVE  Min(S) \in S
<1>1. S \subseteq Nat
  BY HoursConstants
<1>2. \E x \in S : \A y \in S : x <= y
  BY <1>1, LeastNatural
<1> QED BY <1>2 DEF Min

\* A run that may be now waits, bills, or finds nothing to bill; either way it is not due twice.
LEMMA IssueKeeps ==
  ASSUME HoursInv, NEW m \in monthsDue \cup waiting, IssueInvoices(m),
         today' = today, engaged' = engaged, prices' = prices, monthsDue' = monthsDue \ {m}
  PROVE  HoursInv'
<1>0. /\ monthsDue \subseteq MonthEnds /\ waiting \subseteq MonthEnds /\ m \in MonthEnds
      /\ monthsDue \cap waiting = {}
      /\ today' \in Workdays /\ engaged' \in [MonthEnds -> [Customers -> Nat]]
  BY DEF HoursInv, HoursTypeOK, BilledOnce
<1>1. CASE waiting' = waiting \cup {m} /\ UNCHANGED <<sheet, invoices>>
  BY <1>0, <1>1 DEF HoursInv, HoursTypeOK, BilledOnce, Covered, AtOnePrice, invoices
<1>2. CASE waiting' = waiting \ {m} /\ BillHours(m)
  <2>1. BilledNow(m)
    BY <1>2, BillHoursBills
  <2>2. /\ HoursTypeOK' /\ BilledIsLogged(sheet)'
        /\ \A k \in MonthEnds : Covered(work', sheet', k) /\ AtOnePrice(work', issued', prices', k)
    BY <1>0, <1>2, <2>1 DEF BilledNow, HoursInv, HoursTypeOK, BilledIsLogged
  <2>3. BilledOnce'
    <3>1. (monthsDue \cap waiting)' = {}
      BY <1>0, <1>2
    <3>2. ASSUME NEW k \in (monthsDue \cup waiting) \ {m}
          PROVE  BilledFor(sheet', k) = {} /\ \A c \in Customers : work'[k][c] = 0 /\ issued'[k][c] = 0
      BY <1>0, <2>1, <3>2 DEF BilledNow, HoursInv, BilledOnce
    <3> QED BY <1>2, <3>1, <3>2 DEF BilledOnce, BilledFor
  <2> QED BY <2>2, <2>3 DEF HoursInv
<1> QED BY <1>1, <1>2 DEF IssueInvoices

\* Where no invoice, no row and no price moves, it is enough that no more is due than was.
LEMMA NothingNewIsDue ==
  ASSUME HoursInv, UNCHANGED <<today, sheet, work, issued, prices, engaged>>,
         monthsDue' \subseteq monthsDue, waiting' \subseteq waiting
  PROVE  HoursInv'
<1>1. HoursTypeOK'
  BY DEF HoursInv, HoursTypeOK
<1>2. BilledIsLogged(sheet)'
  BY DEF HoursInv, BilledIsLogged
<1>3. \A m \in MonthEnds : BilledFor(sheet', m) = BilledFor(sheet, m)
  BY DEF BilledFor
<1>4. BilledOnce'
  BY <1>3 DEF HoursInv, BilledOnce, BilledFor
<1>5. \A m \in MonthEnds : Covered(work', sheet', m)
  BY DEF HoursInv, Covered, BilledFor
<1>6. \A m \in MonthEnds : AtOnePrice(work', issued', prices', m)
  BY DEF HoursInv, AtOnePrice
<1> QED BY <1>1, <1>2, <1>4, <1>5, <1>6 DEF HoursInv

LEMMA HoursInvariance == HoursSpec => []HoursInv
<1>1. HoursInit => HoursInv
  <2> SUFFICES ASSUME HoursInit PROVE HoursInv
    OBVIOUS
  <2>1. HoursTypeOK
    <3>1. today \in Workdays
      BY HoursConstants, FirstOfTheMonths DEF HoursInit
    <3>2. sheet \in [Rows -> HoursRows]
      BY NoRowIsARow DEF HoursInit
    <3>3. engaged \in [MonthEnds -> [Customers -> Nat]]
      BY HoursConstants DEF HoursInit
    <3> QED BY <3>1, <3>2, <3>3, HoursConstants DEF HoursInit, HoursTypeOK
  <2>2. \A r \in Rows : sheet[r].month = Unbilled
    BY NoRowIsARow DEF HoursInit
  <2>3. BilledIsLogged(sheet)
    BY <2>2 DEF BilledIsLogged
  <2>4. \A m \in MonthEnds : BilledFor(sheet, m) = {}
    BY <2>2, HoursConstants DEF BilledFor
  <2>5. \A m \in MonthEnds : \A c \in Customers : work[m][c] = 0 /\ issued[m][c] = 0
    BY DEF HoursInit
  <2>6. BilledOnce
    BY <2>1, <2>4, <2>5 DEF BilledOnce, HoursInit, HoursTypeOK
  <2>7. ASSUME NEW m \in MonthEnds PROVE Covered(work, sheet, m)
    <3> DEFINE none == {}
               bill == work[m]
    <3>1. BilledFor(sheet, m) = none /\ none \subseteq Rows
      BY <2>4
    <3>2. CentsOf(sheet, none) = 0
      <4> sheet \in [Rows -> HoursRows] /\ none = {}
        BY <2>1 DEF HoursTypeOK
      <4> HIDE DEF none
      <4> QED BY <3>1, HoursAreWhole
    <3>3. AddUp(bill, Customers) = 0
      <4>1. \A c \in Customers : bill[c] = 0
        BY <2>5
      <4> HIDE DEF bill
      <4> QED BY <4>1, HoursConstants, NothingAddsUpToNothing
    <3> QED BY <3>1, <3>2, <3>3, HoursConstants DEF Covered
  <2>8. ASSUME NEW m \in MonthEnds PROVE AtOnePrice(work, issued, prices, m)
    <3>1. 0 * PriceUnit = 0 /\ PriceUnit \in PriceUnit .. prices
      BY HoursConstants DEF HoursInit
    <3>2. Rounded(0, PriceUnit) = 0
      <4>1. 0 \div PriceUnit = 0 /\ 0 % PriceUnit = 0
        BY HoursConstants
      <4> QED BY <4>1, HoursConstants DEF Rounded
    <3>3. \A c \in Customers : issued[m][c] = Rounded(work[m][c] * PriceUnit, PriceUnit)
      BY <2>5, <3>1, <3>2
    <3> QED BY <3>1, <3>3 DEF AtOnePrice
  <2> QED BY <2>1, <2>3, <2>6, <2>7, <2>8 DEF HoursInv
<1>2. HoursInv /\ [HoursNext]_hoursVars => HoursInv'
  <2> SUFFICES ASSUME HoursInv, [HoursNext]_hoursVars PROVE HoursInv'
    OBVIOUS
  <2>0. /\ monthsDue \subseteq MonthEnds /\ waiting \subseteq MonthEnds /\ today \in Workdays
        /\ sheet \in [Rows -> HoursRows] /\ BilledIsLogged(sheet)
    BY DEF HoursInv, HoursTypeOK
  <2>1. CASE UNCHANGED <<today, monthsDue, waiting, sheet, invoices, prices, engaged>>
    BY <2>1, NothingNewIsDue DEF invoices
  <2>2. ASSUME NEW present \in SUBSET Earners, NEW who \in SUBSET Earners,
               NEW drawn \in [Earners -> Minutes], EndOfDay(present, drawn, who)
        PROVE  HoursInv'
    <3>1. today' \in Workdays
      <4>1. {d \in Workdays : d > today} = {} \/ Min({d \in Workdays : d > today}) \in Workdays
        BY FirstOfTheMonths
      <4> QED BY <2>0, <2>2, <4>1 DEF EndOfDay, Following
    <3>2. LeavesTheBills(sheet, sheet')
      <4>1. CASE wound
        BY <2>0, <2>2, <4>1 DEF EndOfDay, LeavesTheBills
      <4>2. CASE ~wound
        <5>1. sheet' = Logged(Lost(Worked(sheet, present, drawn)), who)
          BY <2>2, <4>2 DEF EndOfDay
        <5> QED BY <2>0, <5>1, DaysLeaveTheBills
      <4> QED BY <4>1, <4>2
    <3>3. UNCHANGED <<monthsDue, waiting, work, issued, prices, engaged>>
      BY <2>2 DEF EndOfDay, invoices
    <3> DEFINE qs == sheet'
    <3>4. /\ BilledIsLogged(qs)
          /\ \A m \in MonthEnds : /\ BilledFor(qs, m) = BilledFor(sheet, m)
                                  /\ CentsOf(qs, BilledFor(qs, m)) = CentsOf(sheet, BilledFor(sheet, m))
      <4> HIDE DEF qs
      <4> LeavesTheBills(sheet, qs)
        BY <3>2 DEF qs
      <4> QED BY <2>0, StillCovered
    <3>5. qs \in [Rows -> HoursRows]
      BY <3>2 DEF LeavesTheBills
    <3>6. \A m \in MonthEnds : Covered(work', qs, m) /\ AtOnePrice(work', issued', prices', m)
      BY <3>3, <3>4 DEF HoursInv, Covered, AtOnePrice
    <3>7. BilledOnce'
      BY <2>0, <3>3, <3>4 DEF HoursInv, BilledOnce, BilledFor
    <3>8. HoursTypeOK'
      BY <3>1, <3>3, <3>5 DEF HoursInv, HoursTypeOK
    <3> QED BY <3>4, <3>6, <3>7, <3>8 DEF HoursInv, BilledIsLogged
  <2>3. CASE EndOfMonth
    <3> DEFINE m == Min(monthsDue)
    <3>1. /\ m \in monthsDue /\ monthsDue' = monthsDue \ {m} /\ today' = today /\ engaged' = engaged
          /\ prices' = prices
      <4>1. monthsDue # {} /\ monthsDue \subseteq Workdays
        BY <2>0, <2>3, HoursConstants DEF EndOfMonth, MonthIsDue
      <4> QED BY <2>3, <4>1, FirstOfTheMonths DEF EndOfMonth
    <3>2. CASE wound
      <4>1. UNCHANGED <<waiting, sheet, work, issued>>
        BY <2>3, <3>2 DEF EndOfMonth, invoices
      <4> HIDE DEF m
      <4> QED BY <3>1, <4>1, NothingNewIsDue
    <3>3. CASE ~wound
      <4>1. IssueInvoices(m)
        BY <2>3, <3>3 DEF EndOfMonth
      <4> HIDE DEF m
      <4> QED BY <3>1, <4>1, IssueKeeps
    <3> QED BY <3>2, <3>3
  <2>4. ASSUME NEW m \in MonthEnds, RunAgain(m) PROVE HoursInv'
    <3>1. /\ m \in waiting /\ IssueInvoices(m) /\ today' = today /\ engaged' = engaged
          /\ monthsDue' = monthsDue /\ prices' = prices
      BY <2>4 DEF RunAgain
    <3>2. m \notin monthsDue
      BY <3>1 DEF HoursInv, BilledOnce
    <3>3. monthsDue' = monthsDue \ {m}
      BY <3>1, <3>2
    <3> QED BY <3>1, <3>3, IssueKeeps
  <2>5. CASE ModuleChanges
    BY <2>1, <2>5 DEF ModuleChanges
  <2>6. ASSUME NEW e \in Earners, EarnerLeaves(e) PROVE HoursInv'
    BY <2>1, <2>6 DEF EarnerLeaves
  <2>7. CASE LawFirmFails
    <3>1. waiting' = {} /\ UNCHANGED <<today, monthsDue, sheet, work, issued, prices, engaged>>
      BY <2>7 DEF LawFirmFails, invoices
    <3> QED BY <3>1, NothingNewIsDue
  <2>8. CASE UNCHANGED hoursVars
    BY <2>1, <2>8 DEF hoursVars, invoices
  <2>9. CASE RaisePrices
    <3>1. UNCHANGED <<today, monthsDue, waiting, sheet, work, issued, engaged>>
      BY <2>9 DEF RaisePrices, invoices
    <3>2. prices' \in Nat /\ prices' >= prices /\ prices \in Nat /\ prices >= PriceUnit
      BY <2>9, PricesRise DEF RaisePrices, HoursInv, HoursTypeOK
    <3>3. prices' >= PriceUnit /\ PriceUnit .. prices \subseteq PriceUnit .. prices'
      BY <3>2, HoursConstants
    <3>4. \A m \in MonthEnds : AtOnePrice(work', issued', prices', m)
      BY <3>1, <3>3 DEF HoursInv, AtOnePrice
    <3>5. HoursTypeOK'
      BY <3>1, <3>2, <3>3 DEF HoursInv, HoursTypeOK
    <3>6. BilledIsLogged(sheet)' /\ BilledOnce'
      BY <3>1 DEF HoursInv, BilledIsLogged, BilledOnce, BilledFor
    <3>7. \A m \in MonthEnds : Covered(work', sheet', m)
      BY <3>1 DEF HoursInv, Covered, BilledFor
    <3> QED BY <3>4, <3>5, <3>6, <3>7 DEF HoursInv
  <2> QED BY <2>2, <2>3, <2>4, <2>5, <2>6, <2>7, <2>8, <2>9 DEF HoursNext
<1> QED BY <1>1, <1>2, PTL DEF HoursSpec

\* The clients of a firm are billed, for each month, what was logged and not billed before, less
\* what does not divide by the number of them, at one price list the firm has had, however long the
\* run has to wait, and for any earners, clients, days, sizes of matters, rises and ceiling of prices.
THEOREM BilledHours == HoursSpec => []BillsAreHours
<1>1. HoursInv => BillsAreHours
  <2> SUFFICES ASSUME HoursInv, NEW m \in MonthEnds
               PROVE  /\ LET shares == MapThenSumSet(LAMBDA c : work[m][c], Customers)
                             hours == CentsOf(sheet, {r \in Rows : sheet[r].month = m})
                         IN shares <= hours /\ hours - shares < Cardinality(Customers)
                      /\ \E p \in PriceUnit .. prices :
                           \A c \in Customers : issued[m][c] = Rounded(work[m][c] * p, PriceUnit)
    BY DEF BillsAreHours
  <2>1. Covered(work, sheet, m) /\ AtOnePrice(work, issued, prices, m)
    BY DEF HoursInv
  <2>2. LET shares == MapThenSumSet(LAMBDA c : work[m][c], Customers)
            hours == CentsOf(sheet, {r \in Rows : sheet[r].month = m})
        IN shares <= hours /\ hours - shares < Cardinality(Customers)
    BY <2>1 DEF Covered, AddUp, BilledFor
  <2> QED BY <2>1, <2>2 DEF AtOnePrice
<1> QED BY <1>1, HoursInvariance, PTL

(***************************************************************************)
(* Judgements.                                                             *)
(***************************************************************************)
\* What the twin answers, group by group, is among what is offered.
LEMMA FlowsStay ==
  ASSUME NEW k \in Flows, NEW f \in FactsOf(k), NEW a \in TwinInTheFlows(k, f)
  PROVE  a \in OfferedInTheFlows(k, f)
<1> USE DEF TwinInTheFlows, OfferedInTheFlows, YesOr
<1>1. CASE k = "file.ticket"
  BY <1>1
<1>2. CASE k = "ticket.triage"
  BY <1>2
<1>3. CASE k = "payment.timing"
  BY <1>3
<1>4. CASE k = "cafe.purchase"
  BY <1>4
<1>5. CASE k = "ticket.confirm"
  BY <1>5
<1> QED BY <1>1, <1>2, <1>3, <1>4, <1>5 DEF Flows

LEMMA TickStays ==
  ASSUME NEW f \in FactsOf("agent.tick"), NEW a \in TwinAtATick(f)
  PROVE  a \in OfferedAtATick(f) \/ a.with \in f.present \ Shown(f)
<1>1. f.mind = 2
  <2>1. f \in
          {g \in [org : Firms, here : Places, present : SUBSET Firms, outage : BOOLEAN,
                  dealings : Dealings, mind : {2}, canRaise : BOOLEAN] :
             g.here \in {g.org, Cafe, "plaza"} /\ g.org \notin g.dealings}
    BY DEF FactsOf, Plain
  <2> QED BY <2>1
<1>2. /\ a \in [next : {f.here} \cup IF f.here # f.org THEN {f.org}
                                   ELSE IF f.org = Cafe THEN {} ELSE {Cafe, "plaza"},
                with : {"nobody"} \cup f.present,
                topic : {"none", "small_talk"} \cup IF f.outage THEN {"the_outage"} ELSE {},
                mood : {f.mind}, raise : {FALSE, f.canRaise}]
      /\ (a.with = "nobody") = (a.topic = "none")
      /\ a.raise => a.with # "nobody"
  BY DEF TwinAtATick
<1> DEFINE shown == Shown(f)
<1> HIDE DEF shown
<1>3. CASE a.with \in f.present \ shown
  BY <1>3 DEF shown
<1>4. CASE a.with \in {"nobody"} \cup shown
  <2>1. /\ a.next \in {f.here, f.org, "plaza", Cafe, Vendor}
        /\ a.topic \in {"none", "work", "money", "small_talk", "other"}
                         \cup IF f.outage THEN {"the_outage"} ELSE {}
        /\ a.mood \in 0 .. 3 /\ a.raise \in {FALSE, f.canRaise}
    <3>1. a.next \in {f.here, f.org, "plaza", Cafe, Vendor}
      BY <1>2
    <3>2. a.topic \in {"none", "work", "money", "small_talk", "other"}
                        \cup IF f.outage THEN {"the_outage"} ELSE {}
      BY <1>2
    <3>3. a.mood \in 0 .. 3
      BY <1>1, <1>2
    <3>4. a.raise \in {FALSE, f.canRaise}
      BY <1>2
    <3> QED BY Zenon, <3>1, <3>2, <3>3, <3>4
  <2>2. a = [next |-> a.next, with |-> a.with, topic |-> a.topic, mood |-> a.mood, raise |-> a.raise]
    BY <1>2
  <2>3. a \in [next : {f.here, f.org, "plaza", Cafe, Vendor},
               with : {"nobody"} \cup shown,
               topic : {"none", "work", "money", "small_talk", "other"}
                        \cup IF f.outage THEN {"the_outage"} ELSE {},
               mood : 0 .. 3, raise : {FALSE, f.canRaise}]
    BY <1>4, <2>1, <2>2
  <2> QED BY <1>2, <2>3 DEF OfferedAtATick, shown
<1> QED BY <1>2, <1>3, <1>4

LEMMA OfficeStays ==
  ASSUME NEW k \in Office, NEW f \in FactsOf(k), NEW a \in TwinInTheOffice(k, f)
  PROVE  a \in OfferedInTheOffice(k, f)
<1> USE DEF TwinInTheOffice, OfferedInTheOffice, YesOr, Yes, No, One, Is
<1>1. CASE k = "credit.decision"
  BY <1>1
<1>2. CASE k = "payroll.release"
  BY <1>2
<1>3. CASE k = "close.signoff"
  BY <1>3
<1> QED BY <1>1, <1>2, <1>3 DEF Office

LEMMA RoundStays ==
  ASSUME NEW f \in FactsOf("episode.round"), NEW a \in TwinInARound(f)
  PROVE  a \in OfferedInARound(f)
<1>1. f.role \in Roles /\ {f.promised, f.refused, f.pressed, f.first, f.tellable} \subseteq BOOLEAN
  <2>1. f \in
          [role : Roles, pressed : BOOLEAN, promised : BOOLEAN, refused : BOOLEAN,
           tellable : BOOLEAN, first : BOOLEAN, tense : BOOLEAN]
    BY DEF FactsOf, Plain
  <2> QED BY <2>1
<1>2. TwinActs(f) \subseteq ActsByRole(f.role)
  BY <1>1 DEF TwinActs, ActsByRole, Roles
<1>3. /\ a.act \in ActsByRole(f.role) /\ a.done \in BOOLEAN /\ a.mood \in 0 .. 3
      /\ a.mention \in {FALSE, f.tellable}
      /\ a = [act |-> a.act, done |-> a.done, mood |-> a.mood, mention |-> a.mention]
  <2>1. a \in [act : TwinActs(f), done : BOOLEAN, mood : {1, 2}, mention : {FALSE, f.tellable}]
    BY <1>1 DEF TwinInARound
  <2>2. a.act \in ActsByRole(f.role) /\ a.mood \in 0 .. 3
    BY <1>2, <2>1
  <2>3. a.done \in BOOLEAN /\ a.mention \in {FALSE, f.tellable}
    BY Zenon, <2>1
  <2>4. a = [act |-> a.act, done |-> a.done, mood |-> a.mood, mention |-> a.mention]
    BY <2>1
  <2> QED BY Zenon, <2>2, <2>3, <2>4
<1> QED BY <1>3 DEF OfferedInARound

LEMMA FirmStays ==
  ASSUME NEW k \in OfAFirm, NEW f \in FactsOf(k), NEW a \in TwinOfAFirm(k, f)
  PROVE  a \in OfferedToAFirm(k, f)
<1> USE DEF TwinOfAFirm, OfferedToAFirm, YesOr, Yes, No, One, Is
<1>1. CASE k = "leave.consider"
  BY <1>1
<1>2. CASE k = "founder.review"
  BY <1>2
<1>3. CASE k = "hire.decision"
  BY <1>3
<1> QED BY <1>1, <1>2, <1>3 DEF OfAFirm

\* What is put to the firms in their loops, the vendor's and the others'.
OfferedInTheLoops(k, f) ==
  IF k \in OfTheVendor THEN OfferedToTheVendor(k, f)
  ELSE IF k = "catering.order" THEN OfferedInTheOffice(k, f)
  ELSE OfferedOfBillsAndShifts(k, f)

LEMMA LoopsStay ==
  ASSUME NEW k \in Loops, NEW f \in FactsOf(k), NEW a \in TwinInTheLoops(k, f)
  PROVE  a \in OfferedInTheLoops(k, f)
<1> USE DEF TwinInTheLoops, OfferedInTheLoops, OfTheVendor, YesOr, Yes, No, One, Is
<1>1. CASE k = "eng.allocation"
  BY <1>1 DEF OfferedToTheVendor
<1>2. CASE k = "vendor.trust"
  <2>1. f.trust \in 0 .. 4
    <3>1. f \in FactsOf("vendor.trust")
      BY <1>2
    <3>2. f \in [trust : 0 .. 4, bad : BOOLEAN]
      BY <3>1 DEF FactsOf, Plain
    <3> QED BY <3>2
  <2> QED BY <1>2, <2>1 DEF OfferedToTheVendor
<1>3. CASE k = "subscription.renew"
  BY <1>3 DEF OfferedToTheVendor
<1>4. CASE k = "dispute.resolution"
  BY <1>4 DEF OfferedOfBillsAndShifts
<1>5. CASE k = "time.log"
  BY <1>5 DEF OfferedOfBillsAndShifts
<1>6. CASE k = "cover.shift"
  BY <1>6 DEF OfferedOfBillsAndShifts
<1>7. CASE k = "close.order"
  BY <1>7 DEF OfferedOfBillsAndShifts
<1>8. CASE k = "supplier.order"
  BY <1>8 DEF OfferedOfBillsAndShifts
<1>9. CASE k = "catering.order"
  BY <1>9 DEF OfferedInTheOffice
<1> QED BY <1>1, <1>2, <1>3, <1>4, <1>5, <1>6, <1>7, <1>8, <1>9 DEF Loops, OfTheVendor

\* An answer the question leaves room for.
InTheQuestion(k, f, a) ==
  \/ a \in MayAnswer(k, f)
  \/ k = "agent.tick" /\ a.with \in f.present \ Shown(f)

LEMMA TwinStays ==
  ASSUME NEW k \in Kinds, NEW f \in FactsOf(k), Gated(k, f) = {}, NEW a \in TwinAnswers(k, f)
  PROVE  InTheQuestion(k, f, a)
<1> USE DEF Flows, Office, OfAFirm, OfTheVendor, Loops, Plain
<1>1. CASE k \in Flows
  <2>1. a \in TwinInTheFlows(k, f) /\ MayAnswer(k, f) = OfferedInTheFlows(k, f)
    BY <1>1 DEF TwinAnswers, MayAnswer
  <2> QED BY <1>1, <2>1, FlowsStay DEF InTheQuestion
<1>2. CASE k = "agent.tick"
  <2>1. a \in TwinAtATick(f) /\ MayAnswer(k, f) = OfferedAtATick(f)
    BY <1>2 DEF TwinAnswers, MayAnswer
  <2> QED BY <1>2, <2>1, TickStays DEF InTheQuestion
<1>3. CASE k \in Office
  <2>1. a \in TwinInTheOffice(k, f) /\ MayAnswer(k, f) = OfferedInTheOffice(k, f)
    BY <1>3 DEF TwinAnswers, MayAnswer
  <2> QED BY <1>3, <2>1, OfficeStays DEF InTheQuestion
<1>4. CASE k = "episode.round"
  <2>1. a \in TwinInARound(f) /\ MayAnswer(k, f) = OfferedInARound(f)
    BY <1>4 DEF TwinAnswers, MayAnswer
  <2> QED BY <1>4, <2>1, RoundStays DEF InTheQuestion
<1>5. CASE k \in OfAFirm
  <2>1. a \in TwinOfAFirm(k, f) /\ MayAnswer(k, f) = OfferedToAFirm(k, f)
    BY <1>5 DEF TwinAnswers, MayAnswer
  <2> QED BY <1>5, <2>1, FirmStays DEF InTheQuestion
<1>6. CASE k \in Loops
  <2>1. a \in TwinInTheLoops(k, f) /\ MayAnswer(k, f) = OfferedInTheLoops(k, f)
    BY <1>6 DEF TwinAnswers, MayAnswer, OfferedInTheLoops
  <2> QED BY <1>6, <2>1, LoopsStay DEF InTheQuestion
<1>7. CASE k \in Plain
  <2>1. a \in YesOr(k, "", "") /\ MayAnswer(k, f) = YesOr(k, "", "")
    BY <1>7 DEF TwinAnswers, MayAnswer
  <2> QED BY <2>1 DEF InTheQuestion
<1> QED BY <1>1, <1>2, <1>3, <1>4, <1>5, <1>6, <1>7 DEF Kinds

\* Whatever the firms, the dealings between them and the number of them that are described: the
\* twin answers within the question, or turns to a firm of the room that was left out of it.
THEOREM TwinInTheQuestion == JudgementsSpec => []TheTwinStaysInTheQuestion
<1> DEFINE Inv == /\ kind \in Kinds /\ facts \in FactsOf(kind)
                  /\ chosen # Undecided => InTheQuestion(kind, facts, chosen)
<1>1. JudgementsInit => Inv
  BY DEF JudgementsInit
<1>2. Inv /\ [TwinDecides]_judgeVars => Inv'
  <2> SUFFICES ASSUME Inv, [TwinDecides]_judgeVars PROVE Inv'
    OBVIOUS
  <2>1. CASE UNCHANGED judgeVars
    BY <2>1 DEF judgeVars
  <2>2. CASE TwinDecides
    <3>1. kind' = kind /\ facts' = facts
      BY <2>2 DEF TwinDecides
    <3>2. CASE Gated(kind, facts) # {}
      BY <2>2, <3>1, <3>2 DEF TwinDecides, MayAnswer, InTheQuestion
    <3>3. CASE Gated(kind, facts) = {}
      <4> DEFINE a == chosen'
      <4>1. a \in TwinAnswers(kind, facts)
        BY <2>2, <3>3 DEF TwinDecides
      <4>2. InTheQuestion(kind, facts, a)
        <5> HIDE DEF a
        <5> QED BY <3>3, <4>1, TwinStays
      <4> QED BY <3>1, <4>2
    <3> QED BY <3>2, <3>3
  <2> QED BY <2>1, <2>2
<1>3. Inv => TheTwinStaysInTheQuestion
  BY DEF TheTwinStaysInTheQuestion, InTheQuestion
<1> QED BY <1>1, <1>2, <1>3, PTL DEF JudgementsSpec

(***************************************************************************)
(* Weighing.                                                               *)
(***************************************************************************)
\* Any answer, however it was come by: some mass, on some option.
Masses == {d \in [Options -> Nat] : \E o \in Options : d[o] > 0}

\* u runs up the mass of d as far as option n.
RunsUp(u, d, n) == u = [o \in 0 .. n |-> IF o = 0 THEN 0 ELSE u[o - 1] + d[o]]

LEMMA WeighingConstants ==
  /\ LastOption \in Nat \ {0} /\ Options \subseteq Nat /\ LastOption \in Options
  /\ Distributions \subseteq Masses
<1>1. 0 .. Parts \subseteq Nat
  BY WeighingAssumption
<1>2. ASSUME NEW d \in Distributions PROVE d \in Masses
  BY <1>1 DEF Distributions, Masses
<1> QED BY <1>2, WeighingAssumption DEF Options

\* There is such a run.
LEMMA RunsUpExist ==
  ASSUME NEW d
  PROVE  \E u : RunsUp(u, d, LastOption)
<1> DEFINE Bad == {n \in Nat : ~ \E u : RunsUp(u, d, n)}
<1>1. Bad = {}
  <2> SUFFICES ASSUME Bad # {} PROVE FALSE
    OBVIOUS
  <2>0. Bad \subseteq Nat
    OBVIOUS
  <2>1. PICK n \in Bad : \A m \in Bad : n <= m
    <3> HIDE DEF Bad
    <3> QED BY <2>0, LeastNatural
  <2>2. CASE n = 0
    <3> DEFINE u == [o \in 0 .. 0 |-> 0]
    <3>1. RunsUp(u, d, 0)
      BY DEF RunsUp
    <3> HIDE DEF u
    <3> QED BY <2>1, <2>2, <3>1
  <2>3. CASE n # 0
    <3>1. n \in Nat /\ n - 1 \in Nat
      <4> HIDE DEF Bad
      <4> QED BY <2>0, <2>1, <2>3
    <3>2. n - 1 \notin Bad
      <4> HIDE DEF Bad
      <4> QED BY <2>0, <2>1, <3>1
    <3>3. PICK u : RunsUp(u, d, n - 1)
      BY <3>1, <3>2
    <3> DEFINE v == [o \in 0 .. n |-> IF o = 0 THEN 0 ELSE u[o - 1] + d[o]]
    <3>4. \A o \in 0 .. n - 1 : v[o] = u[o]
      <4>1. \A o \in 0 .. n - 1 : u[o] = IF o = 0 THEN 0 ELSE u[o - 1] + d[o]
        BY <3>3 DEF RunsUp
      <4> QED BY <3>1, <4>1
    <3>5. \A o \in 0 .. n : o # 0 => v[o - 1] = u[o - 1]
      <4>1. \A o \in 0 .. n : o # 0 => o - 1 \in 0 .. n - 1
        BY <3>1
      <4> HIDE DEF v
      <4> QED BY <3>4, <4>1
    <3>6. v = [o \in 0 .. n |-> IF o = 0 THEN 0 ELSE v[o - 1] + d[o]]
      BY <3>5
    <3>7. RunsUp(v, d, n)
      <4> HIDE DEF v
      <4> QED BY <3>6 DEF RunsUp
    <3> HIDE DEF v
    <3> QED BY <2>1, <3>7
  <2> QED BY <2>2, <2>3
<1> QED BY <1>1, WeighingConstants

\* What UpTo is: each option adds its mass.
LEMMA UpToAdds ==
  ASSUME NEW d
  PROVE  UpTo(d)[0] = 0 /\ \A o \in Options : UpTo(d)[o] = UpTo(d)[o - 1] + d[o]
<1> DEFINE u == CHOOSE g : RunsUp(g, d, LastOption)
<1>1. UpTo(d) = u
  BY Zenon DEF UpTo, RunsUp
<1>2. RunsUp(u, d, LastOption)
  BY RunsUpExist
<1> HIDE DEF u
<1>3. u[0] = 0 /\ \A o \in Options : u[o] = u[o - 1] + d[o]
  BY <1>2, WeighingConstants DEF RunsUp, Options
<1> QED BY <1>1, <1>3

\* It never falls, and is a number.
LEMMA UpToRises ==
  ASSUME NEW d \in [Options -> Nat]
  PROVE  /\ \A o \in 0 .. LastOption : UpTo(d)[o] \in Nat
         /\ \A o \in 0 .. LastOption : \A p \in 0 .. o : UpTo(d)[p] <= UpTo(d)[o]
<1> DEFINE u == UpTo(d)
           Fits(o) == u[o] \in Nat /\ \A p \in 0 .. o : u[p] <= u[o]
           Bad == {o \in 0 .. LastOption : ~ Fits(o)}
<1>0. LastOption \in Nat /\ Options = 1 .. LastOption
  BY WeighingConstants DEF Options
<1>1. u[0] = 0 /\ \A o \in 1 .. LastOption : u[o] = u[o - 1] + d[o] /\ d[o] \in Nat
  BY <1>0, UpToAdds
<1> HIDE DEF u
<1>2. Bad = {}
  <2> SUFFICES ASSUME Bad # {} PROVE FALSE
    OBVIOUS
  <2>0. Bad \subseteq Nat /\ Bad \subseteq 0 .. LastOption
    BY <1>0
  <2>1. PICK o \in Bad : \A q \in Bad : o <= q
    <3> HIDE DEF Bad
    <3> QED BY <2>0, LeastNatural
  <2>2. o \in 0 .. LastOption /\ ~ Fits(o)
    BY <2>1
  <2>3. CASE o = 0
    BY <1>1, <2>2, <2>3
  <2>4. CASE o # 0
    <3>1. o - 1 \in 0 .. LastOption /\ o \in 1 .. LastOption
      BY <1>0, <2>2, <2>4
    <3>2. o - 1 \notin Bad
      <4> HIDE DEF Bad
      <4> QED BY <2>0, <2>1, <3>1
    <3>3. Fits(o - 1)
      <4> HIDE DEF Fits
      <4> QED BY <3>1, <3>2
    <3>4. u[o] = u[o - 1] + d[o] /\ d[o] \in Nat /\ u[o - 1] \in Nat
      BY <1>1, <3>1, <3>3
    <3>5. ASSUME NEW p \in 0 .. o PROVE u[p] <= u[o]
      <4>1. CASE p = o
        BY <3>4, <4>1
      <4>2. CASE p # o
        <5>1. p \in 0 .. o - 1
          BY <1>0, <2>2, <4>2
        <5>2. u[p] <= u[o - 1] /\ u[p] \in Nat
          <6>1. p \in 0 .. LastOption /\ p \notin Bad
            <7> HIDE DEF Bad
            <7> QED BY <1>0, <2>0, <2>1, <2>2, <5>1
          <6> QED BY <3>3, <5>1, <6>1
        <5> QED BY <3>4, <5>2
      <4> QED BY <4>1, <4>2
    <3> QED BY <2>2, <3>4, <3>5
  <2> QED BY <2>3, <2>4
<1>3. \A o \in 0 .. LastOption : Fits(o)
  BY <1>2
<1> QED BY <1>3 DEF u

\* Some mass makes a total of some.
LEMMA TotalIsSome ==
  ASSUME NEW d \in Masses
  PROVE  Total(d) \in Nat \ {0}
<1>1. PICK o \in Options : d[o] > 0
  BY DEF Masses
<1>2. d \in [Options -> Nat] /\ o \in 0 .. LastOption /\ o - 1 \in 0 .. LastOption /\ LastOption \in 0 .. LastOption
      /\ o \in 0 .. LastOption
  BY WeighingConstants DEF Masses, Options
<1>3. UpTo(d)[o] = UpTo(d)[o - 1] + d[o] /\ d[o] \in Nat
  BY <1>2, UpToAdds
<1>4. UpTo(d)[o - 1] \in Nat /\ UpTo(d)[LastOption] \in Nat /\ UpTo(d)[o] <= UpTo(d)[LastOption]
  BY <1>2, UpToRises
<1> QED BY <1>1, <1>3, <1>4 DEF Total

-----------------------------------------------------------------------------
(* The most likely option. *)

\* There is one, and no other.
LEMMA BestIsBest ==
  ASSUME NEW d \in [Options -> Nat]
  PROVE  IsBest(d, Best(d)) /\ \A o : IsBest(d, o) => o = Best(d)
<1> DEFINE most == {o \in Options : \A p \in Options : d[p] <= d[o]}
<1>0. LastOption \in Nat /\ Options = 1 .. LastOption /\ LastOption \in Options
  BY WeighingConstants DEF Options
<1>1. most # {}
  <2> DEFINE bounds == {n \in Nat : \A p \in Options : d[p] <= n}
  <2>1. Total(d) \in bounds
    <3>1. ASSUME NEW p \in Options PROVE d[p] <= Total(d) /\ Total(d) \in Nat
      <4>1. p \in 0 .. LastOption /\ p - 1 \in 0 .. LastOption /\ LastOption \in 0 .. LastOption
        BY <1>0
      <4>2. UpTo(d)[p] = UpTo(d)[p - 1] + d[p] /\ d[p] \in Nat
        BY UpToAdds
      <4>3. /\ UpTo(d)[p - 1] \in Nat /\ UpTo(d)[p] \in Nat /\ UpTo(d)[LastOption] \in Nat
            /\ UpTo(d)[p] <= UpTo(d)[LastOption]
        BY <4>1, UpToRises
      <4> QED BY <4>2, <4>3 DEF Total
    <3> QED BY <1>0, <3>1
  <2>2. PICK n \in bounds : \A k \in bounds : n <= k
    <3>1. bounds \subseteq Nat
      OBVIOUS
    <3> HIDE DEF bounds
    <3> QED BY <2>1, <3>1, LeastNatural
  <2>3. n \in Nat /\ \A p \in Options : d[p] <= n /\ d[p] \in Nat
    BY <2>2
  <2>4. \E p \in Options : d[p] = n
    <3> SUFFICES ASSUME \A p \in Options : d[p] # n PROVE FALSE
      OBVIOUS
    <3>1. \A p \in Options : d[p] <= n - 1
      BY <2>3
    <3>2. n - 1 \in Nat
      BY <1>0, <2>3, <3>1
    <3>3. n - 1 \in bounds
      BY <3>1, <3>2
    <3> HIDE DEF bounds
    <3> QED BY <2>2, <2>3, <3>3
  <2> QED BY <2>3, <2>4
<1>2. PICK o \in most : \A p \in most : o <= p
  <2>1. most \subseteq Nat
    BY <1>0
  <2> HIDE DEF most
  <2> QED BY <1>1, <2>1, LeastNatural
<1>3. IsBest(d, o)
  <2>1. o \in Options /\ \A p \in Options : d[p] <= d[o]
    BY <1>2
  <2>2. ASSUME NEW p \in Options, p < o PROVE d[p] < d[o]
    <3>1. p \notin most
      <4> HIDE DEF most
      <4> QED BY <1>0, <1>2, <2>1, <2>2
    <3>2. PICK q \in Options : ~ (d[q] <= d[p])
      BY <3>1
    <3> QED BY <2>1, <3>2
  <2> QED BY <2>1, <2>2 DEF IsBest
<1>4. IsBest(d, Best(d))
  <2>1. \E b \in Options : IsBest(d, b)
    BY <1>3 DEF IsBest
  <2> QED BY Zenon, <2>1 DEF Best
<1>5. ASSUME NEW b, IsBest(d, b), NEW c, IsBest(d, c) PROVE b = c
  BY <1>0, <1>5 DEF IsBest
<1> QED BY <1>4, <1>5

\* More of the mass of both is more of the mixture.
LEMMA MixtureIsMonotone ==
  ASSUME NEW s \in Nat \ {0}, NEW t \in Nat \ {0},
         NEW x \in Nat, NEW y \in Nat, NEW v \in Nat, NEW w \in Nat, x <= v, y <= w
  PROVE  x * t + y * s <= v * t + w * s /\ (x < v \/ y < w => x * t + y * s < v * t + w * s)
OBVIOUS

\* What both give most mass has most of the mixture.
LEMMA MixtureAgrees ==
  ASSUME NEW a \in Masses, NEW b \in Masses
  PROVE  /\ Mixed(a, b) \in Masses
         /\ \A o \in Options : Mixed(a, b)[o] > 0 <=> a[o] + b[o] > 0
         /\ Best(a) = Best(b) => Best(Mixed(a, b)) = Best(a)
<1> DEFINE s == Total(a)
           t == Total(b)
           m == Mixed(a, b)
<1>1. s \in Nat \ {0} /\ t \in Nat \ {0}
  BY TotalIsSome
<1>2. a \in [Options -> Nat] /\ b \in [Options -> Nat]
  BY DEF Masses
<1>3. m = [o \in Options |-> a[o] * t + b[o] * s]
  BY DEF Mixed
<1> HIDE DEF s, t, m
<1>4. ASSUME NEW o \in Options PROVE m[o] \in Nat /\ (m[o] > 0 <=> a[o] + b[o] > 0)
  <2> DEFINE x == a[o]
             y == b[o]
  <2>1. x \in Nat /\ y \in Nat /\ m[o] = x * t + y * s
    BY <1>2, <1>3
  <2> HIDE DEF x, y
  <2>2. x * t \in Nat /\ y * s \in Nat /\ (x > 0 <=> x * t > 0) /\ (y > 0 <=> y * s > 0)
    BY <1>1, <2>1
  <2>3. m[o] > 0 <=> x + y > 0
    BY <2>1, <2>2
  <2> QED BY <2>1, <2>2, <2>3 DEF x, y
<1>5. m \in Masses
  <2>1. m \in [Options -> Nat]
    BY <1>3, <1>4
  <2>2. PICK o \in Options : a[o] > 0
    BY DEF Masses
  <2>3. m[o] > 0
    BY <1>2, <1>4, <2>2
  <2> QED BY <2>1, <2>3 DEF Masses
<1>6. ASSUME Best(a) = Best(b) PROVE Best(m) = Best(a)
  <2> DEFINE o == Best(a)
  <2>1. IsBest(a, o) /\ IsBest(b, o)
    BY <1>2, <1>6, BestIsBest
  <2> HIDE DEF o
  <2>2. ASSUME NEW p \in Options PROVE m[p] <= m[o] /\ (p < o => m[p] < m[o])
    <3> DEFINE x == a[p]
               y == b[p]
               v == a[o]
               w == b[o]
    <3>1. x \in Nat /\ y \in Nat /\ v \in Nat /\ w \in Nat /\ x <= v /\ y <= w /\ (p < o => x < v)
      BY <1>2, <2>1 DEF IsBest
    <3>2. m[p] = x * t + y * s /\ m[o] = v * t + w * s
      BY <1>3, <2>1 DEF IsBest
    <3> HIDE DEF x, y, v, w
    <3>3. x * t + y * s <= v * t + w * s /\ (x < v \/ y < w => x * t + y * s < v * t + w * s)
      BY <1>1, <3>1, MixtureIsMonotone
    <3> QED BY <3>1, <3>2, <3>3
  <2>3. IsBest(m, o)
    BY <2>1, <2>2 DEF IsBest
  <2>4. m \in [Options -> Nat]
    BY <1>5 DEF Masses
  <2> QED BY <2>3, <2>4, BestIsBest DEF o
<1> QED BY <1>4, <1>5, <1>6 DEF m

-----------------------------------------------------------------------------
(* A draw. *)

\* A roll falls to one option.
FallsTo(d, r, o) == o \in Options /\ r < UpTo(d)[o] /\ r >= UpTo(d)[o - 1]

LEMMA RollsFall ==
  ASSUME NEW d \in Masses, NEW r \in 0 .. Total(d) - 1
  PROVE  FallsTo(d, r, Drawn(d, r)) /\ \A o : FallsTo(d, r, o) => o = Drawn(d, r)
<1> DEFINE u == UpTo(d)
           above == {o \in Options : r < u[o]}
<1>0. LastOption \in Nat \ {0} /\ Options = 1 .. LastOption
  BY WeighingConstants DEF Options
<1>1. /\ u[0] = 0 /\ \A o \in 0 .. LastOption : u[o] \in Nat
      /\ \A o \in 0 .. LastOption : \A p \in 0 .. o : u[p] <= u[o]
  BY UpToAdds, UpToRises DEF Masses
<1>2. r \in Nat /\ r < u[LastOption]
  BY <1>0, <1>1 DEF Total
<1> HIDE DEF u
<1>3. PICK o \in above : \A p \in above : o <= p
  <2>1. above \subseteq Nat /\ LastOption \in above
    BY <1>0, <1>2
  <2> HIDE DEF above
  <2> QED BY <2>1, LeastNatural
<1>4. o \in Options /\ r < u[o] /\ r >= u[o - 1]
  <2>1. o \in Options /\ r < u[o]
    BY <1>3
  <2>2. CASE o = 1
    BY <1>1, <1>2, <2>1, <2>2
  <2>3. CASE o # 1
    <3>1. o - 1 \in Options /\ o - 1 \in 0 .. LastOption
      BY <1>0, <2>1, <2>3
    <3>2. o - 1 \notin above
      <4> HIDE DEF above
      <4> QED BY <1>0, <1>3, <2>1, <3>1
    <3> QED BY <1>1, <1>2, <2>1, <3>1, <3>2
  <2> QED BY <2>2, <2>3
<1>5. FallsTo(d, r, Drawn(d, r))
  <2>1. \E b \in Options : r < UpTo(d)[b] /\ r >= UpTo(d)[b - 1]
    BY <1>4 DEF u
  <2> QED BY Zenon, <2>1 DEF Drawn, FallsTo
<1>6. ASSUME NEW b \in Options, FallsTo(d, r, b), NEW c \in Options, FallsTo(d, r, c), b < c PROVE FALSE
  <2>1. b \in 0 .. c - 1 /\ c - 1 \in 0 .. LastOption /\ b \in 0 .. LastOption
    BY <1>0, <1>6
  <2>2. u[b] <= u[c - 1] /\ u[b] \in Nat /\ u[c - 1] \in Nat
    BY <1>1, <2>1
  <2>3. r < u[b] /\ r >= u[c - 1]
    BY <1>6 DEF FallsTo, u
  <2> QED BY <1>2, <2>2, <2>3
<1>7. ASSUME NEW b, FallsTo(d, r, b) PROVE b = Drawn(d, r)
  <2> DEFINE c == Drawn(d, r)
  <2>1. b \in Options /\ c \in Options /\ FallsTo(d, r, c)
    BY <1>5, <1>7 DEF FallsTo
  <2> HIDE DEF c
  <2>2. ~ (b < c) /\ ~ (c < b)
    BY <1>6, <1>7, <2>1
  <2>3. b = c
    BY <1>0, <2>1, <2>2
  <2> QED BY <2>3 DEF c
<1> QED BY <1>5, <1>7

\* What has mass is drawn by some roll, and nothing else is.
LEMMA MassIsDrawn ==
  ASSUME NEW d \in Masses, NEW o \in Options
  PROVE  d[o] > 0 <=> Cardinality({r \in 0 .. Total(d) - 1 : Drawn(d, r) = o}) > 0
<1> DEFINE rolls == {r \in 0 .. Total(d) - 1 : Drawn(d, r) = o}
           u == UpTo(d)
<1>0. LastOption \in Nat \ {0} /\ Options = 1 .. LastOption
  BY WeighingConstants DEF Options
<1>1. /\ d[o] \in Nat /\ u[o] = u[o - 1] + d[o]
      /\ u[o] \in Nat /\ u[o - 1] \in Nat /\ u[o] <= Total(d) /\ Total(d) \in Nat
  <2>1. d \in [Options -> Nat]
    BY DEF Masses
  <2>2. o \in 0 .. LastOption /\ o - 1 \in 0 .. LastOption /\ LastOption \in 0 .. LastOption
    BY <1>0
  <2> QED BY <2>1, <2>2, UpToAdds, UpToRises DEF Total
<1> HIDE DEF u
<1>2. d[o] > 0 => rolls # {}
  <2> SUFFICES ASSUME d[o] > 0 PROVE rolls # {}
    OBVIOUS
  <2> DEFINE r == u[o - 1]
  <2>1. r \in 0 .. Total(d) - 1
    BY <1>1
  <2>2. FallsTo(d, r, o)
    BY <1>1 DEF FallsTo, u
  <2> HIDE DEF r
  <2>3. o = Drawn(d, r)
    BY <2>1, <2>2, RollsFall
  <2> QED BY <2>1, <2>3
<1>3. rolls # {} => d[o] > 0
  <2> SUFFICES ASSUME NEW r \in 0 .. Total(d) - 1, Drawn(d, r) = o PROVE d[o] > 0
    OBVIOUS
  <2>1. r < u[o] /\ r >= u[o - 1] /\ r \in Nat
    BY <1>1, RollsFall DEF FallsTo, u
  <2> QED BY <1>1, <2>1
<1>4. Cardinality(rolls) > 0 <=> rolls # {}
  <2>1. IsFiniteSet(0 .. Total(d) - 1)
    BY <1>1, FS_Interval
  <2>2. IsFiniteSet(rolls)
    BY <2>1, FS_Subset
  <2> HIDE DEF rolls
  <2> QED BY <2>2, FS_CardinalityType, FS_EmptySet
<1> QED BY <1>2, <1>3, <1>4

\* The answers there may be, and how they are asked for.
WeighingInv ==
  /\ ask.mode \in {"J", "P"}
  /\ jev \in Masses /\ second \in Masses

\* Whatever the number of options and however finely mass is dealt among them: a second opinion
\* that agrees changes nothing, and one that does not leaves a propensity all that Jev gave mass.
THEOREM FairlyWeighed == WeighingSpec => []WeighedFairly
<1>1. WeighingInit => WeighingInv
  BY WeighingConstants DEF WeighingInit, WeighingInv, Replies
<1>2. WeighingInv /\ [Escalate]_weighVars => WeighingInv'
  BY WeighingConstants DEF WeighingInv, Escalate, weighVars, Replies
<1>3. WeighingInv => WeighedFairly
  <2> SUFFICES ASSUME WeighingInv PROVE WeighedFairly
    OBVIOUS
  <2> DEFINE acted == Acted
  <2>1. acted = jev \/ (ask.mode = "J" /\ acted = second) \/ (ask.mode # "J" /\ acted = Mixed(jev, second))
    BY Zenon DEF Acted
  <2>2. jev \in Masses /\ second \in Masses /\ jev \in [Options -> Nat] /\ second \in [Options -> Nat]
    BY DEF WeighingInv, Masses
  <2>3. /\ Mixed(jev, second) \in Masses
        /\ \A o \in Options : Mixed(jev, second)[o] > 0 <=> jev[o] + second[o] > 0
        /\ Best(jev) = Best(second) => Best(Mixed(jev, second)) = Best(jev)
    BY <2>2, MixtureAgrees
  <2> HIDE DEF acted
  <2>4. Agrees(jev, second) => Best(acted) = Best(jev)
    BY <2>1, <2>3 DEF Agrees
  <2>5. ASSUME ask.mode = "P", NEW o \in Options
        PROVE  LET share == Cardinality({r \in 0 .. Total(acted) - 1 : Drawn(acted, r) = o})
               IN (jev[o] > 0 => share > 0) /\ (share > 0 => jev[o] + second[o] > 0)
    <3> DEFINE share == Cardinality({r \in 0 .. Total(acted) - 1 : Drawn(acted, r) = o})
    <3>1. acted \in Masses
      BY <2>1, <2>2, <2>3, <2>5
    <3>2. acted[o] > 0 <=> share > 0
      BY <3>1, MassIsDrawn
    <3> HIDE DEF share
    <3>3. (jev[o] > 0 => acted[o] > 0) /\ (acted[o] > 0 => jev[o] + second[o] > 0)
      <4>1. jev[o] \in Nat /\ second[o] \in Nat
        BY <2>2
      <4> QED BY <2>1, <2>3, <2>5, <4>1
    <3>4. (jev[o] > 0 => share > 0) /\ (share > 0 => jev[o] + second[o] > 0)
      BY <3>2, <3>3
    <3> QED BY <3>4 DEF share
  <2> QED BY <2>4, <2>5 DEF WeighedFairly, AgreementIsKept, KeepsThePersona, acted
<1> QED BY <1>1, <1>2, <1>3, PTL DEF WeighingSpec
=============================================================================
