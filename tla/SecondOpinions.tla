---------------------------- MODULE SecondOpinions ----------------------------
(***************************************************************************)
(* Tier 1 (DECIDE-0005): what Jev was unsure of is asked again of the       *)
(* generative models, in their order of preference. Where a person has made *)
(* it live the opinion decides; elsewhere it runs in shadow and is only     *)
(* measured. A question stands for everybody in the same situation: they    *)
(* share its key. The batches of a tick are one here, as the code promises. *)
(***************************************************************************)
EXTENDS Integers, Sequences, FiniteSets, FiniteSetsExt

CONSTANTS
  Questions,
  Unsure,        \* those where Jev's answer fired a trigger; the rest are sampled
  Escalations,   \* Escalations[t]: what tick t wants a second opinion on, in order
  Models,        \* GENERATIVE_PREFERENCE is 1 .. Models
  Allowance,     \* a day's, and all ticks are of one day
  MayGoLive,     \* the sets a person may name in JEVE_ESCALATION_LIVE
  Mishaps        \* bound: calls that fail or take too long, restarts

ASSUME OpinionsAssumption ==
  /\ Unsure \subseteq Questions
  /\ Escalations \in Seq(Seq(Questions))
  /\ Models \in Nat \ {0} /\ {Allowance, Mishaps} \subseteq Nat
  /\ \A S \in MayGoLive : S \subseteq Questions

VARIABLES
  turn,         \* the tick
  step,         \* "between" ticks, "asking" a model, "keeping" its replies, "deciding"
  live,         \* the questions of live sets
  reachable,    \* the models the catalogue can resolve
  wanted,       \* which of the tick's wants there is room for
  model,        \* the model of this round
  replies,      \* what it made of each question of the round
  heard,        \* the questions and models not to be asked again
  failure,      \* a call of one that acts has failed
  shadowTime,   \* is there shadow time left?
  onRecord,     \* model_calls: the answers of tier 1, and the marks beside them
  marks,
  opinions,     \* the committed rows of escalations
  settled,      \* how each want that acts was settled, by committed ticks
  mishaps

opinionVars == <<turn, step, live, reachable, wanted, model, replies, heard, failure,
                 shadowTime, onRecord, marks, opinions, settled, mishaps>>

durable == <<onRecord, marks, opinions, settled>>
process == <<live, reachable>>

Preference == 1 .. Models
Jev == 0
Wants == Escalations[turn]
Acting(q) == q \in live \cap Unsure
NoReplies == [q \in Questions |-> "none"]

OpinionsInit ==
  /\ turn = 1 /\ step = "between"
  /\ live \in MayGoLive /\ reachable \in SUBSET Preference
  /\ wanted = {} /\ model = 0 /\ replies = NoReplies /\ heard = {}
  /\ failure = FALSE /\ shadowTime = TRUE
  /\ onRecord = [q \in Questions |-> [m \in Preference |-> "nothing"]]
  /\ marks = {} /\ opinions = {} /\ settled = {}
  /\ mishaps = 0

-----------------------------------------------------------------------------
(* Which wants there is room for, in the order asked.                      *)

\* mutant: those that act are held to what is left of the whole allowance
RoomInAll(i, before) == Allowance - Cardinality(opinions) - Cardinality(before) > 0

(* room: an answer that acts competes with others that act, and with no    *)
(* others; the rest take what is left of the allowance.                    *)
RoomFor(i, before) ==
  IF Acting(Wants[i])
    THEN Allowance > Cardinality({o \in opinions : o.applied})
                     + Cardinality({k \in before : Acting(Wants[k])})
    ELSE shadowTime /\ Allowance > Cardinality(opinions) + Cardinality(before)

Chosen ==
  LET upTo[i \in 0 .. Len(Wants)] ==
        IF i = 0 THEN {}
        ELSE upTo[i - 1] \cup IF RoomFor(i, upTo[i - 1]) THEN {i} ELSE {}
  IN upTo[Len(Wants)]

-----------------------------------------------------------------------------
(* What is on record.                                                      *)

Usable(q) == {m \in Preference : onRecord[q][m] = "usable"}

Found(q) == Usable(q) # {}

(* A failure is not asked for again, unless the answer is to act.          *)
HeardOf(q, m, rows, kept) ==
  \/ rows[q][m] # "nothing"
  \/ <<q, m, "unresolvable">> \in kept
  \/ ~Acting(q) /\ <<q, m, "failed">> \in kept

AsksAbout(S) == {Wants[i] : i \in S}

Unanswered == {q \in AsksAbout(wanted) : ~Found(q)}

Unheard(q) == {m \in Preference : <<q, m>> \notin heard}

-----------------------------------------------------------------------------
\* mutant: that a model cannot be resolved is remembered, and not marked
MarkedForNobody(gone) == {}

MarkedForGood(gone) == {<<s[1], s[2], "unresolvable">> : s \in gone}

(* The tick asks, or asks again after it was rolled back. Who cannot be    *)
(* resolved is marked, for everyone.                                       *)
Begin ==
  /\ step = "between" /\ turn <= Len(Escalations)
  /\ wanted' = Chosen
  /\ LET open == {q \in AsksAbout(wanted') : ~Found(q)}
         known == {s \in open \X Preference : HeardOf(s[1], s[2], onRecord, marks)}
         gone == {s \in open \X Preference : s[2] \notin reachable} \ known
     IN /\ heard' = known \cup gone
        /\ marks' = marks \cup MarkedForGood(gone)
        /\ step' = IF open = {} THEN "deciding" ELSE "asking"
  /\ model' = 1 /\ failure' = FALSE
  /\ UNCHANGED <<turn, process, replies, shadowTime, onRecord, opinions, settled, mishaps>>

Pending == {q \in Unanswered : <<q, model>> \notin heard}

\* the rounds are over: nothing is open, no model is left, or no time for shadow
Exhausted ==
  \/ Unanswered = {} \/ model > Models
  \/ Pending # {} /\ ~shadowTime /\ ~\E q \in Pending : Acting(q)

NextModel ==
  /\ step = "asking" /\ ~Exhausted /\ Pending = {}
  /\ model' = model + 1
  /\ UNCHANGED <<turn, step, process, wanted, replies, heard, failure, shadowTime, durable, mishaps>>

(* A round: all who are pending ask one model.                             *)
AskRound ==
  /\ step = "asking" /\ ~Exhausted /\ Pending # {}
  /\ \E failing \in SUBSET Pending, unusable \in SUBSET Pending :
       /\ mishaps + Cardinality(failing) <= Mishaps
       /\ mishaps' = mishaps + Cardinality(failing)
       /\ replies' = [q \in Questions |->
            IF q \notin Pending THEN "none" ELSE IF q \in failing THEN "fails"
            ELSE IF q \in unusable THEN "unusable" ELSE "usable"]
  /\ step' = "keeping"
  /\ UNCHANGED <<turn, process, wanted, model, heard, failure, shadowTime, durable>>

(* The round takes too long. One that acts raises, and the tick is run     *)
(* again; shadow has had all its time, and what it asked stays open.       *)
RoundTimesOut ==
  /\ step = "asking" /\ ~Exhausted /\ Pending # {}
  /\ mishaps < Mishaps /\ mishaps' = mishaps + 1
  /\ IF \E q \in Pending : Acting(q)
       THEN step' = "between" /\ shadowTime' = TRUE /\ UNCHANGED model
       ELSE shadowTime' = FALSE /\ model' = model + 1 /\ UNCHANGED step
  /\ UNCHANGED <<turn, process, wanted, replies, heard, failure, durable>>

(* Every reply is kept before it is read, the first for good.              *)
Keep(q) ==
  /\ step = "keeping" /\ replies[q] # "none"
  /\ replies' = [replies EXCEPT ![q] = "none"]
  /\ IF replies[q] # "fails"
       THEN /\ onRecord' = [onRecord EXCEPT ![q][model] = IF @ = "nothing" THEN replies[q] ELSE @]
            /\ UNCHANGED <<marks, failure>>
     ELSE IF Acting(q) THEN failure' = TRUE /\ UNCHANGED <<onRecord, marks>>
     ELSE marks' = marks \cup {<<q, model, "failed">>} /\ UNCHANGED <<onRecord, failure>>
  /\ UNCHANGED <<turn, step, process, wanted, model, heard, shadowTime, opinions, settled, mishaps>>

RoundEnds ==
  /\ step = "keeping" /\ replies = NoReplies
  /\ heard' = heard \cup {<<q, model>> : q \in {p \in Unanswered : HeardOf(p, model, onRecord, marks)}}
  /\ step' = "asking" /\ model' = model + 1
  /\ UNCHANGED <<turn, process, wanted, replies, failure, shadowTime, durable, mishaps>>

Asked ==
  /\ step = "asking" /\ Exhausted
  /\ step' = "deciding"
  /\ UNCHANGED <<turn, process, wanted, model, replies, heard, failure, shadowTime, durable, mishaps>>

-----------------------------------------------------------------------------
(* The end: an answer that acts and was not given stops the tick, unless   *)
(* every model has been heard and none can be read, now or ever.           *)

First(q) == Min(Usable(q))

Stopped ==
  \E q \in Unanswered : Acting(q) /\ (failure \/ Unheard(q) # {})

TryAgain ==
  /\ step = "deciding" /\ Stopped
  /\ step' = "between" /\ shadowTime' = TRUE
  /\ UNCHANGED <<turn, process, wanted, model, replies, heard, failure, durable, mishaps>>

Commit ==
  /\ step = "deciding" /\ ~Stopped
  /\ opinions' = opinions \cup
       {[turn |-> turn, want |-> i, applied |-> Acting(Wants[i])] :
          i \in {k \in wanted : Found(Wants[k])}}
  /\ settled' = settled \cup
       {[turn |-> turn, want |-> i, question |-> Wants[i], denied |-> i \notin wanted,
         by |-> IF i \in wanted /\ Found(Wants[i]) THEN First(Wants[i]) ELSE Jev] :
          i \in {k \in DOMAIN Wants : Acting(Wants[k])}}
  /\ turn' = turn + 1 /\ step' = "between"
  /\ shadowTime' = TRUE
  /\ UNCHANGED <<process, wanted, model, replies, heard, failure, onRecord, marks, mishaps>>

(* The process dies, and another may have other live sets and another      *)
(* catalogue.                                                              *)
Restarted ==
  /\ mishaps < Mishaps /\ mishaps' = mishaps + 1
  /\ turn <= Len(Escalations)
  /\ step' = "between" /\ shadowTime' = TRUE
  /\ live' \in MayGoLive /\ reachable' \in SUBSET Preference
  /\ replies' = NoReplies
  /\ UNCHANGED <<turn, wanted, model, heard, failure, durable>>

Progress ==
  \/ Begin \/ NextModel \/ AskRound \/ RoundEnds \/ Asked \/ TryAgain \/ Commit
  \/ \E q \in Questions : Keep(q)

OpinionsNext == Progress \/ RoundTimesOut \/ Restarted

OpinionsSpec == OpinionsInit /\ [][OpinionsNext]_opinionVars

-----------------------------------------------------------------------------
(* A replay reads back what the recording saw: whatever was asked since,   *)
(* and whoever has answered since, the record gives the opinion each       *)
(* decision was made on, and Jev's stands only where it always will.       *)
LiveOpinionsReplay ==
  \A d \in settled : ~d.denied =>
    IF d.by = Jev
      THEN \A m \in Preference : \/ onRecord[d.question][m] = "unusable"
                                 \/ <<d.question, m, "unresolvable">> \in marks
                                    /\ onRecord[d.question][m] = "nothing"
      ELSE d.by = First(d.question)

(* Shadow never takes a place of one that acts: one of those is turned     *)
(* away only when as many as the day allows were let in before it.         *)
ShadowTakesNoLivePlace ==
  \A d \in settled : d.denied =>
    Cardinality({e \in settled : /\ e.turn < d.turn \/ (e.turn = d.turn /\ e.want < d.want)
                                 /\ ~e.denied}) >= Allowance
=============================================================================
