------------------------------ MODULE ModelCalls ------------------------------
(***************************************************************************)
(* How a tick gets its answers: JevPolicy.decide_many and _fill, the       *)
(* gateway thread of _Bridge, the content-addressed table model_calls and  *)
(* the cassette of jeve.decide.recorder (DECIDE-0004).                     *)
(*                                                                         *)
(* A tick asks a batch of distinct requests. What is on record under the   *)
(* pinned build is read back; the rest is fetched all at once, stored row  *)
(* by row once every call has ended, and only then interpreted. A tick     *)
(* that raises is run again (SIM-0002); a process that dies starts again   *)
(* on the same database and appends to the same cassette.                  *)
(***************************************************************************)
EXTENDS Integers, Sequences, FiniteSets, SequencesExt

CONSTANTS
  Requests,    \* the distinct requests of a run
  LastTick,    \* ticks are 1 .. LastTick
  Batch,       \* Batch[t]: what tick t has to ask
  Pin, Other,  \* DECISION_PIN, and what the slug may point at this week
  None,        \* no row, no answer
  MaxFaults,   \* bound of the model on calls that fail, batches that time out
               \* and processes that die
  MayTimeout,  \* may a batch be past CALL_TIMEOUT_S?
  MayCrash,    \* may the process die?
  MayGarble,   \* may an answer not have the shape that was asked for?
  MayDrift     \* may another build answer?

ASSUME CallsAssumption ==
  /\ LastTick \in Nat
  /\ Batch \in [1 .. LastTick -> SUBSET Requests]
  /\ Pin # Other
  /\ MaxFaults \in Nat
  /\ {MayTimeout, MayCrash, MayGarble, MayDrift} \subseteq BOOLEAN

VARIABLES
  tick,        \* the tick the world is at
  phase,       \* where the process is in it
  call,        \* where each call of the batch is
  got,         \* what each call that arrived brought back
  table,       \* model_calls: the answer on record under each key
  cassette,    \* the lines of the cassette that parse
  torn,        \* its last line was cut off, and has no newline
  served,      \* how often the pinned build answered each request, and so billed
  lost,        \* how many of these answers died with a batch or a process
  unlined,     \* rows whose line in the cassette was cut off (no variable of the
               \* program holds either of these two)
  made,        \* the decisions of committed ticks
  faults

vars == <<tick, phase, call, got, table, cassette, torn, served, lost, unlined, made,
          faults>>

accounts == <<served, lost, unlined>>

\* phase: "between" ticks, or about to retry one
\*        "asking"  the engine's thread waits for the batch
\*        "storing" the batch is back, its answers are being kept
\*        "append"  one row is in the table and not yet in the cassette
\*        "settled" everything asked for is on record
\*        "halted"  exit code 7, for a person to move the pin
\*        "down"    the process died

Builds == IF MayDrift THEN {Pin, Other} ELSE {Pin}
Shapes == IF MayGarble THEN {"good", "bad"} ELSE {"good"}

\* an answer: who gave it, and whether it is what was asked for
Answers == [build : Builds, shape : Shapes]

\* no row is not an answer
ASSUME NoneAssumption == None \notin Answers

Keys == Requests \X Builds

\* call_key: the request, and the build that served the answer
KeyOf(r, a) == <<r, a.build>>

\* what is looked up is the pinned build's (DECIDE-0004)
OnRecord(r) == table[<<r, Pin>>]

\* mutant: an answer of any build will do for the look-up
MissingUnderAnyBuild ==
  {r \in Batch[tick] : \A b \in Builds : table[<<r, b>>] = None}

Missing == {r \in Batch[tick] : OnRecord(r) = None}

NoCalls == [r \in Requests |-> "none"]

Init ==
  /\ tick = 1
  /\ phase = "between"
  /\ call = NoCalls
  /\ got = [r \in Requests |-> None]
  /\ table = [k \in Keys |-> None]
  /\ cassette = <<>>
  /\ torn = FALSE
  /\ served = [r \in Requests |-> 0]
  /\ lost = [r \in Requests |-> 0]
  /\ unlined = {}
  /\ made = {}
  /\ faults = 0

\* decide_many: look the batch up, and fetch what is not on record
Ask ==
  /\ phase = "between"
  /\ tick <= LastTick
  /\ IF Missing = {}
     THEN phase' = "settled" /\ UNCHANGED call
     ELSE /\ phase' = "asking"
          /\ call' = [r \in Requests |-> IF r \in Missing THEN "asked" ELSE "none"]
  /\ UNCHANGED <<tick, got, table, cassette, torn, accounts, made, faults>>

\* the provider answers one call of the batch, and bills it; that another build
\* answers is one of the faults that a run counts
Serve(r, a) ==
  /\ phase = "asking"
  /\ call[r] = "asked"
  /\ a.build # Pin => faults < MaxFaults
  /\ faults' = IF a.build # Pin THEN faults + 1 ELSE faults
  /\ call' = [call EXCEPT ![r] = "arrived"]
  /\ got' = [got EXCEPT ![r] = a]
  /\ served' = IF a.build = Pin THEN [served EXCEPT ![r] = @ + 1] ELSE served
  /\ UNCHANGED <<tick, phase, table, cassette, torn, lost, unlined, made>>

\* one call of the batch fails, after the retries of the gateway
Fail(r) ==
  /\ phase = "asking"
  /\ call[r] = "asked"
  /\ faults < MaxFaults
  /\ faults' = faults + 1
  /\ call' = [call EXCEPT ![r] = "failed"]
  /\ UNCHANGED <<tick, phase, got, table, cassette, torn, accounts, made>>

\* the answers that are in hand and not in the table are gone
Dropped ==
  lost' = [r \in Requests |->
    IF call[r] = "arrived" /\ got[r].build = Pin THEN lost[r] + 1 ELSE lost[r]]

\* _Bridge.run gives up on the whole gather: nobody has the answers it held
Timeout ==
  /\ MayTimeout
  /\ phase = "asking"
  /\ \E r \in Requests : call[r] = "asked"
  /\ faults < MaxFaults
  /\ faults' = faults + 1
  /\ phase' = "between"
  /\ call' = NoCalls
  /\ got' = [r \in Requests |-> None]
  /\ Dropped
  /\ UNCHANGED <<tick, table, cassette, torn, served, unlined, made>>

\* gather returns when every call has ended one way or the other
Gathered ==
  /\ phase = "asking"
  /\ \A r \in Requests : call[r] # "asked"
  /\ phase' = "storing"
  /\ UNCHANGED <<tick, call, got, table, cassette, torn, accounts, made, faults>>

\* mutant: no write-through, the cassette is left to the end of the run
StoreWithoutLine(r) ==
  /\ phase = "storing"
  /\ call[r] = "arrived"
  /\ call' = [call EXCEPT ![r] = "stored"]
  /\ table' = [table EXCEPT ![KeyOf(r, got[r])] =
       IF @ = None THEN got[r] ELSE @]
  /\ UNCHANGED <<tick, phase, got, cassette, torn, accounts, made, faults>>

\* Recorder.store, the insert: the first writer wins, and only a new row is
\* written through to the cassette
Store(r) ==
  /\ phase = "storing"
  /\ call[r] = "arrived"
  /\ LET k == KeyOf(r, got[r]) IN
     IF table[k] = None
     THEN /\ table' = [table EXCEPT ![k] = got[r]]
          /\ phase' = "append"
          /\ call' = [call EXCEPT ![r] = "kept"]
     ELSE /\ call' = [call EXCEPT ![r] = "stored"]
          /\ UNCHANGED <<table, phase>>
  /\ UNCHANGED <<tick, got, cassette, torn, accounts, made, faults>>

\* one row of the cassette
Line(r) == [key |-> KeyOf(r, got[r]), answer |-> got[r]]

\* Recorder.store, the write-through: a line on top of one that was torn is
\* part of that line, and neither parses
AppendLine(r) ==
  /\ phase = "append"
  /\ call[r] = "kept"
  /\ phase' = "storing"
  /\ call' = [call EXCEPT ![r] = "stored"]
  /\ cassette' = IF torn THEN cassette ELSE Append(cassette, Line(r))
  /\ unlined' = IF torn THEN unlined \cup {KeyOf(r, got[r])} ELSE unlined
  /\ torn' = FALSE
  /\ UNCHANGED <<tick, got, table, served, lost, made, faults>>

\* mutant: a failed call ends the batch before the others are kept
SettledEarly ==
  /\ phase = "storing"
  /\ \/ \E r \in Requests : call[r] = "failed"
     \/ \A r \in Requests : call[r] # "arrived"
  /\ phase' = IF \E r \in Requests : call[r] = "failed" THEN "between" ELSE "settled"
  /\ call' = NoCalls
  /\ got' = [r \in Requests |-> None]
  /\ UNCHANGED <<tick, table, cassette, torn, accounts, made, faults>>

\* the end of _fill: another build answered, or a call failed, or all is well.
\* A run that ends finalises the cassette, which drops a line that was torn.
Settled ==
  /\ phase = "storing"
  /\ \A r \in Requests : call[r] # "arrived"
  /\ \/ /\ \E r \in Requests : got[r] # None /\ got[r].build # Pin
        /\ phase' = "halted"
        /\ torn' = FALSE
     \/ /\ \A r \in Requests : got[r] # None => got[r].build = Pin
        /\ phase' = IF \E r \in Requests : call[r] = "failed" THEN "between" ELSE "settled"
        /\ UNCHANGED torn
  /\ call' = NoCalls
  /\ got' = [r \in Requests |-> None]
  /\ UNCHANGED <<tick, table, cassette, accounts, made, faults>>

Good(r) == OnRecord(r) # None /\ OnRecord(r).shape = "good"

\* the answers are interpreted, and the tick that asked for them commits
Decide ==
  /\ phase = "settled"
  /\ \A r \in Batch[tick] : Good(r)
  /\ made' = made \cup {[tick |-> tick, request |-> r, answer |-> OnRecord(r)]
                          : r \in Batch[tick]}
  /\ tick' = tick + 1
  /\ phase' = "between"
  /\ UNCHANGED <<call, got, table, cassette, torn, accounts, faults>>

\* parse_decision raises: MODEL_WEATHER, and the tick is run again
Misread ==
  /\ phase = "settled"
  /\ \E r \in Batch[tick] : ~Good(r)
  /\ phase' = "between"
  /\ UNCHANGED <<tick, call, got, table, cassette, torn, accounts, made, faults>>

\* kill -9; a line that was being written may be cut off
Crash ==
  /\ MayCrash
  /\ phase \notin {"down", "halted"}
  /\ faults < MaxFaults
  /\ faults' = faults + 1
  /\ torn' \in (IF phase = "append" THEN {torn, TRUE} ELSE {torn})
  /\ unlined' = unlined \cup {KeyOf(r, got[r]) : r \in {q \in Requests : call[q] = "kept"}}
  /\ phase' = "down"
  /\ call' = NoCalls
  /\ got' = [r \in Requests |-> None]
  /\ Dropped
  /\ UNCHANGED <<tick, table, cassette, served, made>>

\* load_cassette, as a function of the table: the first line of a key wins
Loaded(tab, lines) ==
  [k \in Keys |->
    IF tab[k] # None \/ \A i \in DOMAIN lines : lines[i].key # k THEN tab[k]
    ELSE LET first == CHOOSE i \in DOMAIN lines :
               lines[i].key = k /\ \A j \in 1 .. i - 1 : lines[j].key # k
         IN  lines[first].answer]

\* the process starts again, or a person starts it again after a halt
Restart ==
  /\ phase \in {"down", "halted"}
  /\ phase' = "between"
  /\ table' = Loaded(table, cassette)
  /\ UNCHANGED <<tick, call, got, cassette, torn, accounts, made, faults>>

Work ==
  \/ Ask \/ Gathered \/ Settled \/ Decide \/ Misread
  \/ \E r \in Requests : Store(r) \/ AppendLine(r)
  \/ \E r \in Requests, a \in Answers : Serve(r, a)

Next == Work \/ Timeout \/ Crash \/ Restart \/ \E r \in Requests : Fail(r)

\* Every call ends (EveryCallEnds of SpendGateway), the daemon runs a tick that
\* raised again (SIM-0002), a process that died, or halted on a build that is not
\* the pinned one, is started again, and a request that is asked often enough
\* gets a proper answer.
Spec == Init /\ [][Next]_vars
FairSpec ==
  /\ Spec /\ WF_vars(Work) /\ WF_vars(Restart)
  /\ \A r \in Requests : SF_vars(Serve(r, [build |-> Pin, shape |-> "good"]))

-----------------------------------------------------------------------------

\* design/009: "every model call already answered is found by hash, so nothing
\* is paid for twice", however often the tick that asked has to be run again:
\* the pinned build is asked again only for what died with a batch that was
\* given up, or with a process, before it was stored.
PaidOnce == \A r \in Requests : served[r] <= 1 + lost[r]

\* "Write-through: a run that dies halfway keeps what it paid for". A replay on
\* an empty database finds in the cassette what every decision was made on,
\* except for a line that a death cut off and the one written on top of it.
Replayable ==
  LET replay == Loaded([k \in Keys |-> None], cassette) IN
  \A m \in made : <<m.request, Pin>> \in unlined \/ replay[<<m.request, Pin>>] = m.answer

\* MODEL_WEATHER: the model's bad minutes pass, and the tick is decided, unless an
\* answer that does not parse was put on record.
TicksAreDecided ==
  <>(tick = LastTick + 1 \/ \E r \in Requests : OnRecord(r) # None /\ ~Good(r))
=============================================================================
