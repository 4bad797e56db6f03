------------------------------ MODULE MCDeciding ------------------------------
(* How a decision is come by, part by part: the ledger its calls are entered *)
(* in, the calls of a tick, the second opinions, what is made of an answer,  *)
(* and what may be answered at all. The parts share no state. A behaviour    *)
(* picks one and leaves the others as they start.                            *)
EXTENDS SpendLedger, ModelCalls, SecondOpinions, Weighing, Judgements

CONSTANTS daemon, api, c1, c2, r1, r2, r3

VARIABLE part

MCHandles == {daemon, api}
MCCalls == {c1, c2}
MCAmounts == {1, 2}

MCRequests == {r1, r2, r3}
MCBatch == [t \in 1 .. LastTick |->
  CASE t = 1 -> {r1, r2} [] t = 2 -> {r2, r3} [] t = 3 -> {r1, r3}]

MCEscalations == << <<1, 2>>, <<2, 1, 1>>, <<1>> >>

Firm == {"tallybird", "halloran", "ledgerline", "thirdrail"}
MCDealings == {{}, {"tallybird", "thirdrail"}}
MCWaiting == {Firm \ {"ledgerline"}}

Picks == {"ledger", "calls", "opinions", "weighing", "judgements"}

\* where a part that is not picked stands still
Still ==
  /\ part = "ledger" \/ legacyUp = FALSE
  /\ part = "opinions" \/ (live = {1} /\ reachable = {})
  /\ part = "weighing" \/
       /\ ask = [primitive |-> "noul", mode |-> "J", level |-> "low", live |-> FALSE]
       /\ jev = [o \in Options |-> IF o = 1 THEN 1 ELSE 0]
  /\ part = "judgements" \/ (kind = "ticket.answer" /\ facts = [none |-> 0])

DecidingInit ==
  /\ part \in Picks /\ Still
  /\ LedgerInit /\ Init /\ OpinionsInit /\ WeighingInit /\ JudgementsInit

\* the others', left alone
StillLedger == UNCHANGED ledgerVars
StillCalls == UNCHANGED vars
StillOpinions == UNCHANGED opinionVars
StillWeighing == UNCHANGED weighVars
StillJudgements == UNCHANGED judgeVars

DecidingNext ==
  /\ UNCHANGED part
  /\ \/ /\ part = "ledger" /\ LedgerNext
        /\ StillCalls /\ StillOpinions /\ StillWeighing /\ StillJudgements
     \/ /\ part = "calls" /\ Next
        /\ StillLedger /\ StillOpinions /\ StillWeighing /\ StillJudgements
     \/ /\ part = "opinions" /\ OpinionsNext
        /\ StillLedger /\ StillCalls /\ StillWeighing /\ StillJudgements
     \/ /\ part = "weighing" /\ Escalate
        /\ StillLedger /\ StillCalls /\ StillOpinions /\ StillJudgements
     \/ /\ part = "judgements" /\ TwinDecides
        /\ StillLedger /\ StillCalls /\ StillOpinions /\ StillWeighing

(* The fairness is of the calls and all that is asked of it is about them:  *)
(* in a behaviour of another part they would have to go on and cannot, so    *)
(* no such behaviour is fair. The invariants are of every behaviour.         *)
DecidingSpec ==
  /\ DecidingInit
  /\ [][DecidingNext]_<<part, ledgerVars, vars, opinionVars, weighVars, judgeVars>>
  /\ WF_vars(Work) /\ WF_vars(Restart)
  /\ \A r \in Requests : SF_vars(Serve(r, [build |-> Pin, shape |-> "good"]))
=============================================================================
