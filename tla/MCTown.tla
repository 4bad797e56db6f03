-------------------------------- MODULE MCTown --------------------------------
(* The life of the town, part by part: closing the books, the hours of a     *)
(* firm, the vendor's engineering, its subscribers, talk, a conversation and *)
(* where people are. The parts share no state. A behaviour picks one and     *)
(* leaves the others as they start.                                          *)
EXTENDS Closes, Hours, Engineering, Subscribers, Talk, Rounds, Whereabouts

CONSTANTS law, accounting, partner, junior, ada, bo, ann, ben, lead, barista, eng

VARIABLE part

MCDebtBy == [roadmap |-> 8, firefight |-> 3, debt |-> -15, other |-> 0]

MCHolderOf == [s \in {"crm", "pos", "timetrack"} |-> IF s = "timetrack" THEN law ELSE ada]

MCFirmOf == <<1, 2, 3, 2>>
MCClerk == [f \in {1} |-> 1]
MCOwing == {<<2, 1>>}

MCEmployerOf == [p \in {lead, barista, eng} |-> IF p = eng THEN "software_office" ELSE "cafe"]
MCShiftOf == [p \in {lead, barista, eng} |->
  CASE p = lead -> {0, 1, 2} [] p = barista -> {2, 3} [] p = eng -> {1, 2}]
MCOpenAt == [f \in {"cafe", "software_office"} |-> IF f = "cafe" THEN 0 .. 3 ELSE {1, 2}]

Picks == {"closes", "hours", "engineering", "subscribers", "talk", "rounds", "whereabouts"}

\* Where a part that is not picked stands still. Nobody's books are closed there:
\* closes that stood still would keep no promise. Of the hours, both clients have
\* a matter in the first month, and one of them in the second.
StillInit ==
  /\ engaged = [m \in MonthEnds |-> [c \in Customers |->
                  IF part = "hours" /\ (m = 0 \/ c = ada) THEN 3 ELSE 0]]
  /\ part = "engineering" \/ twin = FALSE
  /\ part = "rounds" \/
       /\ byTwin = TRUE /\ departures = {} /\ hasNews = {}
       /\ stakeRole = [p \in Seats |-> "bystander"]

NoCloses ==
  /\ office = FALSE /\ planned = {} /\ running = {} /\ failed = Clients
  /\ byHand = [c \in Clients |-> 0] /\ audited = [c \in Clients |-> FALSE]
  /\ trueUp = [c \in Clients |-> 0] /\ charged = [c \in Clients |-> 0]
  /\ closes = [c \in Clients |-> 0]

TownInit ==
  /\ part \in Picks /\ StillInit
  /\ IF part = "closes" THEN ClosesInit ELSE NoCloses
  /\ HoursInit /\ EngineeringInit /\ SubscribersInit /\ TalkInit /\ RoundsInit /\ WhereInit

StillCloses == UNCHANGED closesVars
StillHours == UNCHANGED hoursVars
StillEngineering == UNCHANGED engineeringVars
StillSubscribers == UNCHANGED subscriberVars
StillTalk == UNCHANGED talkVars
StillRounds == UNCHANGED roundsVars
StillWhere == UNCHANGED whereVars

StillShop == StillCloses /\ StillHours /\ StillEngineering /\ StillSubscribers
StillStreet == StillTalk /\ StillRounds /\ StillWhere

TownNext ==
  /\ UNCHANGED part
  /\ \/ /\ part = "closes" /\ ClosesNext
        /\ StillHours /\ StillEngineering /\ StillSubscribers /\ StillStreet
     \/ /\ part = "hours" /\ HoursNext
        /\ StillCloses /\ StillEngineering /\ StillSubscribers /\ StillStreet
     \/ /\ part = "engineering" /\ EngineeringNext
        /\ StillCloses /\ StillHours /\ StillSubscribers /\ StillStreet
     \/ /\ part = "subscribers" /\ SubscribersNext
        /\ StillCloses /\ StillHours /\ StillEngineering /\ StillStreet
     \/ /\ part = "talk" /\ TalkNext
        /\ StillShop /\ StillRounds /\ StillWhere
     \/ /\ part = "rounds" /\ Round
        /\ StillShop /\ StillTalk /\ StillWhere
     \/ /\ part = "whereabouts" /\ WhereNext
        /\ StillShop /\ StillTalk /\ StillRounds

\* the fairness of ClosesSpec and of EngineeringSpec, each in its own part
ClosesGoOn == part = "closes" /\ Work
WeeksGoOn == part = "engineering" /\ (Allocate \/ NobodyLeads \/ Deploy)

TownSpec ==
  /\ TownInit
  /\ [][TownNext]_<<part, closesVars, hoursVars, engineeringVars, subscriberVars, talkVars,
                    roundsVars, whereVars>>
  /\ WF_closesVars(ClosesGoOn) /\ WF_engineeringVars(WeeksGoOn)
=============================================================================
