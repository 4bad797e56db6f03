------------------------------ MODULE Weighing ------------------------------
(***************************************************************************)
(* From an answer to a value. Jev answers a question with mass over its     *)
(* options; where that is uncertain and the stakes allow it, a second       *)
(* opinion is asked; what is acted on is its judgement, or for a            *)
(* propensity an even mixture of the two. Then a judgement is the option    *)
(* with the most mass and a propensity is drawn.                            *)
(*                                                                         *)
(* Mass is a whole number of parts of its total, so nothing is rounded: a   *)
(* roll r of a distribution d is the draw r / Total(d).                     *)
(***************************************************************************)
EXTENDS Integers, FiniteSets

CONSTANTS
  LastOption, \* options are 1 .. LastOption, in declared order
  Parts       \* a distribution gives each option 0 .. Parts parts

ASSUME WeighingAssumption == LastOption \in Nat \ {0, 1} /\ Parts \in Nat \ {0}

VARIABLES
  ask,      \* how it is asked, and what is at stake
  jev,      \* Jev's answer
  second,   \* the second opinion, once there is one
  stage     \* "asked", "escalated"

weighVars == <<ask, jev, second, stage>>

Options == 1 .. LastOption
Distributions == {d \in [Options -> 0 .. Parts] : \E o \in Options : d[o] > 0}

(* The mass up to and with option o.                                       *)
UpTo(d) ==
  LET up[o \in 0 .. LastOption] == IF o = 0 THEN 0 ELSE up[o - 1] + d[o] IN up

Total(d) == UpTo(d)[LastOption]

-----------------------------------------------------------------------------
(* The most likely option: of equals, the first declared.                  *)
IsBest(d, o) ==
  /\ o \in Options
  /\ \A p \in Options : d[p] <= d[o] /\ (p < o => d[p] < d[o])

Best(d) == CHOOSE o \in Options : IsBest(d, o)

\* mutant: a roll on the edge of two options falls to the first
DrawnAtMost(d, r) ==
  CHOOSE o \in Options : r <= UpTo(d)[o] /\ \A p \in 1 .. (o - 1) : r > UpTo(d)[p]

Drawn(d, r) ==
  CHOOSE o \in Options : r < UpTo(d)[o] /\ r >= UpTo(d)[o - 1]

-----------------------------------------------------------------------------
(* Is it uncertain? Bands are percents of the whole, widened by half when  *)
(* the stakes are high.                                                    *)

Widen(level) == IF level = "high" THEN 3 ELSE 2

\* x parts of d are less than the band
Under(x, d, percent, level) == 200 * x < percent * Widen(level) * Total(d)

NextMost(d) ==
  CHOOSE x \in 0 .. Parts :
    /\ \E o \in Options \ {Best(d)} : d[o] = x
    /\ \A o \in Options \ {Best(d)} : d[o] <= x

ChoiceIsOpen(d, level) ==
  \/ Under(d[Best(d)], d, 50, level)
  \/ Under(d[Best(d)] - NextMost(d), d, 15, level)

(* The boundary is between the top level and the heavier of its neighbours, *)
(* the lower of two equal ones; this band is not widened.                   *)
Boundary(d) ==
  LET best == Best(d)
      higher == best + 1 \in Options
                /\ (best - 1 \in Options => d[best + 1] > d[best - 1])
  IN IF higher THEN best ELSE best - 1

ScoreStraddles(d, level) ==
  LET below == UpTo(d)[Boundary(d)]
  IN /\ Under(d[Best(d)], d, 40, level)
     /\ ~Under(below, d, 25, "medium") /\ ~Under(Total(d) - below, d, 25, "medium")

\* "yes" is the first of two options
NoulIsClose(d, level) ==
  LET off == IF 2 * d[1] >= Total(d) THEN 2 * d[1] - Total(d) ELSE Total(d) - 2 * d[1]
  IN Under(off, d, 24, level)

IsNoul == ask.primitive = "noul"

(* A propensity is what indecision looks like: only high stakes ask again. *)
WorthAsking == ask.level # "low" /\ (ask.mode = "P" => ask.level = "high")

Uncertain ==
  CASE ask.primitive = "choice" -> ChoiceIsOpen(jev, ask.level)
    [] ask.primitive = "score" -> ScoreStraddles(jev, ask.level)
    [] IsNoul -> NoulIsClose(jev, ask.level)

-----------------------------------------------------------------------------

(* An even mixture: half of each one's share.                              *)
Mixed(a, b) == [o \in Options |-> a[o] * Total(b) + b[o] * Total(a)]

(* A second opinion acts where its question set is live and Jev was unsure; *)
(* elsewhere it is only measured.                                          *)
Acted ==
  IF stage = "asked" \/ ~ask.live \/ ~Uncertain THEN jev
  ELSE IF ask.mode = "J" THEN second ELSE Mixed(jev, second)

\* do both put most on the same option?
Agrees(a, b) == Best(a) = Best(b)

-----------------------------------------------------------------------------
(* A noul is two options, yes and no.                                      *)
Replies ==
  {d \in Distributions : IsNoul => \A o \in Options : o > 2 => d[o] = 0}

WeighingInit ==
  /\ ask \in [primitive : {"choice", "score", "noul"}, mode : {"J", "P"},
              level : {"low", "medium", "high"}, live : BOOLEAN]
  /\ jev \in Replies /\ second = jev
  /\ stage = "asked"

(* Asked again: what is uncertain, and one in fifty of what is not.        *)
Escalate ==
  /\ stage = "asked" /\ WorthAsking
  /\ second' \in Replies
  /\ stage' = "escalated"
  /\ UNCHANGED <<ask, jev>>

WeighingSpec == WeighingInit /\ [][Escalate]_weighVars

-----------------------------------------------------------------------------
(* Where the two tiers agree, asking again changes nothing: the option both *)
(* gave the most mass, the first declared of equals, is the most likely     *)
(* still.                                                                  *)
AgreementIsKept == Agrees(jev, second) => Best(Acted) = Best(jev)

(* A propensity keeps the persona: whatever Jev gave any mass is drawn by   *)
(* some roll, whoever was asked after it; and nothing is that neither gave. *)
KeepsThePersona ==
  ask.mode = "P" =>
    \A o \in Options :
      LET share == Cardinality({r \in 0 .. Total(Acted) - 1 : Drawn(Acted, r) = o})
      IN (jev[o] > 0 => share > 0) /\ (share > 0 => jev[o] + second[o] > 0)

(* A second opinion breaks neither.                                        *)
WeighedFairly == AgreementIsKept /\ KeepsThePersona
=============================================================================
