----------------------------- MODULE Conviction -----------------------------
(***************************************************************************)
(* The conviction gate: of the names the defence left standing it clears   *)
(* those no test refuses, and buys the best of them, adding others only    *)
(* while each can be shown independent of the first.                       *)
(*                                                                         *)
(* A candidate's case is a record of classes, one for each measured        *)
(* quantity, "none" where the quantity is not testable.                    *)
(***************************************************************************)
EXTENDS Lists

CONSTANTS MinField,        \* names a cross-section needs (8)
          Shortlist,       \* names taken to full evaluation
          MaxBuys,         \* slots
          MaxCostBurden,   \* share of the measured edge costs may take, percent
          AgreementTopK,   \* a specification agrees when it ranks the name here
          MinAgreement     \* share of specifications that must agree, percent

ConvictionAssumption ==
  /\ MinField \in Nat /\ Shortlist \in Nat \ {0} /\ MaxBuys \in Nat \ {0}
  /\ MaxCostBurden \in Nat /\ AgreementTopK \in Nat /\ MinAgreement \in Nat
ASSUME ConvictionAssumption
-----------------------------------------------------------------------------
(* The tests a candidate faces.                                            *)

\* edge is the measured edge for the holding horizon, {} when the results file
\* has no arm for that horizon and window.
NetEdgeTestable(edge, plan) == edge # {} /\ plan.made /\ plan.cost # {}

EconomicsFails(edge, plan) ==
  \/ ~NetEdgeTestable(edge, plan)
  \/ \E gross \in edge, cost \in plan.cost :
       \/ gross - cost <= 0
       \/ cost * 100 > MaxCostBurden * gross

\* ranks: specification -> rank, over those that cover the name. Fewer than
\* two cannot disagree, and that is noted, never counted against the name.
AgreementFails(ranks) ==
  LET agreeing == {m \in DOMAIN ranks : ranks[m] <= AgreementTopK}
  IN  /\ Cardinality(DOMAIN ranks) >= 2
      /\ Cardinality(agreeing) * 100 < MinAgreement * Cardinality(DOMAIN ranks)

EvidenceFails(c) == c.evidence \in {"none", "thin", "concentrated"}

SeparationFails(c) == c.gap \in {"none", "narrow"}

RobustnessFails(c) == c.survival \in {"none", "fragile"}

LiquidityFails(plan, knownOnly) ==
  plan.made /\ knownOnly /\ plan.liquidity # "KNOWN_VALID"

PanicState(regime) ==
  regime.extremeVol /\ (regime.trend = "downtrend" \/ regime.transition)

MomentumRefused(c, regime) == PanicState(regime) /\ c.momentumShare = "major"

\* Every reason the gate has to refuse a candidate; none clears it.
Failures(c, plan, edge, regime, knownOnly) ==
  {f \in {"evidence", "separation", "robustness", "economics", "agreement",
          "liquidity", "momentum"} :
     \/ f = "evidence" /\ EvidenceFails(c)
     \/ f = "separation" /\ SeparationFails(c)
     \/ f = "robustness" /\ RobustnessFails(c)
     \/ f = "economics" /\ EconomicsFails(edge, plan)
     \/ f = "agreement" /\ AgreementFails(c.ranks)
     \/ f = "liquidity" /\ LiquidityFails(plan, knownOnly)
     \/ f = "momentum" /\ MomentumRefused(c, regime)}
-----------------------------------------------------------------------------
(* Is the second name a second position.                                   *)

NoScore == "no score"

\* The cosine of two theme vectors; a missing score is the zero vector, whose
\* cosine with anything is undefined.
EvidenceSimilarity(scoreA, scoreB) ==
  IF scoreA = NoScore \/ scoreB = NoScore THEN "none"
  ELSE IF scoreA = scoreB THEN "same" ELSE "different"

\* residual: the pair's correlation once the market is out, {} when any leg
\* of it would not estimate. One bet held twice is a basket under its floor.
AssessPair(a, b, residual, scoreA, scoreB) ==
  [testable   |-> residual[{a, b}] # "none",
   residual   |-> residual[{a, b}],
   similarity |-> EvidenceSimilarity(scoreA, scoreB),
   basket     |-> IF residual[{a, b}] = "high" THEN "one" ELSE "two"]

\* The gate names the pair and not their scores.
Independent(a, b, residual) ==
  LET ind == AssessPair(a, b, residual, NoScore, NoScore)
  IN  /\ ind.testable
      /\ ind.residual # "high"
      /\ ind.similarity # "same"
      /\ ind.basket # "one"
-----------------------------------------------------------------------------
\* Mutant: a name that moves with the first ends the search.
AddingUntilRefused(buys, n, cleared, residual) ==
  IF /\ Len(buys) < MaxBuys
     /\ \A k \in 2..n : Independent(cleared[1], cleared[k], residual)
  THEN Append(buys, cleared[n]) ELSE buys

\* The cleared candidates, best first, taken while slots remain: the first
\* always, each other one only when independent of the first.
Adding(buys, n, cleared, residual) ==
  IF n = 1 \/ (Len(buys) < MaxBuys /\ Independent(cleared[1], cleared[n], residual))
  THEN Append(buys, cleared[n]) ELSE buys

SelectAtMostTwo(cleared, residual) ==
  LET buys[n \in 0..Len(cleared)] ==
        IF n = 0 THEN << >> ELSE Adding(buys[n - 1], n, cleared, residual)
  IN  buys[Len(cleared)]

\* Cleared candidates by quality, the shortlist's order between equals.
ByQuality(list, quality) == HighestFirst(list, quality)

\* Why no name reached the gate; "" when some did.
NotReached(ranked, status, halt) ==
  CASE Len(ranked) < MinField -> "universe"
    [] Len(ranked) >= MinField /\ halt -> "halt"
    [] Len(ranked) >= MinField /\ ~halt
         /\ {s \in DOMAIN status : status[s] \in {"CLEARED", "PENALIZED"}} = {} -> "no_candidate"
    [] OTHER -> ""

\* The survivors by their score after the defence, down to the shortlist.
Shortlisted(order, status) ==
  Prefix(Among(order, {s \in DOMAIN status : status[s] \in {"CLEARED", "PENALIZED"}}), Shortlist)
=============================================================================
