------------------------------- MODULE Screen -------------------------------
(***************************************************************************)
(* What the data-quality, eligibility and false-signal stages decide about *)
(* one name from what the store holds of it on the decision date.          *)
(*                                                                         *)
(* A name's data is a record of classes, one per quantity a check          *)
(* compares with its threshold: "none" where the quantity cannot be        *)
(* computed, and otherwise the side of the threshold it falls on.          *)
(***************************************************************************)
EXTENDS Lists

CONSTANTS Sessions,    \* length of the continuity window, in sessions
          MaxMissing,  \* longest run of missing sessions tolerated
          Penalty,     \* check -> what it takes off the score
          MaxPenalty   \* stock penalty from which a name is rejected

ScreenAssumption ==
  /\ Sessions \in Nat \ {0} /\ MaxMissing \in 0..Sessions
  /\ MaxPenalty \in Nat \ {0}
ASSUME ScreenAssumption
-----------------------------------------------------------------------------
(* Stage 1: is the price history fit to be read at all.                    *)

\* No run of missing sessions is longer than the limit.
CheckContinuity(printed) ==
  \A i \in 1..(Sessions - MaxMissing) :
    \E j \in i..(i + MaxMissing) : j \in printed

\* A return past either limit stands only when the volume corroborates it.
CheckOutlier(d) == d.move = "calm" \/ d.volume = "heavy"

\* A close that stands to the one before it as after a split or a bonus, or beyond
\* any circuit limit, with no action recorded within a day of it.
UnexplainedJump(d) == d.jump \in {"clean", "circuit"} /\ ~d.recorded

CheckSourceAgreement(d, policy) ==
  CASE d.second = "none" -> "single_source"
    [] d.second = "near" -> "ok"
    [] d.second = "far"  -> IF policy.rejectDisagreement THEN "reject" ELSE "flag"

FailedChecks(d, policy) ==
  IF d.printed = {} THEN {"no_price"}
  ELSE LET source == CheckSourceAgreement(d, policy)
       IN  {c \in {"continuity", "unexplained_action", "outlier",
                   "source_agreement", "single_source"} :
              \/ c = "continuity" /\ ~CheckContinuity(d.printed)
              \/ c = "unexplained_action" /\ UnexplainedJump(d)
              \/ c = "outlier" /\ ~CheckOutlier(d)
              \/ c = "source_agreement" /\ source = "reject"
              \/ c = "single_source" /\ source = "single_source" /\ policy.twoSources}

\* The whole universe failing is the feed failing; a small one is not judged.
TooManyFailed(checked, failed, policy) ==
  /\ checked >= policy.minSample
  /\ failed * 100 > policy.maxFailedPct * checked

\* A feed the run cannot do without: absent, or older than it may be.
UnfitFeeds(age, maxAge) ==
  {f \in DOMAIN maxAge : age[f] = {} \/ \E a \in age[f] : a > maxAge[f]}

\* Stage 1 stops the run before a single name is judged, or after all are.
MarketWideHalt(feedsUnfit, printedBy, failed, policy) ==
  \/ feedsUnfit
  \/ \A s \in DOMAIN printedBy : printedBy[s] = {}
  \/ TooManyFailed(Cardinality(DOMAIN printedBy), Cardinality(failed), policy)
-----------------------------------------------------------------------------
(* Stage 3: may this name be considered, and if not, the first reason.     *)

\* Below the thesis-invalidation level, or with too little history to say.
OutsideModelDomain(d) == d.level \in {"none", "below"}

EarningsConflict(d) == d.results = "inside"

RegulatoryCooldown(d) == d.regulatory = "recent"

PledgingBreach(d) == d.pledge = "high"

Illiquid(d, policy) ==
  \/ d.adtv \in {"none", "thin"}
  \/ d.silent
  \/ d.bar = "locked"
  \/ policy.participationGate /\ d.room = "crowded"

\* The gates in the order the code tries them: the first that holds is the
\* reason recorded. A held name is not put out for lying outside the model's
\* domain: that question is asked of names to be entered.
Gates(d, clean, held, policy) ==
  << <<"data_quality", ~clean>>,
     <<"insufficient_history", d.history \in {"absent", "short"}>>,
     <<"series_not_allowed", ~d.series>>,
     <<"price_floor", d.price = "low">>,
     <<"illiquid", Illiquid(d, policy)>>,
     <<"outside_model_domain", ~held /\ policy.aboveInvalidation /\ OutsideModelDomain(d)>>,
     <<"manual_exclusion", d.excluded>>,
     <<"earnings_conflict", EarningsConflict(d)>>,
     <<"regulatory_cooldown", RegulatoryCooldown(d)>>,
     <<"surveillance_restriction", d.surveillance = "restricted">>,
     <<"pledging_breach", PledgingBreach(d)>> >>

Rejection(d, clean, held, policy) ==
  LET gates == Gates(d, clean, held, policy)
      first == SelectInSeq(gates, LAMBDA g : g[2])
  IN  IF first = 0 THEN "eligible" ELSE gates[first][1]
-----------------------------------------------------------------------------
(* Stage 5: what is wrong with the signal of a name that ranks.            *)

PriceChecks == {"low_volume_breakout", "gap_signal", "news_spike",
                "overextension", "beta_explained_move"}

\* The configuration prices every check that takes points off.
PenaltyAssumption ==
  Penalty \in [PriceChecks \cup {"earnings_distortion", "regime_transition",
                                 "volatility_shock"} -> Nat]
ASSUME PenaltyAssumption

\* Checks that take points off. Each is silent when its own inputs are missing,
\* and a name with under thirty sessions skips those that read its prices.
LowVolumeBreakout(d) == d.lastVolume = "thin"

GapSignal(d) == d.gap = "wide"

NewsSpike(d) == d.spike = "wide" /\ d.spikeVolume = "heavy"

Overextension(d) == d.extension = "wide"

\* beta: how far past the threshold the index explains the move, in hundredths of
\* what is left; 0 below it.
BetaExplained(d) == d.beta > 0

EarningsBehind(d) == d.confirmed = "behind"

Fires(d, k) ==
  \/ k = "low_volume_breakout" /\ LowVolumeBreakout(d)
  \/ k = "gap_signal" /\ GapSignal(d)
  \/ k = "news_spike" /\ NewsSpike(d)
  \/ k = "overextension" /\ Overextension(d)
  \/ k = "beta_explained_move" /\ BetaExplained(d)
  \/ k = "earnings_distortion" /\ EarningsBehind(d)

EarningsAhead(d) == d.confirmed = "ahead"

\* A ratio decides when any recent action carries one, else the action type;
\* neither leaves the check untestable.
CorporateActionDistortion(d) == d.action = "rescales"

LiquidityDistortion(d) == d.turnover = "collapsed"

HardRejects(d, on) ==
  \/ d.bars # "few" /\ "liquidity_distortion" \in on /\ LiquidityDistortion(d)
  \/ d.bars # "few" /\ "corporate_action_distortion" \in on /\ CorporateActionDistortion(d)
  \/ "earnings_distortion" \in on /\ EarningsAhead(d)

\* The penalty of a move the index explains grows with how much it explains.
Charge(d, k) ==
  IF k = "beta_explained_move" THEN (Penalty[k] * d.beta) \div 100 ELSE Penalty[k]

StockPenalty(d, on) ==
  LET fired == {k \in on : (d.bars # "few" \/ k \notin PriceChecks) /\ Fires(d, k)}
  IN  SumFunctionOnSet([k \in DOMAIN Penalty |-> Charge(d, k)], fired)

\* The checks that read the market and not the name: one penalty for all.
RegimeTransition(regime, on) ==
  IF "regime_transition" \in on /\ regime.transition THEN Penalty["regime_transition"] ELSE 0

VolatilityShock(shock, on) ==
  IF "volatility_shock" \in on /\ shock = "spike" THEN Penalty["volatility_shock"] ELSE 0

MomentumCrashMarket(bucket, halting, on) ==
  /\ "momentum_crash" \in on
  /\ bucket \in halting

MarketPenalty(regime, shock, on) == RegimeTransition(regime, on) + VolatilityShock(shock, on)

\* A name is put out by a hard check or by its own penalties alone; the
\* market's share only lowers the score.
FinalStatus(hard, stockPenalty, marketPenalty) ==
  CASE hard \/ stockPenalty >= MaxPenalty -> "REJECTED"
    [] ~hard /\ stockPenalty < MaxPenalty /\ stockPenalty + marketPenalty > 0 -> "PENALIZED"
    [] OTHER -> "CLEARED"

ScoreAfter(before, penalty) == IF before > penalty THEN before - penalty ELSE 0

\* How deep into the ranking the defence looks: the configured depth, or every
\* name the final stage could admit if that is more.
TopNToDefend(ranked, score, floor, depth) ==
  LET admissible == Cardinality({i \in DOMAIN ranked : score[ranked[i]] >= floor})
  IN  Prefix(ranked, IF admissible > depth THEN admissible ELSE depth)
=============================================================================
