------------------------------- MODULE MCBook -------------------------------
(***************************************************************************)
(* Book on a small instance: three names, two of them in one sector, over  *)
(* three sessions.  A run finds every name plain, or one name odd, or two  *)
(* sharing an oddity of names that rank, or an odd market.                 *)
(***************************************************************************)
EXTENDS Book, TLC

CONSTANTS na, nb, nc

MCSector == [s \in Names |-> IF s = nc THEN "Unknown" ELSE "metals"]
Symmetry == Permutations({na, nb})

MCPenalty == [k \in {"low_volume_breakout", "gap_signal", "news_spike", "overextension",
                     "beta_explained_move", "earnings_distortion", "regime_transition",
                     "volatility_shock"} |-> 30]
Checks == (DOMAIN MCPenalty) \cup {"liquidity_distortion", "corporate_action_distortion",
                                   "momentum_crash"}

Twos == {p \in SUBSET Names : Cardinality(p) = 2}

Case == [evidence |-> "wide", gap |-> "wide", survival |-> "robust",
         momentumShare |-> "minor", quality |-> 1,
         ranks |-> [m \in {"v3", "pc1"} |-> 1]]

Plain ==
  [member |-> TRUE, silence |-> 0,
   printed |-> {1, 2, 3}, jump |-> "none", recorded |-> FALSE, move |-> "calm", volume |-> "thin",
   second |-> "near",
   history |-> "long", series |-> TRUE, price |-> "fair", adtv |-> "ok", silent |-> FALSE,
   bar |-> "open", room |-> "wide", level |-> "above", excluded |-> FALSE,
   results |-> "none", regulatory |-> "none", surveillance |-> "none", pledge |-> "none",
   factors |-> TRUE, scored |-> TRUE, average |-> "above", themesPositive |-> TRUE,
   bars |-> "enough", lastVolume |-> "normal", gap |-> "none", spike |-> "none",
   spikeVolume |-> "normal", extension |-> "none", beta |-> 0, confirmed |-> "none",
   action |-> "none", turnover |-> "normal",
   lot |-> "affordable", cost |-> 30, win |-> "high", cap |-> 100, px |-> 5,
   case |-> Case]

\* Oddities that put a name out before it is ranked, and those of names that rank.
Out ==
  {[Plain EXCEPT !.printed = {1}, !.silence = 2],
   [Plain EXCEPT !.move = "absolute"],
   [Plain EXCEPT !.jump = "circuit"],
   [Plain EXCEPT !.member = FALSE],
   [Plain EXCEPT !.adtv = "thin"],
   [Plain EXCEPT !.level = "below"],
   [Plain EXCEPT !.results = "inside"],
   [Plain EXCEPT !.factors = FALSE]}
Odd ==
  {[Plain EXCEPT !.printed = {}, !.silence = 3],
   [Plain EXCEPT !.scored = FALSE],
   [Plain EXCEPT !.average = "below", !.win = "low"],
   [Plain EXCEPT !.beta = 50],
   [Plain EXCEPT !.gap = "wide", !.extension = "wide"],
   [Plain EXCEPT !.turnover = "collapsed"],
   [Plain EXCEPT !.bars = "noatr"],
   [Plain EXCEPT !.lot = "dear", !.cap = 20, !.jump = "circuit", !.recorded = TRUE],
   [Plain EXCEPT !.cap = 20, !.case.quality = 2],
   [Plain EXCEPT !.case.gap = "narrow", !.win = "none"]}

Reading == [benchmark |-> TRUE, slope |-> "rising", slow |-> "above", vix |-> "mid",
            breadth |-> "middle", decline |-> "none", rebound |-> "none"]
Past == [known |-> TRUE] @@ Reading

\* One pair of names in a class and the others in another, or all in one.
OnePair(p, class, others) == (p :> class) @@ [q \in SUBSET Names |-> others]
Pairs(class) == OnePair({}, class, class)

Fair ==
  [now |-> Reading, before |-> Past, shock |-> "calm", scorerBuilt |-> TRUE,
   age |-> [f \in {"prices"} |-> {0}], maxAge |-> [f \in {"prices"} |-> 1],
   factors |-> TRUE, dispersion |-> "usual",
   correlation |-> Pairs("low"), residual |-> Pairs("low"), edge |-> {100}]

Falling == [Reading EXCEPT !.slope = "falling", !.slow = "below", !.vix = "extreme"]

OddMarkets ==
  {[Fair EXCEPT !.now = Falling],
   [Fair EXCEPT !.now = [Falling EXCEPT !.vix = "high"], !.shock = "spike"],
   [Fair EXCEPT !.now.benchmark = FALSE],
   [Fair EXCEPT !.age = [f \in {"prices"} |-> {2}]],
   [Fair EXCEPT !.scorerBuilt = FALSE],
   [Fair EXCEPT !.dispersion = "flat"],
   [Fair EXCEPT !.factors = FALSE],
   [Fair EXCEPT !.correlation = Pairs("none"), !.residual = Pairs("none")],
   [Fair EXCEPT !.edge = {}]}
  \cup {[Fair EXCEPT !.correlation = OnePair(p, "high", "low"),
                     !.residual = OnePair(p, "high", "low")] : p \in Twos}
  \cup {[Fair EXCEPT !.correlation = OnePair(p, "none", "high"),
                     !.residual = OnePair(p, "low", "none")] : p \in Twos}

View(odd, d) == [s \in Names |-> IF s \in odd THEN d ELSE Plain]
Views == {View({s}, d) : s \in Names, d \in Out \cup Odd} \cup {View(o, d) : o \in Twos, d \in Odd}
AllPlain == [s \in Names |-> Plain]

MCScenes == {[market |-> Fair, data |-> v] : v \in Views \cup {AllPlain}}
              \cup {[market |-> m, data |-> AllPlain] : m \in OddMarkets}

Rows == {<<t, v>> : t \in {"uptrend", "downtrend", "rangebound"},
                    v \in {"lowvol", "midvol", "highvol"}} \cup {CrashBucket}
NoEntry_ == {<<"downtrend", "highvol">>, CrashBucket}

Base ==
  [rejectDisagreement |-> TRUE, twoSources |-> FALSE, minSample |-> 3, maxFailedPct |-> 70,
   participationGate |-> TRUE, aboveInvalidation |-> TRUE, crash |-> TRUE,
   source |-> "v3_composite", floor |-> "entries", checks |-> Checks \ {"momentum_crash"},
   minScore |-> 0, minPercentile |-> 0, depth |-> 3,
   conviction |-> FALSE, knownOnly |-> TRUE,
   maxSignals |-> 2, maxPerSector |-> 1, dispersionFloor |-> TRUE, cashRule |-> 0,
   veto |-> FALSE]

MCPolicies ==
  {Base,
   [Base EXCEPT !.maxSignals = 1, !.maxPerSector = 2, !.veto = TRUE, !.cashRule = 2,
                !.depth = 2, !.checks = Checks, !.floor = "population",
                !.aboveInvalidation = FALSE],
   [Base EXCEPT !.conviction = TRUE, !.floor = "off", !.checks = Checks,
                !.source = "fitted_composite"],
   [Base EXCEPT !.source = "v9r_core"]}
=============================================================================
