-------------------------------- MODULE Book --------------------------------
(***************************************************************************)
(* The decision pipeline (prosignal/pipeline.py) run session after session *)
(* over one book: each analysis inherits the book and the screen of the    *)
(* last recorded run, takes the names through the stages in order, and     *)
(* records what it decided; a run that is blocked, raises or dies records  *)
(* nothing.                                                                *)
(*                                                                         *)
(* Analyses are one at a time here and the live lineage only: the job slot,*)
(* the store lock and the lineages have modules of their own.              *)
(***************************************************************************)
EXTENDS Screen, Regime, Ranking, Signal, Conviction, Slate, Backtest, Cadence,
        Directives, Sizing

CONSTANTS Names,       \* listed names
          Sector,      \* name -> sector, "Unknown" where the map has none
          Scenes,      \* what a run may find: [market, data]
          Policies,    \* configurations a run may be started with
          MaxSession   \* bound: the last session

\* The limits and the depth of the defence are counts; a turnover cap is an amount,
\* a price more than nothing, and the quality of a case a number; the correlation
\* of a pair is not measured, low or high; a move is explained by the index to some
\* hundredths; a close is below the level that would end the position
\* or above it, or the level cannot be computed.
BookAssumption ==
  /\ IsFiniteSet(Names) /\ MaxSession \in Nat \ {0}
  /\ \A p \in Policies : /\ p.maxSignals \in Nat /\ p.maxPerSector \in Nat /\ p.depth \in Nat
                         /\ p.minScore \in Int /\ p.minPercentile \in Int
  /\ \A sc \in Scenes, s \in Names : /\ sc.data[s].cap \in Nat /\ sc.data[s].px \in Nat \ {0}
                                     /\ sc.data[s].case.quality \in Int
                                     /\ sc.data[s].level \in {"none", "below", "above"}
                                     /\ sc.data[s].beta \in Nat
  /\ \A sc \in Scenes, s, t \in Names :
       sc.market.residual[{s, t}] \in {"none", "low", "high"}
ASSUME BookAssumption

VARIABLES
  today,    \* the last session in the store
  row,      \* the last recorded run of the lineage
  stage,    \* the stage the analysis is about to run
  scene,    \* what it found in the store
  policy,   \* its configuration
  held,     \* the open book it inherited
  since,    \* the screen it inherited: name -> session first shown
  clean,    \* names that passed stage 1
  regime,   \* what stage 2 read
  reason,   \* stage 3's verdict on each name of the universe
  ranked,   \* stage 4's order of all it scored
  defence,  \* stage 5: [status, score, halt]
  entry,    \* stages 6 and 7: [decision, plan]
  out       \* the outcome: [buys, watch, directives, slate, alloc]

work == <<clean, regime, reason, ranked, defence, entry, out>>
inputs == <<scene, policy, held, since>>
vars == <<today, row, stage, scene, policy, held, since, clean, regime, reason,
          ranked, defence, entry, out>>

Stages == {"idle", "quality", "regime", "eligibility", "ranking", "defence",
           "entry", "final", "record"}

Nothing == << >>
NoInput == [known |-> FALSE]

\* What a run finds and is given is not the want of it.
InputAssumption == NoInput \notin Scenes \cup Policies
ASSUME InputAssumption

NoDefence == [status |-> Nothing, score |-> Nothing, halt |-> FALSE]
NoEntry == [decision |-> Nothing, plan |-> Nothing]
NoOutcome == [buys |-> Nothing, watch |-> Nothing, directives |-> Nothing,
              slate |-> Nothing, alloc |-> Nothing]
NoRegime == [bucket |-> Nothing, trend |-> "rangebound", extremeVol |-> FALSE,
             transition |-> FALSE, allow |-> FALSE]
NoRow == [session |-> 0, signals |-> {}, shown |-> Nothing, directives |-> Nothing]

data == scene.data
market == scene.market
Universe == {s \in Names : data[s].member}
\* What stage 4 reports, each name with its rank in the whole order.
Listed == KeepRanked(ranked, data, policy.source, policy.floor)
RankOfName(s) == RankOf(ranked, s)
Ranks == [s \in Names |-> RankOfName(s)]
Defended == DOMAIN defence.status

Init ==
  /\ today = 1
  /\ row = NoRow
  /\ stage = "idle"
  /\ scene = NoInput /\ policy = NoInput
  /\ held = {} /\ since = Nothing
  /\ clean = {} /\ regime = NoRegime /\ reason = Nothing /\ ranked = Nothing
  /\ defence = NoDefence /\ entry = NoEntry /\ out = NoOutcome
-----------------------------------------------------------------------------
(* Starting and ending a run *)

\* An ingest, which the store lock keeps out of a run.
Ingest ==
  /\ stage = "idle" /\ today < MaxSession
  /\ today' = today + 1
  /\ UNCHANGED <<row, stage, inputs, work>>

\* The open book is what the last row says was bought.
OpenBook(r) == r.signals

\* previous_run() answers with a row strictly before the session scored.
Begin(sc, p) ==
  /\ stage = "idle" /\ row.session < today
  /\ stage' = "quality"
  /\ scene' = sc /\ policy' = p
  /\ held' = OpenBook(row) /\ since' = row.shown
  /\ UNCHANGED <<today, row, work>>

Forget ==
  /\ stage' = "idle"
  /\ clean' = {} /\ regime' = NoRegime /\ reason' = Nothing /\ ranked' = Nothing
  /\ defence' = NoDefence /\ entry' = NoEntry /\ out' = NoOutcome
  /\ held' = {} /\ since' = Nothing
  /\ scene' = NoInput /\ policy' = NoInput

Stop == Forget /\ UNCHANGED <<today, row>>

\* The process dies, a stage raises for a reason not modelled, or the append fails.
Crash == stage # "idle" /\ Stop

Goto(next) == stage' = next /\ UNCHANGED <<today, row, inputs>>
-----------------------------------------------------------------------------
(* The stages *)

Halting ==
  LET printed == [s \in Universe |-> data[s].printed]
      failed  == {s \in Universe : FailedChecks(data[s], policy) # {}}
  IN  MarketWideHalt(UnfitFeeds(market.age, market.maxAge) # {}, printed, failed, policy)

Passed == {s \in Universe : FailedChecks(data[s], policy) = {}}

\* PipelineBlocked before or after the names are checked.
Blocked1 == stage = "quality" /\ Halting /\ Stop

Quality ==
  /\ stage = "quality" /\ ~Halting
  /\ clean' = Passed
  /\ Goto("regime")
  /\ UNCHANGED <<regime, reason, ranked, defence, entry, out>>

Blocked2 == stage = "regime" /\ RegimeFails(market.now, policy.crash) /\ Stop

ReadRegime ==
  /\ stage = "regime" /\ ~RegimeFails(market.now, policy.crash)
  /\ regime' = RegimeState(market.now, market.before, policy.crash)
  /\ Goto("eligibility")
  /\ UNCHANGED <<clean, reason, ranked, defence, entry, out>>

Reasons == [s \in Universe |-> Rejection(data[s], s \in clean, s \in held, policy)]

Eligibility ==
  /\ stage = "eligibility"
  /\ reason' = Reasons
  /\ Goto("ranking")
  /\ UNCHANGED <<clean, regime, ranked, defence, entry, out>>

Eligible == {s \in DOMAIN reason : reason[s] = "eligible"}
Scored == {s \in Names : data[s].scored}

\* Names with enough of the factor weight measured to be in the composite, which
\* is the population of every scorer.
Scoreable == {s \in Eligible : data[s].factors}

\* No eligible name, or no factor that survived: an empty report and not a refusal.
NothingToScore == Eligible = {} \/ ~market.factors

ToRank == IF NothingToScore THEN {} ELSE Covered(policy.source, Scoreable, Scored)

Unrankable ==
  \/ ~NothingToScore
       /\ RankingUnavailable(policy.source, market.scorerBuilt, Scoreable, Scored)
  \/ FloorRaises(policy.source, policy.floor, ToRank)

\* A refusal blocks the run, an error in the floor fails it.
Blocked4 == stage = "ranking" /\ Unrankable /\ Stop

Rankings == Orders(ToRank)

Rank ==
  /\ stage = "ranking" /\ ~Unrankable
  /\ ranked' \in Rankings
  /\ Goto("defence")
  /\ UNCHANGED <<clean, regime, reason, defence, entry, out>>

Before(s) == UnitScore(ranked, s)

Penalties(s) == StockPenalty(data[s], policy.checks)
Markets == MarketPenalty(regime, market.shock, policy.checks)

Top ==
  ToSet(TopNToDefend(Listed, [s \in ToSet(Listed) |-> Before(s)],
                     Larger(policy.minScore, policy.minPercentile), policy.depth))

Defence ==
  [status |-> [s \in Top |-> FinalStatus(HardRejects(data[s], policy.checks),
                                         Penalties(s), Markets)],
   score  |-> [s \in Top |-> ScoreAfter(Before(s), Penalties(s) + Markets)],
   halt   |-> Top # {} /\ MomentumCrashMarket(regime.bucket, NoEntryBuckets \cup {CrashBucket},
                                              policy.checks)]

Defend ==
  /\ stage = "defence"
  /\ defence' = Defence
  /\ Goto("entry")
  /\ UNCHANGED <<clean, regime, reason, ranked, entry, out>>

\* The conviction gate takes over the entry schedule.
EntriesOpen == policy.conviction \/ IsEntryDate(1..today, today)

Entries ==
  LET decision == [s \in Defended |-> Decision(data[s], RankOfName(s), s \in held,
                                               EntriesOpen, policy)]
  IN  [decision |-> decision,
       plan |-> [s \in Defended |-> BuildPlan(data[s], decision[s])]]

Enter ==
  /\ stage = "entry"
  /\ entry' = Entries
  /\ Goto("final")
  /\ UNCHANGED <<clean, regime, reason, ranked, defence, out>>
-----------------------------------------------------------------------------
(* The two ways a run decides *)

\* With the conviction gate: what it clears and the best of that.
Cleared(list) ==
  Among(list, {s \in ToSet(list) : Failures(data[s].case, entry.plan[s], market.edge, regime,
                                            policy.knownOnly) = {}})

ConvictionBuys ==
  IF NotReached(Listed, defence.status, defence.halt) # "" THEN << >>
  ELSE LET order == ByScore(Among(ranked, Defended), defence.score)
           best  == ByQuality(Cleared(Shortlisted(order, defence.status)),
                              [s \in Names |-> data[s].case.quality])
       IN  SelectAtMostTwo(best, market.residual)

\* Without it: the names that qualify, taken under the limits of the book.
Survivors == {s \in Defended : defence.status[s] # "REJECTED"}

Qualifying ==
  Among(ByScore(Among(ranked, Survivors), defence.score),
        {s \in Survivors : Qualified(data[s], EntryAdmissible(data[s], policy.source, policy.floor),
                                     Before(s), defence.score[s], s \in held, policy)})

Closed ==
  \/ Blocked(regime, defence.halt, market, data, Listed, policy)
  \/ VetoBlind(data, ToSet(Listed), policy)

LimitedBook == Select(Qualifying, entry.decision, held, Closed, Sector,
                      market.correlation, policy)

Selected ==
  IF policy.conviction THEN [buys |-> ConvictionBuys, watch |-> << >>] ELSE LimitedBook

\* The review of open positions, the screen and the sizes of what was selected.
Outcome(sel) ==
  LET b == ToSet(sel.buys)
      w == ToSet(sel.watch)
      known == {s \in b : entry.plan[s].made /\ entry.plan[s].liquidity = "KNOWN_VALID"}
  IN  [buys |-> sel.buys, watch |-> sel.watch,
       directives |-> ReviewOpenPositions(held, b, w, data),
       slate |-> SelectSlate(since, b, w, Ranks, today),
       alloc |-> Positions([s \in known |-> data[s].cap], [s \in known |-> data[s].px], known)]

Decide ==
  /\ stage = "final"
  /\ out' = Outcome(Selected)
  /\ Goto("record")
  /\ UNCHANGED <<clean, regime, reason, ranked, defence, entry>>

Record ==
  /\ stage = "record"
  /\ row' = [session |-> today, signals |-> ToSet(out.buys), shown |-> out.slate,
             directives |-> out.directives]
  /\ Forget
  /\ UNCHANGED today

Analysis ==
  \/ \E sc \in Scenes, p \in Policies : Begin(sc, p)
  \/ Quality \/ ReadRegime \/ Eligibility \/ Rank \/ Defend \/ Enter \/ Decide \/ Record

Next == Ingest \/ Analysis \/ Blocked1 \/ Blocked2 \/ Blocked4 \/ Crash

Spec == Init /\ [][Next]_vars
-----------------------------------------------------------------------------
(* Properties *)

\* Every variable has the shape of its stage's result.
TypeOK ==
  /\ today \in 1..MaxSession
  /\ row.session \in 0..today /\ row.signals \subseteq Names
  /\ DOMAIN row.shown \subseteq Names
  /\ \A s \in DOMAIN row.shown : row.shown[s] \in 1..row.session
  /\ stage \in Stages
  /\ scene \in Scenes \cup {NoInput} /\ policy \in Policies \cup {NoInput}
  /\ (stage = "idle") = (scene = NoInput)
  /\ held \subseteq Names /\ clean \subseteq Names
  /\ ToSet(ranked) \subseteq Names /\ IsInjective(ranked)
  /\ Defended \subseteq ToSet(ranked)

Recording == stage = "record"
Bought == ToSet(out.buys)
Watched == ToSet(out.watch)

\* A held name that trades, that the defence did not reject, that clears the
\* floors and ranks inside the exit band stays in the book whatever the regime,
\* the halt, the cash rule, the entry clock, its sector or its correlations
\* say, unless the book is full of held names that score as well.
BandKeepsHeld ==
  Recording /\ ~policy.conviction =>
    \A s \in held \cap Survivors :
      /\ data[s].bars = "enough"
      /\ EntryAdmissible(data[s], policy.source, policy.floor)
      /\ defence.score[s] >= policy.minScore /\ Before(s) >= policy.minPercentile
      /\ RankOfName(s) <= ExitRank
      /\ s \notin Bought
      => Cardinality({t \in held \cap Bought : defence.score[t] >= defence.score[s]})
           = policy.maxSignals

\* A name that enters the book was clean, eligible as a name not held and not
\* rejected; it has a price to enter at; without the conviction gate the market
\* admits entries, the clock is open, the name is inside the entry band and
\* above the level that would close it; with the gate its cost is known and the
\* turnover it is sized against was measured.
NewBuyIsEarned ==
  Recording =>
    \A s \in Bought \ held :
      /\ s \in clean
      /\ Rejection(data[s], TRUE, FALSE, policy) = "eligible"
      /\ s \in Survivors /\ ~defence.halt
      /\ entry.plan[s].made
      /\ ~policy.conviction =>
           /\ regime.allow /\ IsEntryDate(1..today, today)
           /\ RankOfName(s) <= EntryRank
           /\ policy.aboveInvalidation => data[s].level = "above"
      /\ policy.conviction =>
           /\ entry.plan[s].cost # {}
           /\ policy.knownOnly => entry.plan[s].liquidity = "KNOWN_VALID"

\* The limits of the book count what it holds already: a name that enters finds
\* room in the book and in its sector, and no name of the book moves with it.
LimitsHold ==
  Recording /\ ~policy.conviction =>
    /\ Len(out.buys) <= policy.maxSignals
    /\ \A s \in Bought \ held :
         /\ InSector(Sector, s, out.buys) <= policy.maxPerSector
         /\ ~TooCorrelated(s, out.buys, market.correlation)

\* The survivors the gate hears, the best by score and between equals by rank.
Heard ==
  {s \in Survivors :
     Cardinality({t \in Survivors : \/ defence.score[t] > defence.score[s]
                                   \/ /\ defence.score[t] = defence.score[s]
                                      /\ RankOfName(t) < RankOfName(s)}) < Shortlist}

\* The gate buys only names of its shortlist that no test refuses, the best of
\* them first and then the best of those shown not to move with the first; a name
\* passed over for moving with it, or for a correlation nobody could measure,
\* keeps no slot from the names after it.
GateFillsItsSlots ==
  Recording /\ policy.conviction =>
    LET cleared == {s \in Heard :
                      Failures(data[s].case, entry.plan[s], market.edge, regime,
                               policy.knownOnly) = {}}
        quality == [s \in Names |-> data[s].case.quality]
        first   == out.buys[1]
        apart   == {s \in cleared \ {first} : market.residual[{first, s}] = "low"}
    IN  /\ Bought \subseteq cleared
        /\ Len(Listed) >= MinField /\ ~defence.halt /\ cleared # {} => Bought # {}
        /\ Bought # {} =>
             /\ \A s \in cleared : quality[s] <= quality[first]
             /\ Bought \ {first} \subseteq apart
             /\ Len(out.buys) = Smaller(MaxBuys, 1 + Cardinality(apart))
             /\ \A s \in apart \ Bought, t \in Bought \ {first} : quality[s] <= quality[t]

\* The screen is stable: a name shown stays, with the date it was first shown,
\* until the run no longer produces it, its rank leaves the exit band, or every
\* slot is held by a name shown before it that ranks better; a name that leaves
\* is not shown as new the same day.
ScreenIsStable ==
  Recording =>
    LET shown == DOMAIN since
        next  == DOMAIN out.slate
    IN  /\ Cardinality(next) <= EntryRank
        /\ \A s \in next : out.slate[s] = IF s \in shown THEN since[s] ELSE today
        /\ \A s \in shown \cap (Bought \cup Watched) :
             s \notin next /\ RankOfName(s) <= ExitRank =>
               /\ Cardinality(next) = EntryRank
               /\ \A t \in next : t \in shown /\ RankOfName(t) < RankOfName(s)
        /\ \A s \in next : RankOfName(s) > ExitRank => s \notin shown

\* The sizes add up to no more than the capital, none beyond what its turnover
\* allows; of two names sized the one with less by a whole share has no more
\* room under its own limit; and while one of them has room, what is left over
\* would not buy a share of each.
CapitalIsSpread ==
  Recording =>
    LET a == out.alloc
    IN  /\ Total(a, DOMAIN a) <= Capital
        /\ \A s \in DOMAIN a : a[s] <= data[s].cap
        /\ \A s, t \in DOMAIN a :
             a[s] + data[s].px <= a[t] => a[s] + data[s].px > data[s].cap
        /\ (\E s \in DOMAIN a : a[s] + data[s].px <= data[s].cap) =>
             Capital - Total(a, DOMAIN a) < Total([s \in Bought |-> data[s].px], Bought)

\* "That is the live book's arithmetic": when no gate but the rank speaks, the
\* book the live pipeline records is the one the simulation would hold from the
\* same ranking and the book before it. The conjuncts are what the simulation
\* knows nothing of: the defence, which may put names out and reorder the others,
\* the floors, the block, the entry clock, bars too few to price, the sector and the
\* correlations, and a book smaller than what it inherits. The level a position
\* closes below is not among them, since stage 3 asks for it before anything is
\* ranked.
LiveBookIsTheSimulated ==
  Recording /\ ~policy.conviction =>
    LET band    == ToSet(SubSeq(ranked, 1, Smaller(ExitRank, Len(ranked))))
        simbook == SimulatedBook(held, ranked, policy.maxSignals)
    IN  /\ band \subseteq ToSet(Qualifying)
        /\ \A s, t \in band :
             RankOfName(s) < RankOfName(t) => defence.score[s] >= defence.score[t]
        /\ ~Closed /\ EntriesOpen
        /\ \A s \in band : data[s].bars = "enough"
        /\ \A s, t \in simbook : s # t => ~SameSector(Sector, s, t)
        /\ \A s, t \in simbook : s # t => market.correlation[{s, t}] # "high"
        /\ policy.maxPerSector > 0
        /\ Cardinality(held \cap band) <= policy.maxSignals
        => Bought = simbook
-----------------------------------------------------------------------------
(* What the repository says and the code does not do *)

\* "Ledger.open_book unions the ones still held into the next run's book": a
\* name the last run said to hold is held when the next run begins.
HeldUntilClosed ==
  stage # "idle" =>
    \A s \in DOMAIN row.directives : row.directives[s] \in Holding => s \in held
=============================================================================
