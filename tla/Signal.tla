------------------------------- MODULE Signal -------------------------------
(***************************************************************************)
(* The entry band, the risk plan and the final selection: of the names the *)
(* defence left standing, which are triggered, which can be priced, and    *)
(* which become buys under the book's limits.                              *)
(*                                                                         *)
(* A decision is [status, priced]; a selection is [buys, watch], two       *)
(* sequences of names in the order the code emits them.                    *)
(***************************************************************************)
EXTENDS Bands
-----------------------------------------------------------------------------
(* Stage 6 *)

\* Mutant: one band for every name.
AdmitEntryOnly(rank, held) == rank # 0 /\ rank <= EntryRank

\* The hysteresis band. Rank 0 stands for a name the ranking does not hold.
Admit(rank, held) ==
  /\ rank # 0
  /\ rank <= IF held THEN ExitRank ELSE EntryRank

\* Already below the level that would close the position, or the level not computable.
BelowInvalidation(d) == d.level \in {"none", "below"}

\* Confirmations and triggers are recorded and decide nothing.
Evaluate(d, rank, held, policy) ==
  IF d.bars = "noatr" THEN [status |-> "NOT_TRIGGERED", priced |-> FALSE]
  ELSE [status |-> IF \/ ~held /\ policy.aboveInvalidation /\ BelowInvalidation(d)
                      \/ ~Admit(rank, held)
                   THEN "WATCHLIST" ELSE "TRIGGERED",
        priced |-> TRUE]

\* The cadence holds back what the band admits, unless it is held already.
Decision(d, rank, held, open, policy) ==
  LET e == Evaluate(d, rank, held, policy)
  IN  CASE d.bars \in {"few", "some"} -> [status |-> "NOT_TRIGGERED", priced |-> FALSE]
        [] d.bars \notin {"few", "some"} /\ ~open /\ ~held /\ e.status = "TRIGGERED" ->
             [e EXCEPT !.status = "WATCHLIST"]
        [] OTHER -> e
-----------------------------------------------------------------------------
(* Stage 7 *)

LiquidityState(adtv) ==
  CASE adtv = "none" -> "MISSING"
    [] adtv = "bad"  -> "INVALID"
    [] adtv = "old"  -> "KNOWN_STALE"
    [] OTHER         -> "KNOWN_VALID"

\* The least of the shares the slot buys and the shares the turnover allows;
\* nothing when the turnover was not measured.
Quantity(d) == d.adtv \notin {"none", "bad"} /\ d.lot = "affordable"

\* No plan without a reference price. A plan for no shares has no cost to state.
BuildPlan(d, decision) ==
  [made      |-> decision.priced,
   cost      |-> IF decision.priced /\ Quantity(d) THEN {d.cost} ELSE {},
   liquidity |-> IF decision.priced THEN LiquidityState(d.adtv) ELSE "MISSING"]
-----------------------------------------------------------------------------
(* Stage 8 *)

\* The names on the list that stand above their long average.
AboveBar(data, ranked) == {s \in ToSet(ranked) : data[s].average = "above"}

Measured(data, ranked) == {s \in ToSet(ranked) : data[s].average # "none"}

\* Why nothing new is opened: the regime, the defence, a ranking that tells no
\* name from another, or too few names above their own average to hold a book.
Blocked(regime, halt, market, data, ranked, policy) ==
  \/ ~regime.allow
  \/ halt
  \/ policy.dispersionFloor /\ market.dispersion = "flat"
  \/ /\ policy.cashRule > 0
     /\ Measured(data, ranked) # {}
     /\ Cardinality(AboveBar(data, ranked)) < policy.cashRule

\* The veto with nothing to read closes the book to new names as a block does.
VetoBlind(data, names, policy) ==
  policy.veto /\ \A s \in names : data[s].win = "none"

\* Defended names by their score after the defence; the stable sort leaves
\* equals in the order of their ranks.
ByScore(ranked, score) == HighestFirst(ranked, score)

\* Passed the absolute floor, the score floors and, if not held, the veto. The
\* percentile is of the order the ranking gave, before any penalty.
Qualified(d, admissible, percentile, score, held, policy) ==
  /\ admissible
  /\ score >= policy.minScore /\ percentile >= policy.minPercentile
  /\ policy.veto /\ ~held => d.win = "high"

\* A name without a sector is a sector of its own.
SameSector(sector, s, t) == s = t \/ (sector[s] # "Unknown" /\ sector[s] = sector[t])

InSector(sector, s, buys) == Cardinality({t \in ToSet(buys) : SameSector(sector, s, t)})

\* An unmeasured correlation does not stand in the way.
TooCorrelated(s, buys, correlation) ==
  \E t \in ToSet(buys) : s # t /\ correlation[{s, t}] = "high"

\* Held names first: only the size of the book can refuse one.
KeepHeld(heldTriggered, policy) ==
  [buys  |-> Prefix(heldTriggered, policy.maxSignals),
   watch |-> SubSeq(heldTriggered, policy.maxSignals + 1, Len(heldTriggered))]

\* Mutant: the block is left to the caller.
RefusedByLimits(s, status, buys, blocked, sector, correlation, policy) ==
  \/ status # "TRIGGERED"
  \/ InSector(sector, s, buys) >= policy.maxPerSector
  \/ TooCorrelated(s, buys, correlation)
  \/ Len(buys) >= policy.maxSignals

\* Then the others, each against the block and the limits as they stand.
Refused(s, status, buys, blocked, sector, correlation, policy) ==
  \/ status # "TRIGGERED"
  \/ blocked
  \/ InSector(sector, s, buys) >= policy.maxPerSector
  \/ TooCorrelated(s, buys, correlation)
  \/ Len(buys) >= policy.maxSignals

Offered(book, s, decision, blocked, sector, correlation, policy) ==
  IF Refused(s, decision[s].status, book.buys, blocked, sector, correlation, policy)
  THEN [buys |-> book.buys, watch |-> Append(book.watch, s)]
  ELSE [buys |-> Append(book.buys, s), watch |-> book.watch]

Open(kept, others, decision, blocked, sector, correlation, policy) ==
  LET book[n \in 0..Len(others)] ==
        IF n = 0 THEN kept
        ELSE Offered(book[n - 1], others[n], decision, blocked, sector, correlation, policy)
  IN  book[Len(others)]

\* Mutant: one pass, best first, that spares held names the limits.
SelectOnePass(qualified, decision, held, blocked, sector, correlation, policy) ==
  FoldLeft(LAMBDA book, s :
             IF /\ ~(s \in held /\ decision[s].status = "TRIGGERED" /\ Len(book.buys) < policy.maxSignals)
                /\ Refused(s, decision[s].status, book.buys, blocked, sector, correlation, policy)
             THEN [book EXCEPT !.watch = Append(@, s)]
             ELSE [book EXCEPT !.buys = Append(@, s)],
           [buys |-> << >>, watch |-> << >>], qualified)

\* qualified: the qualified names, best first.
Select(qualified, decision, held, blocked, sector, correlation, policy) ==
  LET kept  == {s \in held \cap ToSet(qualified) : decision[s].status = "TRIGGERED"}
      first == Among(qualified, kept)
      rest  == Among(qualified, ToSet(qualified) \ kept)
  IN  Open(KeepHeld(first, policy), rest, decision, blocked, sector, correlation, policy)
=============================================================================
