------------------------------ MODULE Backtest ------------------------------
(***************************************************************************)
(* The book the portfolio simulation holds after a decision date: names    *)
(* held while they stay inside the exit band, and the best of the entry    *)
(* band in the room they leave.  It knows ranks and nothing else.          *)
(***************************************************************************)
EXTENDS Bands
-----------------------------------------------------------------------------
Kept(held, ranked) == held \cap ToSet(Prefix(ranked, ExitRank))

\* A book already too large adds nothing and gives nothing up.
Added(held, ranked, maxPositions) ==
  LET room == maxPositions - Cardinality(Kept(held, ranked))
      top  == Among(Prefix(ranked, EntryRank), ToSet(ranked) \ Kept(held, ranked))
  IN  ToSet(Prefix(top, IF room > 0 THEN room ELSE 0))

SimulatedBook(held, ranked, maxPositions) ==
  Kept(held, ranked) \cup Added(held, ranked, maxPositions)
=============================================================================
