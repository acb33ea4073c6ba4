------------------------------ MODULE Ranking -------------------------------
(***************************************************************************)
(* The ordering of the eligible names: which scorer the configuration      *)
(* asks for, when that scorer is too thin to be used, and the rank, score  *)
(* and admission each ordered name gets.                                   *)
(***************************************************************************)
EXTENDS Lists

CONSTANTS FloorPercent,   \* share of the scoreable names a scorer must cover
          FloorNames      \* and their least number
-----------------------------------------------------------------------------
Larger(a, b) == IF a > b THEN a ELSE b
Smaller(a, b) == IF a < b THEN a ELSE b

\* Names a scorer has to cover. The composite scorers ask for every name of a
\* universe smaller than FloorNames; a named column asks for FloorNames then too.
CoverageFloor(source, n) ==
  LET wanted == Larger((FloorPercent * n) \div 100, FloorNames)
  IN  IF source = "column" THEN wanted ELSE Smaller(wanted, n)

\* The scorer asked for, or nothing: no other scorer stands in for it.
\* scoreable: names the family composite covers well enough. scored: names the
\* scorer gave a score, {} when it did not build.
RankingUnavailable(source, built, scoreable, scored) ==
  /\ source # "fitted_composite"
  /\ \/ ~built
     \/ source = "column" /\ scored = {}
     \/ Cardinality(scored \cap scoreable) < CoverageFloor(source, Cardinality(scoreable))

Covered(source, scoreable, scored) ==
  IF source = "fitted_composite" THEN scoreable ELSE scored \cap scoreable

\* All orders of the covered names a scorer may give.
Orders(names) == SetToSeqs(names)

\* Rank and score are of the whole order, whichever of its names are listed later.
RankOf(order, s) == Place(order, s)

\* rank_to_unit_interval: a score is its place in the order, in hundredths.
UnitScore(order, s) ==
  IF Len(order) = 1 THEN 50
  ELSE (100 * (Len(order) - RankOf(order, s))) \div (Len(order) - 1)

\* The absolute floor reads the themes of the scorer's own frame, which only two
\* scorers build; a name they rank is in it.
FloorReads(source, floor) == floor # "off" /\ source \in {"v3_composite", "v9r_core"}

\* The frame of v9R does not count the positive themes: with the floor on, the
\* first name ranked raises.
FloorRaises(source, floor, names) ==
  source = "v9r_core" /\ FloorReads(source, floor) /\ names # {}

\* Above its long average and enough themes positive.
EntryAdmissible(d, source, floor) ==
  FloorReads(source, floor) => d.average = "above" /\ d.themesPositive

\* Under the population scope the report drops the names below the floor. The
\* others keep the rank they had among all.
KeepRanked(order, data, source, floor) ==
  IF floor = "population"
  THEN Among(order, {s \in ToSet(order) : EntryAdmissible(data[s], source, floor)})
  ELSE order
=============================================================================
