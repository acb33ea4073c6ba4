CONSTANTS
  MaxHold = 1
  UseTarget = FALSE
  NoEpoch = none
  Grace = 2
  MinCoverage = 60
  Names = {a}
  Params = {p1, p2}
  MaxSession = 3
  MaxRuns = 2
  Events = 2
  Observed = {"none", "calm", "stop"}
  Resolvers = {r1, r2}
  Recs <- MCRecs
SPECIFICATION Spec
SYMMETRY Symmetry
INVARIANTS
  TypeOK
  VerdictIsFinal
  AtMostOnePerResolver
  EpochMatches
  StrayedStaysBroken
CHECK_DEADLOCK FALSE
