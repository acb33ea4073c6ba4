CONSTANTS
  na = na
  nb = nb
  nc = nc
  Names = {na, nb, nc}
  Sector <- MCSector
  Scenes <- MCScenes
  Policies <- MCPolicies
  MaxSession = 3
  Sessions = 3
  MaxMissing = 1
  Penalty <- MCPenalty
  MaxPenalty = 60
  MultiplierRows <- Rows
  NoEntryBuckets <- NoEntry_
  MinDisagreeing = 2
  FloorPercent = 60
  FloorNames = 2
  EntryRank = 1
  ExitRank = 2
  MinField = 2
  Shortlist = 3
  MaxBuys = 2
  MaxCostBurden = 60
  AgreementTopK = 10
  MinAgreement = 50
  CadenceSessions = 2
  Anchor = 1
  SuspensionSessions = 1
  DelistingSessions = 2
  Lookback = 3
  Capital = 60
SYMMETRY Symmetry
SPECIFICATION Spec
INVARIANT HeldUntilClosed
CHECK_DEADLOCK FALSE
