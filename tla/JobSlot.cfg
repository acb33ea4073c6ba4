CONSTANTS
  Kinds <- MCKinds
  MaxJobs = 2
SPECIFICATION FairSpec
INVARIANTS
  TypeOK
  SingleWorker
  CancelOfRunningSticks
  ActiveRowHasWorker
  ReplyIsOfTheKindAsked
PROPERTIES
  ImplementsSingleFlight
  RowsSettle
  SlotRecovers
