CONSTANTS
  Feeds <- MCFeeds
  Imported <- MCImported
  Counted <- MCCounted
  Ingests = {"i1", "i2"}
  Importers = {"m1"}
  Analyses = {"evening"}
  Processes = {"cli", "web"}
  Servers = {"web"}
  Host <- MCHost
SPECIFICATION FairSpec
INVARIANTS
  TypeOK
  LockedOneMoment
  CliStampNamesData
PROPERTIES
  NoLostBatch
  ImplementsAtomicStore
  IngestGetsIn
