CONSTANTS
  Feeds <- MCFeeds
  Imported <- MCImported
  Counted <- MCCounted
  Ingests = {"i1"}
  Importers = {"m1"}
  Analyses = {"evening"}
  Processes = {"cli"}
  Servers = {}
  Host <- MCHost
SPECIFICATION Spec
INVARIANT OneMoment
CHECK_DEADLOCK FALSE
