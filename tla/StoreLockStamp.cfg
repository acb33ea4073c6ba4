CONSTANTS
  Feeds <- MCFeeds
  Imported <- MCImported
  Counted <- MCCounted
  Ingests = {"i1"}
  Importers = {}
  Analyses = {"a", "b"}
  Processes = {"web"}
  Servers = {"web"}
  Host <- MCWebHost
SPECIFICATION Spec
INVARIANT StampNamesData
CHECK_DEADLOCK FALSE
