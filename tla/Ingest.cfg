CONSTANTS
  Retries = 1
  SameEvent = 1
  SourceRank <- MCRank
  KindOrder <- MCKinds
  MaxDay = 3
  Trading = {1, 3}
  History = 2
  Span = 2
  MaxBack = 1
  CachedFeeds = {"index", "prices"}
  Batch = 1
  Every = 2
  YahooRows <- MCYahoo
  ExchangeRows <- MCExchange
  CsvRows = {}
  Faults = 1
  Modes <- MCModes
  Evictable <- MCEvictable
SPECIFICATION Spec
INVARIANTS
  TypeOK
  PricesHaveTheirIndex
  DeadWasAnswered
  RaisedKeepsFetched
  RunIsComplete
  AdjustedOnce
