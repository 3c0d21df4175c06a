SPECIFICATION FairSpec
CONSTANTS
  c1 = c1
  c2 = c2
  Callers = {c1, c2}
  Requests <- EvenRequests
  Size = 5
  Piece = 4
  Prefetch = 4
  ChunkSize = 2
  Concurrency = 2
  CacheLimit = 4
  Events = {"fail", "cancel", "clear"}
  MaxRequests = 2
  MaxGone = 1
CHECK_DEADLOCK FALSE
INVARIANTS
  CacheAccounted
  InflightOwned
  OneDownload
  AnswersWhole
PROPERTIES
  RequestEnds
