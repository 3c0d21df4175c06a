SPECIFICATION Spec
CONSTANTS
  c1 = c1
  c2 = c2
  Callers = {c1, c2}
  Requests <- UnevenRequests
  Size = 5
  Piece = 4
  Prefetch = 4
  ChunkSize = 2
  Concurrency = 2
  CacheLimit = 6
  Events = {}
  MaxRequests = 2
  MaxGone = 1
CHECK_DEADLOCK FALSE
INVARIANTS
  AnswersWhole
