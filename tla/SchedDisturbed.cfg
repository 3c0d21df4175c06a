SPECIFICATION Spec
CONSTANTS
  f1 = f1
  f2 = f2
  h1 = h1
  h2 = h2
  h3 = h3
  w1 = w1
  w2 = w2
  r1 = r1
  r2 = r2
  None = None
  Files = {f1}
  Handles = {h1, h2}
  HandleFile <- OneFile
  Readers = {r1}
  Workers = {w1}
  Chunks = {1, 2}
  MaxReadChunks = 1
  Plans <- ChunkOnePlan
  SessionWorkers = 1
  DiskCache = FALSE
  DiskQueueCap = 1
  Hedge = FALSE
  Events = {"evict", "reclaim", "release", "overlap", "interrupt"}
  MaxReads = 4
  MaxTasks = 2
  MaxEpoch = 1
CHECK_DEADLOCK FALSE
INVARIANTS
  ForegroundQueueKept
  ActiveHandleOpen
  RefsExact
  TypeOK
  InflightNotLeaked
