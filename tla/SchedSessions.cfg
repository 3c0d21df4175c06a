SPECIFICATION Spec
CONSTANTS
  f1 = f1
  f2 = f2
  h1 = h1
  h2 = h2
  h3 = h3
  w1 = w1
  w2 = w2
  r1 = r1
  r2 = r2
  None = None
  Files = {f1, f2}
  Handles = {h1, h2}
  HandleFile <- TwoFiles
  Readers = {r1}
  Workers = {w1, w2}
  Chunks = {1, 2}
  MaxReadChunks = 2
  Plans <- BothPlan
  SessionWorkers = 1
  DiskCache = FALSE
  DiskQueueCap = 1
  Hedge = FALSE
  Events = {"release"}
  MaxReads = 4
  MaxTasks = 3
  MaxEpoch = 1
CHECK_DEADLOCK FALSE
SYMMETRY SymSessions
INVARIANTS
  UnstartedQueued
  StartedHeld
  RegisteredPending
  LiveRegistered
  InflightExact
  WaitsForItsChunk
