SPECIFICATION FairSpec
CONSTANTS
  f1 = f1
  f2 = f2
  h1 = h1
  h2 = h2
  h3 = h3
  w1 = w1
  w2 = w2
  r1 = r1
  r2 = r2
  None = None
  Files = {f1}
  Handles = {h1}
  HandleFile <- OneFile
  Readers = {r1, r2}
  Workers = {w1}
  Chunks = {1}
  MaxReadChunks = 1
  Plans <- NoPlan
  SessionWorkers = 1
  DiskCache = TRUE
  DiskQueueCap = 1
  Hedge = TRUE
  Events = {"interrupt", "close", "fail", "release"}
  MaxReads = 2
  MaxTasks = 2
  MaxEpoch = 1
CHECK_DEADLOCK FALSE
INVARIANTS
  LoserCancelled
  NoSendOnClosed
PROPERTIES
  SettledOnce
  SessionReclaimed
  ImplementsSingleFlight
  ReadAnswered
  HangSurvived
  CloseEnds
