SPECIFICATION Spec
CONSTANTS
  v1 = v1
  r1 = r1
  Versions <- OneVersion
  Indexes <- ThreeChunks
  Size <- ShortLast
  Readers = {r1}
  MemLimit = 2
  DiskLimit = 3
  Events = {"crash", "writeFail", "readFail", "removeFail"}
INVARIANTS
  TypeOK
  MemoryAccounted
  DiskAccounted
  DiskBudgetKept
  NoOrphan
  WholeChunks
