SPECIFICATION FairSpec
CONSTANTS
  r1 = r1
  r2 = r2
  f1 = f1
  NoFile = NoFile
  Readers = {r1, r2}
  Files = {f1}
  MaxGrants = 2
  MaxFaults = 1
  MaxStarts = 2
CHECK_DEADLOCK FALSE
INVARIANTS
  TypeOK
  FileCurrent
  KeyNotReused
  RenewalsSurvive
  ClosedLast
PROPERTIES
  SignalEnds
