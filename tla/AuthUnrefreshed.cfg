SPECIFICATION Spec
CONSTANTS
  r1 = r1
  r2 = r2
  f1 = f1
  NoFile = NoFile
  Readers = {r1}
  Files = {f1}
  MaxGrants = 2
  MaxFaults = 0
  MaxStarts = 1
CHECK_DEADLOCK FALSE
PROPERTIES
  RefusedRenews
