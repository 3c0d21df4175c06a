SPECIFICATION FairSpec
CONSTANTS
  root = root
  d = d
  e = e
  a = a
  x = x
  t1 = t1
  t2 = t2
  app = app
  None = None
  Root = root
  Paths = {d, e, x}
  Dirs = {d, e, x}
  Parent <- Tree
  Alike <- TreeAlike
  Stable = {d, e}
  Threads = {t1}
  App = app
  Events = {"change", "delete", "fail", "short", "crash"}
  MaxChanges = 1
INVARIANTS
  TypeOK
  FreshLoaded
PROPERTIES
  KnownStays
  RootConverges
