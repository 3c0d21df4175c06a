SPECIFICATION Spec
CONSTANTS
  root = root
  d = d
  e = e
  a = a
  x = x
  t1 = t1
  t2 = t2
  app = app
  None = None
  Root = root
  Paths = {d, a}
  Dirs = {d}
  Parent <- FlatTree
  Alike <- FlatAlike
  Stable = {d, a}
  Threads = {t1, t2}
  App = app
  Events = {"fail"}
  MaxChanges = 1
INVARIANTS
  MissingConfirmed
