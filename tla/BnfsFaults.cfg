\* Concurrent clients, RPCs that fail, clients that restart.
SPECIFICATION BSpec
CONSTANTS
  c1 = c1  c2 = c2  t2 = t2  NoFile = NoFile  NoPath = NoPath
  EmptyData = 0  Data <- Contents
  Client = {c1, c2}
  Thread = {c1, c2}
  ClientOf <- Apart
  Path = {p}
  Ops = {"unlink", "restart"}
  Lossy = TRUE
  Serial = FALSE
  NulData = {2}
  MaxWrites = 2
  MaxStray = 0
  MaxNow = 1
SYMMETRY Symmetry
INVARIANTS BTypeOK CleanMeansPublished
CHECK_DEADLOCK FALSE
