\* Processes that take turns, with every operation on paths.
SPECIFICATION BSpec
CONSTANTS
  c1 = c1  c2 = c2  t2 = t2  NoFile = NoFile  NoPath = NoPath
  EmptyData = 0  Data <- Contents
  Client = {c1, c2}
  Thread = {c1, c2}
  ClientOf <- Apart
  Path = {p, q}
  Ops = {"truncate", "unlink", "rename", "restart"}
  Lossy = FALSE
  Serial = TRUE
  NulData = {}
  MaxWrites = 2
  MaxStray = 1
  MaxNow = 3
SYMMETRY PathSymmetry
INVARIANTS SettledClean 
PROPERTIES ReadersUploadNothing 
CHECK_DEADLOCK FALSE
