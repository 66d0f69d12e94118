\* A rename of a file over another one whose copy a client keeps.
SPECIFICATION BSpec
CONSTANTS
  c1 = c1  c2 = c2  t2 = t2  NoFile = NoFile  NoPath = NoPath
  EmptyData = 0  Data <- Contents
  Client = {c1, c2}
  Thread = {c1, c2}
  ClientOf <- Apart
  Path = {p, q}
  Ops = {"rename"}
  Lossy = FALSE
  Serial = TRUE
  NulData = {}
  MaxWrites = 2
  MaxStray = 1
  MaxNow = 3
SYMMETRY Symmetry
INVARIANT OpenSeesLatest
CHECK_DEADLOCK FALSE
