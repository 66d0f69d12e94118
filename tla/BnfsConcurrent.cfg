\* Concurrent clients over a reliable network.
SPECIFICATION BSpec
CONSTANTS
  c1 = c1  c2 = c2  t2 = t2  NoFile = NoFile  NoPath = NoPath
  EmptyData = 0  Data <- Contents
  Client = {c1, c2}
  Thread = {c1, c2}
  ClientOf <- Apart
  Path = {p}
  Ops = {"restart"}
  Lossy = FALSE
  Serial = FALSE
  NulData = {}
  MaxWrites = 3
  MaxStray = 0
  MaxNow = 2
SYMMETRY Symmetry
PROPERTY NoResurrection
CHECK_DEADLOCK FALSE
