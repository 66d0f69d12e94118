\* Two processes of one client: a write that falls into the flush of the other.
SPECIFICATION BSpec
CONSTANTS
  c1 = c1  c2 = c2  t2 = t2  NoFile = NoFile  NoPath = NoPath
  EmptyData = 0  Data <- Contents
  Client = {c1}
  Thread = {c1, t2}
  ClientOf <- Together
  Path = {p}
  Ops = {}
  Lossy = FALSE
  Serial = FALSE
  NulData = {}
  MaxWrites = 2
  MaxStray = 1
  MaxNow = 2
INVARIANT CleanMeansPublished
CHECK_DEADLOCK FALSE
