\* Three uploads of one message compete for the mutex over one path, which may
\* be a directory when an upload is renamed onto it.
CONSTANTS
  Path = {p}
  TempName = {t}
  Put = {u1, u2, u3}
  Get = {}
  Chunks = 1
  MaxNow = 0
  Lossy = TRUE
  Dir = Dir
  None = None
SPECIFICATION FairSpec
PROPERTIES Served
CHECK_DEADLOCK FALSE
