\* Two uploads over sound connections to a path that another client may have
\* made a directory.
CONSTANTS
  Path = {p}
  TempName = {t}
  Put = {u1, u2}
  Get = {}
  Chunks = 1
  MaxNow = 0
  Lossy = FALSE
  Dir = Dir
  None = None
SPECIFICATION FairSpec
PROPERTIES RetryAnswered
CHECK_DEADLOCK FALSE
