\* One upload of two messages whose stream may break.
CONSTANTS
  Path = {p}
  TempName = {t}
  Put = {u1}
  Get = {}
  Chunks = 2
  MaxNow = 0
  Lossy = TRUE
  Dir = Dir
  None = None
SPECIFICATION Spec
INVARIANTS AtomicWrites
CHECK_DEADLOCK FALSE
