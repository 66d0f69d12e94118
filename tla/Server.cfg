\* Two uploads that draw the same temporary name, one Open that may also
\* create, two paths, uploads of two messages, two seconds.
CONSTANTS
  Path = {p, q}
  TempName = {t}
  Put = {u1, u2}
  Get = {g1}
  Chunks = 2
  MaxNow = 1
  Lossy = TRUE
  Dir = Dir
  None = None
SPECIFICATION Spec
SYMMETRY Symmetry
INVARIANTS TypeOK OneUpload ReadsOneVersion LockOwned NoStrayTemp
PROPERTIES PutTimesOrdered ImplementsStore
CHECK_DEADLOCK FALSE
