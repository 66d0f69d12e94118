\* Two threads, two paths, two descriptors besides the standard one.
SPECIFICATION Spec
CONSTANTS
  Thread = {t1, t2}
  Path = {p, q}
  MaxFd = 2
  MaxTickets = 2
  Injects <- AllInjects
  None = None
SYMMETRY Symmetry
INVARIANTS FTypeOK OneOwner OwnFile 
PROPERTIES BadOnlyWhenFull GivesBack
CHECK_DEADLOCK FALSE
