\* What the polling thread makes of writes and flushes that are queued.
SPECIFICATION Spec
CONSTANTS
  Thread = {t1, t2}
  Path = {p, q}
  MaxFd = 2
  MaxTickets = 2
  Injects <- QueueInjects
  None = None
SYMMETRY Symmetry
INVARIANT ExecutedAsQueued
CHECK_DEADLOCK FALSE
