\* Two threads, two calls each, on the configuration file and on another one;
\* the file is edited between two contents or removed.
SPECIFICATION FairSpec
CONSTANTS
  Thread = {t1, t2}
  Op = {"open", "write"}
  QueueOps = {"write"}
  Path = {"a", "conf"}
  ConfPath = "conf"
  Name <- AllNames
  Confs <- AllConfs
  Errno = {"eio"}
  Samples <- AllSamples
  MaxCalls = 2
  Null = Null
INVARIANTS TypeOK ListAlive LastHitWins  ConfiguredAsWritten
PROPERTIES Answered
CHECK_DEADLOCK FALSE
