SPECIFICATION FairLocksSpec
CONSTANTS
  l1 = l1  a1 = a1
  Loggers <- OneLogger
  Auditors <- NoThreads
  Configs <- OnlyDefault
  Capacity = 1
  WarnEvery = 2
  None = None
  MaxRefused = 2
PROPERTIES
  EnqueueReturns
\* Threads stop calling at the bound, or wait for each other.
CHECK_DEADLOCK FALSE
