SPECIFICATION FairSpec
CONSTANTS
  l1 = l1  a1 = a1
  Loggers <- OneLogger
  Auditors <- OneAuditor
  Configs <- ThreeConfigs
  Capacity = 2
  WarnEvery = 2
  None = None
  MaxRefused = 3
INVARIANTS
  TypeOK
  DropsCounted
  DeadlockNeedsWarning
PROPERTIES
  QueueDrains
\* Threads stop calling at the bound, or wait for each other.
CHECK_DEADLOCK FALSE
