SPECIFICATION FairSpec
CONSTANTS
  c1 = c1  c2 = c2
  w1 = w1  w2 = w2
  Certs <- TwoCerts
  PreIssued <- TwoCerts
  Workers <- BothWorkers
  Cas <- JustIntermediate
  Job = Job
  Root = Root
  Intermediate = Intermediate
  NoCert = NoCert
  MaxIdleRuns = 0
  MaxFaults = 1
INVARIANTS
  NumbersInOrder
  RevocationStored
PROPERTIES
  LedgerSpec
  EventuallyPublished
  NeverUnlisted
\* The bounded system stops: every request served, no run of the job left.
CHECK_DEADLOCK FALSE
