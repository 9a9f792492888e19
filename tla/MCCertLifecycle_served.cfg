SPECIFICATION Spec
CONSTANTS
  c1 = c1  c2 = c2
  w1 = w1  w2 = w2
  Certs <- TwoCerts
  PreIssued <- TwoCerts
  Workers <- BothWorkers
  Cas <- JustIntermediate
  Job = Job
  Root = Root
  Intermediate = Intermediate
  NoCert = NoCert
  MaxIdleRuns = 0
  MaxFaults = 0
INVARIANTS
  RevocationServed
\* The bounded system stops: every request served, no run of the job left.
CHECK_DEADLOCK FALSE
