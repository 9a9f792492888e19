SPECIFICATION Spec
CONSTANTS
  c1 = c1  c2 = c2
  w1 = w1  w2 = w2
  Certs <- TwoCerts
  PreIssued <- OneCert
  Workers <- BothWorkers
  Cas <- BothCas
  Job = Job
  Root = Root
  Intermediate = Intermediate
  NoCert = NoCert
  MaxIdleRuns = 0
  MaxFaults = 0
SYMMETRY Symm
INVARIANTS
  TypeOK
  AuditComplete
  StaleOnlyByCollision
\* The bounded system stops: every request served, no run of the job left.
CHECK_DEADLOCK FALSE
