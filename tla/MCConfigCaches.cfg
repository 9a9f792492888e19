SPECIFICATION Spec
CONSTANTS
  Cas = {ca1, ca2}
  Columns = {hec, syslog}
  Values = {0, 1}
  Default = 0
  Threads = {t1, t2}
  MaxRequests = 5
  MaxFaults = 1
SYMMETRY Symm
INVARIANTS
  TypeOK
  StaleOnlyByOverlap
  AddsLogged
PROPERTIES
  CopyOfTheTable
\* The requests run out.
CHECK_DEADLOCK FALSE
