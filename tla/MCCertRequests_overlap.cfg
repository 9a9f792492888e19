SPECIFICATION Spec
CONSTANTS
  Requests = {r1, r2}
  Certs = {c1, c2, c3, c4, c5}
  Threads = {t1, t2}
  None = None
  MaxFaults = 1
SYMMETRY Symm
INVARIANTS
  TypeOK
  ApprovedHasItsCertificate
  DecisionsInLog
  ApprovalsAccountedFor
PROPERTIES
  DecisionsFinal
\* The system stops once every request is decided.
CHECK_DEADLOCK FALSE
