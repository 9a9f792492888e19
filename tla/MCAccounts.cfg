SPECIFICATION Spec
CONSTANTS
  Users = {adm, bob, sam}
  LocalUsers = {adm, bob}
  Admin = adm
  Sessions = {s1, s2}
  Tokens = {k1}
  Roles = {"admin", "requester"}
  Bodies <- MCBodies
  Threads = {t1, t2}
  None = None
  Idle = 2
  Absolute = 3
  MaxTime = 3
  MaxRequests = 3
  MaxFaults = 1
SYMMETRY Symm
INVARIANTS
  TypeOK
  ChangesLogged
  InactiveSignedOut
PROPERTIES
  DeadlinesKept
  KeepsSignOnPromise
\* The rows of the tables and the requests run out.
CHECK_DEADLOCK FALSE
