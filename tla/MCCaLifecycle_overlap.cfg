SPECIFICATION Spec
CONSTANTS
  a1 = a1  a2 = a2  p1 = p1  p2 = p2
  MaxCas = 3
  Admins <- TwoAdmins
  Job = Job
  Passphrases <- TwoPassphrases
  None = None
  MaxFaults = 1
SYMMETRY Symm
INVARIANTS
  TypeOK
  CreationLogged
  CrlsBySubject
PROPERTIES
  KeepsPkiPromise
