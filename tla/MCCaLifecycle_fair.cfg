SPECIFICATION FairSpec
CONSTANTS
  a1 = a1  a2 = a2  p1 = p1  p2 = p2
  MaxCas = 2
  Admins <- TwoAdmins
  Job = Job
  Passphrases <- OnePassphrase
  None = None
  MaxFaults = 1
PROPERTIES
  RootRelocked
