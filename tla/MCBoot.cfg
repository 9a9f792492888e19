SPECIFICATION FairSpec
CONSTANTS
  Main = Main
  Threads = {t1, t2}
  Uploads = {p1, p2}
  Weak = {p2}
  Issuable = {p3}
  SelfSigned = self
  None = None
  Empty = Empty
  MaxRequests = 3
  MaxFaults = 2
  MaxLosses = 1
INVARIANTS
  TypeOK
  SecretsUsable
  ReplacedIsServed
PROPERTIES
  StartsAgain
  StopsForACause
