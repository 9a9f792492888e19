SPECIFICATION FairSpec
CONSTANTS
  Certs = {c1}
  Owned = {c1}
  Contact = {email, telegram}
  Authorities = {ca1}
  Channels = {email, telegram}
  None = None
  MaxFaults = 1
INVARIANTS
  TypeOK
  NoticesCounted
PROPERTIES
  EventuallyTold
  EventuallyWarned
