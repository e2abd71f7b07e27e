CONSTANTS
  Chans = {a, b}
  Empty = empty
  HttpThreads = {h1}
  Sip = sip
  Worker = worker
  Absent = absent
  Null = null
  Quotas <- MCLivenessQuotas
  MaxStarts = 2
SPECIFICATION FairSpec
PROPERTIES
  CloseServed
  SetterReleased
CHECK_DEADLOCK FALSE
