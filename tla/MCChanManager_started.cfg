CONSTANTS
  Chans = {a, b}
  Empty = empty
  HttpThreads = {h1}
  Sip = sip
  Worker = worker
  Absent = absent
  Null = null
  Quotas <- MCStartedQuotas
  MaxStarts = 2
SPECIFICATION Spec
INVARIANTS
  StartedMeansServing
CHECK_DEADLOCK FALSE
