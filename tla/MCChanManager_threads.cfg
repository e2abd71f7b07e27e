CONSTANTS
  Chans = {a, b, empty}
  Empty = empty
  HttpThreads = {h1}
  Sip = sip
  Worker = worker
  Absent = absent
  Null = null
  Quotas <- MCThreadsQuotas
  MaxStarts = 2
SPECIFICATION Spec
SYMMETRY Named
INVARIANTS
  TypeOK
  RegisteredIsLive
  NoLostChild
  FreedIsReaped
  LeakOnlyAfterForkFailure
  NoBystanderKilled
  OneReader
  NullEntryHasCause
PROPERTIES
  InsertNeverOverwrites
CHECK_DEADLOCK FALSE
