CONSTANTS
  Http = {h1}
  Main = main
  MaxSettings = 2
  MaxCrashes = 1
  MaxEvents = 1
  MaxLost = 1
  Commented = {2}
  Unparsable = {1}
  Nameless = {1}
  None = None
SPECIFICATION FairSpec
INVARIANTS
  TypeOK
  RestartIsWhole
  RegistrationIsConf
  HeartbeatHasCause
PROPERTIES
  LatestRegistered
CHECK_DEADLOCK FALSE
