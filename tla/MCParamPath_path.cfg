CONSTANTS
  Threads = {sip}
  PipeSize <- ThreeMessages
  MaxSent = 3
  LowRate <- OddSettings
SPECIFICATION FairSpec
PROPERTIES
  PromiseKept
  AskedIsInForce
CHECK_DEADLOCK FALSE
