CONSTANTS
  Threads = {sip, h1}
  PipeSize <- ThreeMessages
  MaxSent = 5
SPECIFICATION FairSpec
INVARIANTS
  TypeOK
  WholeMessage
  DroppedOnlyIfCrowded
PROPERTIES
  TakesNewest
  WriterReleased
CHECK_DEADLOCK FALSE
