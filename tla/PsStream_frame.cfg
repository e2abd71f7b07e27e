CONSTANTS
  FrameSizes = {1, 20, 100, 101, 134, 200, 201, 230, 249, 250, 301, 330}
  PayloadMax = 100
  PacketSize = 46
  FrameMax = 250
  ClockLow = 2
  ClockStep = 6
  MaxFrames = 4
  MaxLost = 2
  StrayLengths = {0, 13, 60, 500}
SPECIFICATION FairSpec
INVARIANTS
  TypeOK
  RoundTrip
  Capped
  MisreadHasCause
  ClockOfFrame
PROPERTIES
  ParsingEnds
CHECK_DEADLOCK FALSE
