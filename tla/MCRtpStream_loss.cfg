CONSTANTS
  Sources = {a, b}
  Packets = 3
  QueueSize = 1
  MaxFrames = 2
  MaxFaults = 1
  None = None
SPECIFICATION Spec
SYMMETRY Peers
INVARIANTS
  TypeOK
  Survives
  BrokenHasCause
PROPERTIES
  LeakOnlyWhenFull
CHECK_DEADLOCK FALSE
