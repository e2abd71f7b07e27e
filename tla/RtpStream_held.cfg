CONSTANTS
  Sources = {a}
  Packets = 2
  QueueSize = 1
  MaxFrames = 1
  MaxFaults = 0
  None = None
SPECIFICATION FairSpec
PROPERTIES
  ArrivedIsTaken
