CONSTANTS
  MaxSetting = 4
  LowRate <- OddSettings
SPECIFICATION Spec
INVARIANTS
  TypeOK
  EncoderReady
  MismatchIsTransient
  LostOnlyInOverlap
PROPERTIES
  EncoderForward
