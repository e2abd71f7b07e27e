CONSTANTS
  MaxSetting = 2
  LowRate <- OddSettings
SPECIFICATION Spec
INVARIANTS
  SetIsInForce
