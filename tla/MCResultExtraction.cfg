SPECIFICATION LogSpec
CONSTANTS
  MinGap = 4
  Chosen <- ThreeSettings
  MaxTime = 8
  MaxRows = 2
INVARIANT PairingRight
CHECK_DEADLOCK FALSE
