SPECIFICATION Spec
CONSTANTS
  Adr = TRUE
  MaxDr = 3
  MaxTx = 2
  AdrAckLimit = 2
  AdrAckDelay = 3
  InitialDr = 2
  FitsFrom = 1
  MaxPackets = 0
  MaxQueue = 1
INVARIANTS
  OnSchedule
PROPERTIES
  AckCarried
CHECK_DEADLOCK FALSE
