SPECIFICATION Spec
CONSTANTS
  Gateways = {g1, g2}
  Messages = {m1, m2}
  ConfirmedDown = {TRUE, FALSE}
  DsTransmissions = 2
  AdrFrequency = 2
  CounterModulus = 8
  DuplicateTime = 2
  ReceiveDelay1 = 2
  ReceiveDelay2 = 4
  Jitter = 1
  MaxPackets = 3
  MaxAttempts = 1
SYMMETRY MCSymmetry
INVARIANTS
  AckedWasSent
