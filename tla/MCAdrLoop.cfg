SPECIFICATION FairSpec
CONSTANTS
  Adr = TRUE
  MaxDr = 5
  MaxTx = 7
  AdrAckLimit = 1
  AdrAckDelay = 2
  InitialDr = 4
  FitsFrom = 1
  MaxPackets = 0
  MaxQueue = 3
  Confirmed = TRUE
  ConfirmedDown = {TRUE, FALSE}
  AdrFrequency = 2
  HistorySize = 2
  Required <- SemtechTable
  MarginDb = 10
  StepSize = 6
  PowerStep = 4
  Gains <- LinksOfRun
INVARIANTS
  LoopInv
PROPERTIES
  SyncedCommandKeepsMargin
  ImplementsDevice
  LinkRecovers
CHECK_DEADLOCK FALSE
