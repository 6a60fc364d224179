SPECIFICATION FairSpec
CONSTANTS
  Pkts = {p1, p2}
  NoPkt = NoPkt
  b1 = b1
  b2 = b2
  SubBands <- TwoSubBands
  DutyCycleLimit <- TwoLimits
  AirTimes = {1}
  FrameTimes = {2, 5}
  PreambleTime = 1
  ReceiveDelay1 = 2
  ReceiveDelay2 = 4
  AckTimeouts = {2, 5}
  MaxTransmissions = 2
  DataAnswers = FALSE
  ArrivalAtClose = FALSE
INVARIANTS
  StateChangesLegal
  TransceiverRequestsGranted
  AckTimerExpiresWhileWaiting
  NoLostWakeup
PROPERTIES
  DutyCycleRespected
  GivesUpAfterLastAttempt
  WindowsOnTime
  WindowsBeforeNextUplink
  RepeatsAfterAckTimeout
  ImplementsFairService
