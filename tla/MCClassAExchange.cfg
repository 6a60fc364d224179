SPECIFICATION ExchangeSpec
CONSTANTS
  Pkts = {p1, p2}
  NoPkt = NoPkt
  b1 = b1
  b2 = b2
  SubBands <- SubBandsOfRun
  DutyCycleLimit <- LimitsOfRun
  AirTimes = {3}
  FrameTimes = {4, 10}
  PreambleTime = 3
  ReceiveDelay1 = 4
  ReceiveDelay2 = 8
  AckTimeouts = {4, 10}
  MaxTransmissions = 2
  DataAnswers = TRUE
  ArrivalAtClose = FALSE
  Delay = 1
SYMMETRY PktSymmetry
INVARIANTS
  ExchangeInv
  IdealLinkAcks
PROPERTIES
  AckedWasHeard
  AnswersAsAssumed
