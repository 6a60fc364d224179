SPECIFICATION FairSpec
CONSTANTS
  m1 = m1
  m2 = m2
  m3 = m3
  b1 = b1
  b2 = b2
  Macs = {m1, m2, m3}
  NoMac = NoMac
  SubBands = {b1, b2}
  SubBandOf <- MCSubBandOf
  DutyCycleLimit <- MCDutyCycleLimit
  AirTimes = {1, 2}
  FrameTimes = {1, 3}
  SimultaneousWindows = FALSE
INVARIANTS
  AssertionsHold
  DeliversWhole
PROPERTIES
  DutyCycleKept
  ImplementsHalfDuplex
  ListensAgain
