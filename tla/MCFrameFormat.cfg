SPECIFICATION FrameSpec
CONSTANTS
  Addresses <- AddressesOfRun
  Counters <- CountersOfRun
  Garbage = {0, 3, 255}
  PacketSize = 21
  MaxSize = 59
  Commands <- CommandsOfRun
  DownPayloads <- PayloadsOfRun
INVARIANTS
  HeadersAgree
  PayloadAgrees
CHECK_DEADLOCK FALSE
