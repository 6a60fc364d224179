SPECIFICATION Spec
CONSTANTS
  MaxDr = 5
  MaxTx = 7
  Required <- VDATable
  MarginDb = 50000
  StepSize = 30000
  PowerStep = 20000
  Snrs <- VDASnrs
INVARIANTS
  LoopComputes
  MarginKept
CHECK_DEADLOCK FALSE
