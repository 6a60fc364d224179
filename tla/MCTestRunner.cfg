SPECIFICATION FairSpec
CONSTANTS
  N = 3
  Examples = {2, 3}
  Skips = {3}
  w1 = w1
  w2 = w2
  Workers <- TwoWorkers
  Valgrind = TRUE
  Translate = TRUE
INVARIANTS
  JobsAccounted
  SuccessHonest
  ResultsHonest
PROPERTIES
  Terminates
CHECK_DEADLOCK FALSE
