SPECIFICATION FairSpec
CONSTANTS
  NumWorkers = 2
  Foreign = TRUE
INVARIANTS NothingSurvives ArmsAreTheirOwn
PROPERTIES ValidationEnds
CHECK_DEADLOCK FALSE
