SPECIFICATION Spec
CONSTANTS
  NumWorkers = 1
  Foreign = FALSE
INVARIANTS SecondArmStartsCold
CHECK_DEADLOCK FALSE
