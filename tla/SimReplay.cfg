SPECIFICATION FairSpec
CONSTANTS
  s1 = s1
  s2 = s2
  s3 = s3
  Sessions = {s1, s2, s3}
  NumReplicas = 2
  QueueLimit = 1
  Unhomed = Unhomed
  PrefillCost = 2
  DecodeCost = 1
  RestoreCost = 1
  Arrivals = {0}
  FirstPrompts = {1}
  Outputs = {1}
  ToolResults = {0}
  ToolTimes = {0, 5}
  Turns <- MCTurns
INVARIANTS LoadIsReal NoOverlap HitsAreWhole
PROPERTIES TimeRunsForward ArmCompletes
CHECK_DEADLOCK FALSE
