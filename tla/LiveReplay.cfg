SPECIFICATION FairSpec
CONSTANTS
  s1 = s1
  s2 = s2
  grep = grep
  tests = tests
  Sessions = {s1, s2}
  Tools = {grep}
  NoTool = NoTool
  Never = Never
  MinObservations = 1
  Turns <- MCTurns
  Durations = {1, 2}
  Concurrency = 1
  ClientTimeout = 2
INVARIANTS AdmissionIsExact GapsAreMeasured
PROPERTIES NewestPrefixWins ReplayEnds
CHECK_DEADLOCK FALSE
