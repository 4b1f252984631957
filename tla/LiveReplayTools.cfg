SPECIFICATION Spec
CONSTANTS
  s1 = s1
  s2 = s2
  grep = grep
  tests = tests
  Sessions = {s1}
  Tools = {grep, tests}
  NoTool = NoTool
  Never = Never
  MinObservations = 1
  Turns <- MCOneLong
  Durations = {1, 2}
  Concurrency = 1
  ClientTimeout = 2
INVARIANTS EstimatesAreOfTheTool
CHECK_DEADLOCK FALSE
