SPECIFICATION FairSpec
CONSTANTS
  w1 = w1
  w2 = w2
  Workers = {w1, w2}
  Junk = Junk
  NaN = NaN
  Inf = Inf
  Pods = {p1, p2}
  Desired = 1
  Environments <- MCEnvironments
  MaxCrashes = 1
  ProbeTimeout = 2
  Patience = 1
INVARIANTS RunsOnUsableSettings
PROPERTIES RolloutSettles BrokenPodsLeave
