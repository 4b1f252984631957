SPECIFICATION Spec
CONSTANTS
  Requests = {r1, r2, r3}
  Sessions = {s1, s2}
  Pods = {p1}
  NumReplicas = 2
  QueueLimit = 1
  SharedStore = FALSE
  StoreFaults = FALSE
  LeftoverHomes = {}
  Streaming = {TRUE, FALSE}
INVARIANTS TypeOK SlotsMatchRequests AffinityDepth
PROPERTIES WarmHomeIsKept ReturnsToWarmHome
SYMMETRY Symmetry
