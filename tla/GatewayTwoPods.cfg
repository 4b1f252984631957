SPECIFICATION Spec
CONSTANTS
  Requests = {r1, r2}
  Sessions = {s1}
  Pods = {p1, p2}
  NumReplicas = 2
  QueueLimit = 1
  SharedStore = TRUE
  StoreFaults = FALSE
  LeftoverHomes = {}
  Streaming = {FALSE}
PROPERTIES WarmHomeIsKept
SYMMETRY Symmetry
