SPECIFICATION FairClusterSpec
CONSTANTS
  Requests = {r1, r2}
  Sessions = {s1}
  Pods = {p1}
  NumReplicas = 2
  QueueLimit = 1
  MaxRetries = 1
  WorkersForget = TRUE
  SharedStore = TRUE
  StoreFaults = TRUE
  LeftoverHomes = {3}
  Streaming = {TRUE, FALSE}
INVARIANTS ClusterTypeOK BeliefNeedsCause ExhaustsItsTries EveryCallIsRouted
PROPERTIES ImplementsGateway StreamsAreNotSpliced EveryCallEnds
