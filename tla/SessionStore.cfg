SPECIFICATION Spec
CONSTANTS
  s1 = s1
  s2 = s2
  s3 = s3
  v1 = v1
  v2 = v2
  Sessions = {s1, s2, s3}
  Values = {v1, v2}
  NoValue = NoValue
  MaxSessions = 2
  Ttl = 3
  TicksPerSecond = 2
  Kinds = {"memory", "redis"}
  MaxTime = 5
INVARIANTS StoreTypeOK AnswersAreLastWrites RemembersRecent
PROPERTIES ImplementsMap
