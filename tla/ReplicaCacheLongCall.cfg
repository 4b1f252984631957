SPECIFICATION Spec
CONSTANTS
  Policy = "adaptive"
  PinThreshold = 1
  OffloadThreshold = 2
  DeadSession = 2
  Sessions = {s1, s2, s3}
  GpuCacheTokens = 3
  DramCacheTokens = 2
  MaxEntryTokens = 1
  Arrivals <- MCArrivals
  Latencies <- MCLatencies
  Gaps <- MCGaps
PROPERTIES LongGapLeavesHbm
SYMMETRY Symmetry
