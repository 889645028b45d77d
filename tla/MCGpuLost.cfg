CONSTANTS
  Kinds = {"now", "defer", "flush"}
  Shapes = {s1, s2, s3}
  Links = 1
  PendingMax = 2
  DeferMax = 1
  CacheMax = 2
  Failing <- Nothing
  DeviceLoss = TRUE
  MaxCalls = 3
SPECIFICATION Spec
INVARIANTS FlushIsTruthful
