CONSTANTS
  Kinds = {"now", "defer", "flush", "chain", "preset", "destroy"}
  Shapes = {s1, s2}
  Links = 3
  PendingMax = 2
  DeferMax = 1
  CacheMax = 1
  Failing <- Mixed
  DeviceLoss = TRUE
  MaxCalls = 3
SPECIFICATION FairSpec
INVARIANTS TypeOK InFlightAlive ReleasedOnce NothingLeaked OwedIsWaitedFor ResultsArrive OthersGetNoGarbage
PROPERTIES CallsReturn
