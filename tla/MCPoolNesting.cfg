CONSTANTS
  a = a
  b = b
  aw = aw
  bw = bw
  NoPool = noPool
  Nobody = nobody
  App = {t1, t2}
  Pools = {a, b}
  Workers <- MCWorkers
  Nests <- Ordered
  Chunks = {1, 2}
  MaxCalls = 3
SPECIFICATION FairSpec
INVARIANTS TypeOK ExecutingIsInnermost ReentrantRunsSerially
PROPERTIES CallsReturn
