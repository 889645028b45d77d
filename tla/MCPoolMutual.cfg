CONSTANTS
  a = a
  b = b
  aw = aw
  bw = bw
  NoPool = noPool
  Nobody = nobody
  App = {t1}
  Pools = {a, b}
  Workers <- MCWorkers
  Nests <- Mutual
  Chunks = {1, 2}
  MaxCalls = 3
SPECIFICATION Spec
INVARIANTS ReentrantRunsSerially
