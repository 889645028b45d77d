CONSTANTS
  a = a
  b = b
  c = c
  Point = {p1, p2, p3}
  Key = {a, b, c}
  Cap = 16
  Home <- HomeCrowded
  Watched = p1
SPECIFICATION FairSpec
INVARIANTS TableInvariant VoxelsExact
PROPERTIES PublishedStays WaitFree
