CONSTANTS
  Caller = {c1, c2}
  Owner = owner
  None = none
  MaxThreads = 3
  DefaultCount = 2
  Counts = {0, 3}
  Index <- MCIndex
  Ranges <- LiveRanges
  MaxCalls = 2
  MaxSpurious = 1
SPECIFICATION FairSpec
PROPERTIES CallsReturn DestroyCompletes
