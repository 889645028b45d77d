CONSTANTS
  Caller = {c1, c2}
  Owner = owner
  None = none
  MaxThreads = 3
  DefaultCount = 2
  Counts = {0, 1, 3, 4}
  Index <- MCIndex
  Ranges <- MCRanges
  MaxCalls = 2
  MaxSpurious = 1
SPECIFICATION Spec
INVARIANTS TypeOK Control Data NoLostWakeup SlotQuietWhenFilled PendingCountsWorkers CoveredExactlyOnce ChunksDisjoint
  NoCallbackAfterReturn NoReentrantSubmission ReleasedUnused
PROPERTIES NoGenerationSkipped KeepsPromise
