SPECIFICATION FairSpec
CONSTANTS
  t1 = t1  t2 = t2  v1 = v1  v2 = v2
  NULL = NULL
  N = 2
  Enqueuers = {t1, t2}
  Dequeuers = {t1, t2}
  Vals = {v1, v2}
  Modes <- AllModes
INVARIANTS IInv ExclusiveEntries FlagAssertions CleanFindsSlot
PROPERTIES ImplementsFifo EntriesAreDequeued BlockedEnqueueProgresses
