SPECIFICATION FairLockSpec
CONSTANTS
  t1 = t1  t2 = t2  v1 = v1  v2 = v2
  NULL = NULL
  N = 3
  Enqueuers = {t1, t2}
  Dequeuers = {t1}
  Vals = {v1}
  Modes <- LoopMode
PROPERTY LoopedEntriesAreEnqueued
