SPECIFICATION FairSpec
CONSTANTS
  e1 = e1  e2 = e2  d1 = d1  d2 = d2  NULL = NULL
  N = 2
  Enqueuers = {e1, e2}
  Dequeuers = {d1, d2}
  Modes <- AllModes
  MaxItems = 3
INVARIANTS IInv ExclusiveEntries
PROPERTIES ImplementsFifo ImplementsBag WaitingEnqueueProgresses EntriesAreTaken
