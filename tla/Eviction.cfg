SPECIFICATION Spec
CONSTANTS
  Programs <- EvictingPrograms
\* One request is followed to its end.
CHECK_DEADLOCK FALSE
INVARIANT NoBranchInterferes
