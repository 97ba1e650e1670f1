SPECIFICATION Spec
CONSTANTS
  Modes <- LateModes
INVARIANTS CountsWithinSegment
