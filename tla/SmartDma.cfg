SPECIFICATION Spec
CONSTANT Modes <- AllModes
INVARIANTS TypeOK LocalWorkIsKept OnlyDoneIsWritten CountsWithinSegment
PROPERTY ImplementsRing
