SPECIFICATION Spec
CONSTANT Modes <- LapModes
PROPERTY ClaimedIsKept
