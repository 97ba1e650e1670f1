SPECIFICATION Spec
CONSTANTS
  Programs <- AllPrograms
\* One request is followed to its end.
CHECK_DEADLOCK FALSE
INVARIANTS TypeOK FieldsAreWritten NothingIsDangling RequestIsIntact AllIsGivenBack IsAnswered NoBranchInterferes GraphSuppliesNeeds GraphCountsAnswers
