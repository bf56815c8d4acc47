SPECIFICATION Spec
CONSTANT Cases <- MCCases
CHECK_DEADLOCK FALSE
INVARIANTS
    ReadyMeansClean
    BlockersStand
PROPERTY
    ImplementsVerdict
