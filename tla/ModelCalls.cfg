SPECIFICATION CallsSpec
CONSTANTS
  Model = {m1, m2}
  None = None
  Configs <- MCConfigs
  TopK = 2
  MaxFound = 3
  MaxWaits = 4
SYMMETRY Symmetry
INVARIANTS
  AnsweredInTime
  FallbackIsTheLastResort
  EvidenceSurvives
CHECK_DEADLOCK FALSE
