SPECIFICATION Spec
CONSTANTS
  None = None
  Code <- MCCode
  Unit = 20
  MinRevenue = 50
  Payloads <- MCPayloads
INVARIANTS
  ReadyMeansMet
  MetMeansReady
  FactsAreFaithful
CHECK_DEADLOCK FALSE
