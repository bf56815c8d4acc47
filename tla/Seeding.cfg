SPECIFICATION FairSpec
CONSTANTS
  Server = server
  Script = {s1, s2}
  Handler = {h1}
  Account <- MCAccount
  MaxRuns = 2
  MaxCrashes = 2
INVARIANTS
  LadderIsStaffed
  ApprovalIsOfThisData
  ListAgrees
PROPERTIES
  EventuallyServing
CHECK_DEADLOCK FALSE
