SPECIFICATION FairSpec
CONSTANTS
  Handler = {h1, h2}
  ClientKey = {k1}
  Outcome = {ready, blocked}
  LastNode = 3
  MaxRuns = 2
  MaxInput = 2
  MaxRestarts = 1
INVARIANTS
  TypeOK
  
  AnswerIsCurrent
  OpenRunHasOneWorker
PROPERTIES
  
  
  RunEndsUnlessLost
