SPECIFICATION FairSpec
CONSTANTS
  Tasks = {t1, t2}
  Tools = {"run"}
  MaxCalls = 1
  MaxAborts = 0
  Diversions = {}
  None = None
INVARIANTS PromptIsReachable
 
CHECK_DEADLOCK FALSE
