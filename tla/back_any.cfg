SPECIFICATION FairSpec
CONSTANTS
  c1 = c1
  c2 = c2
  Apps <- AllApps
  Callers <- MCCallers
  MaxThreads = 2
  MaxScans = 2
  Allowed <- Anything
INVARIANTS SwitchTells
PROPERTIES StopReturns ScansAreDone
CHECK_DEADLOCK FALSE
