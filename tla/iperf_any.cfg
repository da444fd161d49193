SPECIFICATION FairSpec
CONSTANTS
  s1 = s1
  s2 = s2
  p1 = p1
  p2 = p2
  None = None
  Scripts <- MCScripts
  Ports <- MCPorts
  Givens <- MCGivens
  Draws = 2
  MaxJobs = 3
  Allowed <- Anything
INVARIANTS ServerStays CleansUp OwnJob
PROPERTIES ScriptsEnd
CHECK_DEADLOCK FALSE
