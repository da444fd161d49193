SPECIFICATION FairSpec
CONSTANTS
  a = a
  b = b
  o = o
  Podiums <- MCPodiums
  Others <- MCOthers
  Owner <- MCOwner
  Platforms <- Both
  Allowed <- Anything
INVARIANTS WholeEgg AddedServes KnownServes
PROPERTIES InstallsEnd
CHECK_DEADLOCK FALSE
