SPECIFICATION MCSpec
CONSTANTS
  w1 = w1
  w2 = w2
  r1 = r1
  r2 = r2
  r3 = r3
  r4 = r4
  port = port
  Workers <- MCWorkers2
  Rules <- MCRules
  Batches <- OnlyOn
  SrcLocal <- MCSrcLocal
  DstLocal <- MCDstLocal
  ServerKey <- SameServer
  Tool <- NoTool
  Bad <- NoBad
  Allowed <- Crashes
SYMMETRY WorkersAlike
INVARIANT ActiveIsPinging
