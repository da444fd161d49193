SPECIFICATION MCSpec
CONSTANTS
  w1 = w1
  w2 = w2
  r1 = r1
  r2 = r2
  r3 = r3
  r4 = r4
  port = port
  Workers <- MCWorkers2
  Rules <- MCRules4
  Batches <- WithForeign
  SrcLocal <- MCSrcLocal
  DstLocal <- MCDstLocal
  ServerKey <- SameServer
  Tool <- Mixed
  Bad <- NoBad
  Allowed <- CrashAndLock
SYMMETRY WorkersAlike
INVARIANTS TypeOK StoppedIsSilent ServerBeforeClient Persisted ActivePings
CONSTRAINT OneFails
