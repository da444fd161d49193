SPECIFICATION FairServerSpec
CONSTANTS
  k1 = k1
  k2 = k2
  port = port
  Keys <- MCKeys
  Port <- MCPort
  Kinds <- MCKinds
  MaxServers = 2
  MaxConns = 2
  ServerAllowed <- Anything
INVARIANTS ServerTypeOK Serves ClosedTakesOne
PROPERTIES PeersAnswered
CHECK_DEADLOCK FALSE
