SPECIFICATION FairSpec
CONSTANTS
  c1 = c1
  c2 = c2
  t1 = t1
  t2 = t2
  t3 = t3
  Callers <- MCCallers2
  Threads <- MCThreads2
  Limited = FALSE
  Tries = 1
  Attempts = 1
  Protocol = "TCP"
  Allowed <- AnyDisturbance
INVARIANTS RunningIsTrue SocketHeld
PROPERTIES CallsReturn StopsInTheEnd
