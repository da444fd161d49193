SPECIFICATION FairSpec
CONSTANTS
  c1 = c1
  c2 = c2
  t1 = t1
  t2 = t2
  t3 = t3
  Callers <- MCCallers2
  Threads <- MCThreads3
  Limited = TRUE
  Tries = 2
  Attempts = 2
  Protocol = "TCP"
  Allowed <- NoDisturbance
INVARIANTS OneLoop NoZombies OwnSocket PingsReported
PROPERTIES ImplementsLifecycle
