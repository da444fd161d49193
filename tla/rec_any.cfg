SPECIFICATION MCSpec
CONSTANTS
  QueueSize = 2
  MaxRecords = 3
  Recorders <- MCRecorders
  WithClient <- NoElastic
  Closable <- NoSqlite
  Isolating <- OnlyElastic
  Faulty <- OnlySqlite
  Restarts = TRUE
  Switches <- NoSqlite
INVARIANTS DroppedOrHanded EveryRecorderServed
PROPERTIES LogInOrder CloseReturns QueueDrains
CHECK_DEADLOCK FALSE
