SPECIFICATION Spec
CONSTANTS
  Streams = {"control", "stdout", "stderr"}
  PerStream = 2
  Total = 4
  MaxSequence = 8
  Databases <- LogDatabases
  Faults = {"storage", "deadline"}
CHECK_DEADLOCK FALSE
INVARIANTS
  LogsBounded
PROPERTIES
  LogsKeepNewest
