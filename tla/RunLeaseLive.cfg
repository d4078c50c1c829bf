CONSTANTS
  a = a
  b = b
  None = None
  Slots <- TwoSlots
  Workers <- TwoWorkers
  WorkerOf <- OneProcess
  Computer = "team"
  Removable = TRUE
  MaxTurns = 1
  MaxRequests = 0
  MaxFaults = 1
CHECK_DEADLOCK FALSE
SPECIFICATION FairSpec
PROPERTY Progress
