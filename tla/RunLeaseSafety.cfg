CONSTANTS
  a = a
  b = b
  None = None
  Slots <- TwoSlots
  Workers <- TwoWorkers
  WorkerOf <- OwnProcess
  Computer = "team"
  Removable = FALSE
  MaxTurns = 2
  MaxRequests = 1
  MaxFaults = 1
SYMMETRY Symmetry
CHECK_DEADLOCK FALSE
SPECIFICATION Spec
INVARIANT TypeOK
PROPERTY TerminalFinal
PROPERTY LeaseRespected
PROPERTY ReleaseKept
PROPERTY ReleaseResumes
PROPERTY LifecycleSpec
