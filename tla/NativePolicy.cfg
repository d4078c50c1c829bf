CONSTANTS
  procurement = procurement
  facility = facility
  hiring = hiring
  Departments <- Three
  Board = board
  Auditor = auditor
  Nova = nova
  Task = task
  None = None
  MaxOutputs = 8
  MaxNotices = 2
  MaxEvents = 2
CHECK_DEADLOCK FALSE
SPECIFICATION Spec
INVARIANT TypeOK
INVARIANT AllOrNothing
INVARIANT AskedOnce
INVARIANT ReportIncomplete
INVARIANT Concluded
SYMMETRY DepartmentSymmetry
