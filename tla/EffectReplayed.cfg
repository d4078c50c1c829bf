CONSTANTS
  s1 = s1
  s2 = s2
  askA = askA
  askB = askB
  write = write
  note = note
  Nobody = Nobody
  Slots <- OneSlot
  Requests <- OneRequest
  Tools <- AllTools
  ToolOf <- OneTool
  Consequential <- Consequences
  Mandatory <- Explicit
  AutoReview = FALSE
  MaxCalls = 2
  MaxRows = 2
  MaxEvents = 0
CHECK_DEADLOCK FALSE
SPECIFICATION Spec
INVARIANT AllReplayed
