CONSTANTS
  s1 = s1
  s2 = s2
  askA = askA
  askB = askB
  write = write
  note = note
  Nobody = Nobody
  Slots <- TwoSlots
  Requests <- AllRequests
  Tools <- AllTools
  ToolOf <- Tool
  Consequential <- Consequences
  Mandatory <- Explicit
  AutoReview = TRUE
  MaxCalls = 2
  MaxRows = 2
  MaxEvents = 1
SYMMETRY Symmetry
CHECK_DEADLOCK FALSE
SPECIFICATION Spec
INVARIANT AtMostOnce
INVARIANT Consent
INVARIANT LedgerTrue
