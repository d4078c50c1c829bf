CONSTANTS
  reply = reply
  d1 = d1
  d2 = d2
  None = None
  Messages <- Replies
  Drains <- Two
  Cap = 1
  MaxAttempts = 2
  MaxCycles = 1
  MaxCrashes = 1
CHECK_DEADLOCK FALSE
SPECIFICATION Spec
INVARIANT InviteOnce
