CONSTANTS
  lead = lead
  helper = helper
  None = None
  Bots <- Pair
  First = lead
  Group = TRUE
  Archivable <- Pair
  MaxHops = 2
  MaxBegun = 3
  MaxEvents = 1
CHECK_DEADLOCK FALSE
SPECIFICATION FairSpec
INVARIANT ToldOnce
INVARIANT MarkedWhenTold
INVARIANT ChainsEnd
INVARIANT OneOwner
PROPERTY Answered
