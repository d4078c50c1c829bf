CONSTANTS
  MaxMessages = 3
  MaxRestarts = 1
  MaxRoutines = 1
  ChannelMessages <- SecondFromChannel
  Parallel = TRUE
  Retracts = TRUE
CHECK_DEADLOCK FALSE
SPECIFICATION FairSpec
INVARIANT RowsOwned
INVARIANT OneActive
INVARIANT SourceOnce
INVARIANT StopDiscards
PROPERTY Heard
