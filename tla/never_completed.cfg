SPECIFICATION FairSpec
CONSTANTS
  c1 = c1
  c2 = c2
  Conns <- Clients
  NoTimer = NoTimer
  NoKey = NoKey
  KeyRange = 6
  Kinds <- ForeignKinds
  Ends <- NoEnd
  Nothing = Nothing
  MaxTimers = 3
CHECK_DEADLOCK FALSE
PROPERTY LeftForLaterIsCompleted
