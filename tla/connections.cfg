SPECIFICATION FairSpec
CONSTANTS
  c1 = c1
  c2 = c2
  Conns <- Clients
  NoTimer = NoTimer
  NoKey = NoKey
  KeyRange = 6
  Kinds <- AnyKind
  Ends <- AnyEnd
  Nothing = Nothing
  MaxTimers = 3
CHECK_DEADLOCK FALSE
INVARIANTS
  TypeOK
  DeletedWhenIdle
  DeadlineWatches
  AnswersAreMade
  ObjectsAreHeld
PROPERTIES
  DeadlinesAreKept
  SilentClientsAreDropped
  ClosedConnectionsAreDeleted
