SPECIFICATION FairSpec
CONSTANTS
  Workers = {w1}
  Newline = 25
  IntHalf = 4
  Seeds <- SeedAny
  Requests <- AllOperations
  Faults = FALSE
  Crashes = TRUE
  MaxInserts = 4
  Text <- MCText
  BreaksSql <- MCBreaksSql
  Dates <- MCDates
  Positions <- MCPositions
  Ids <- MCIds
  NoText = NoText
INVARIANTS
  TypeOK
  AcknowledgedIsStored
  EmptyAnswerChangedNothing
  StampsAreComplete
PROPERTIES
  EveryRequestEnds
  ServesAtomically
