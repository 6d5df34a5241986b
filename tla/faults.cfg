SPECIFICATION Spec
CONSTANTS
  Workers = {w1}
  Newline = 3
  IntHalf = 4
  Seeds <- SeedAny
  Requests <- AllOperations
  Faults = TRUE
  Crashes = TRUE
  MaxInserts = 4
  Text <- MCText
  BreaksSql <- MCBreaksSql
  Dates <- MCDates
  Positions <- MCPositions
  Ids <- MCIds
  NoText = NoText
INVARIANTS
  ReadsAreValid
  AcknowledgedIsStored
  EmptyAnswerChangedNothing
PROPERTIES
  DatabaseSpec
  IdsNeverReused
  ServesConcurrently
