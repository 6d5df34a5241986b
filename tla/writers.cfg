SPECIFICATION FairSpec
CONSTANTS
  Workers = {w1, w2}
  Newline = 2
  IntHalf = 4
  Seeds <- SeedOne
  Requests <- Writers
  Faults = FALSE
  Crashes = FALSE
  MaxInserts = 4
  Text <- MCText
  BreaksSql <- MCBreaksSql
  Dates <- MCDates
  Positions <- MCPositions
  Ids <- MCIds
  NoText = NoText
INVARIANTS
  PostedRowsWereStored
  AcknowledgedIsStored
  EmptyAnswerChangedNothing
PROPERTIES
  EveryRequestEnds
  ServesConcurrently
