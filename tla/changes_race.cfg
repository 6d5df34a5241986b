SPECIFICATION Spec
CONSTANTS
  Workers = {w1, w2}
  Newline = 3
  IntHalf = 4
  Seeds <- SeedOne
  Requests <- PutColumns
  Faults = FALSE
  Crashes = FALSE
  MaxInserts = 4
  Text <- MCText
  BreaksSql <- MCBreaksSql
  Dates <- MCDates
  Positions <- MCPositions
  Ids <- MCIds
  NoText = NoText
INVARIANT PutMissingColumnIsEmpty
