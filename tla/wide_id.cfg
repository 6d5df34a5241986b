SPECIFICATION Spec
CONSTANTS
  Workers = {w1}
  Newline = 3
  IntHalf = 4
  Seeds <- SeedOne
  Requests <- WideId
  Faults = FALSE
  Crashes = FALSE
  MaxInserts = 4
  Text <- MCText
  BreaksSql <- MCBreaksSql
  Dates <- MCDates
  Positions <- MCPositions
  Ids <- MCIds
  NoText = NoText
INVARIANT ShownColumnWasAskedFor
