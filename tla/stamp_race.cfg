SPECIFICATION Spec
CONSTANTS
  Workers = {w1, w2}
  Newline = 3
  IntHalf = 4
  Seeds <- SeedOne
  Requests <- PostItems
  Faults = FALSE
  Crashes = FALSE
  MaxInserts = 4
  Text <- MCText
  BreaksSql <- MCBreaksSql
  Dates <- MCDates
  Positions <- MCPositions
  Ids <- MCIds
  NoText = NoText
INVARIANT PostedItemHasItsStamp
