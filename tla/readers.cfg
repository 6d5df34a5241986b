SPECIFICATION Spec
CONSTANTS
  Workers = {w1, w2}
  Newline = 2
  IntHalf = 4
  Seeds <- SeedTwo
  Requests <- ReadersAndWriters
  Faults = FALSE
  Crashes = FALSE
  MaxInserts = 5
  Text <- MCText
  BreaksSql <- MCBreaksSql
  Dates <- MCDates
  Positions <- MCPositions
  Ids <- MCIds
  NoText = NoText
SYMMETRY AnyWorker
INVARIANTS
  ReadsAreValid
  ReadsMissNothing
  NoItemTwice
  ReadingOK
PROPERTIES
  ServesConcurrently
  RequestsAdvance
