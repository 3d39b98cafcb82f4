SPECIFICATION FairSpec
CONSTANTS
  Names = {r1, r2}
  Tmp = Tmp
  Cat = Cat
  Vals = {1, 2}
  Filters = {{1}}
  Ops = {"EQ", "NE"}
  Sides = {"outer"}
  Methods = {"HJ"}
  Cap = 2
  MaxRecs = 1
  MaxScan = 2
  MaxBad = 1
CHECK_DEADLOCK FALSE
INVARIANTS TypeOK TmpOnlyAfterError
PROPERTIES RestartKeeps SelectExact JoinExact DeleteExact StatementEnds
