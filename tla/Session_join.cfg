SPECIFICATION Spec
CONSTANTS
  Names = {r1, r2}
  Tmp = Tmp
  Cat = Cat
  Vals = {1, 2}
  Filters = {{1}}
  Ops = {"LT"}
  Sides = {"outer", "inner"}
  Methods = {"NL"}
  Cap = 2
  MaxRecs = 1
  MaxScan = 2
  MaxBad = 0
CHECK_DEADLOCK FALSE
PROPERTIES JoinAsAsked
