SPECIFICATION Spec
CONSTANTS
  Scans = {s1}
  Inserters = {i1}
  Readers = {r1}
  Vals = {v1, v2}
  Filters = {{v1}}
  Area = 6
  RecLen = 1
  SlotSize = 2
  MaxPages = 2
  MaxRecCnt = 4
  Faults = {"read"}
CHECK_DEADLOCK FALSE
INVARIANTS FileSound PinsBalanced ChangesKept ScanComplete ScanOnce
