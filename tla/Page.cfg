SPECIFICATION Spec
CONSTANTS
  Area = 12
  SlotSize = 2
  Bytes = {b1, b2}
  Lengths = {1, 3}
SYMMETRY Symmetry
INVARIANTS PageSound ScanVisitsAll
PROPERTIES ImplementsRecordPage
