SPECIFICATION Spec
CONSTANTS
  Names = {r, rr}
  RelCatName = RelCatName
  AttrCatName = AttrCatName
  Attrs = {a1}
  Short = r
  Longer = {rr, RelCatName}
  AttrArray = 2
  MaxRows = 1
  Faults = {}
PROPERTIES OnlyItsOwnRow
