SPECIFICATION Spec
CONSTANTS
  Names = {r1, r2}
  RelCatName = RelCatName
  AttrCatName = AttrCatName
  Attrs = {a1, a2}
  Short = RelCatName
  Longer = {}
  AttrArray = 2
  MaxRows = 2
  Faults = {"call", "crash"}
CHECK_DEADLOCK FALSE
SYMMETRY Symmetry
INVARIANTS Isolation CatalogSound UndefinedOnlyAfterCrash
PROPERTIES ImplementsRelations
