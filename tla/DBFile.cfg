SPECIFICATION Spec
CONSTANTS
  MaxPages = 4
  Data = {d1, d2}
SYMMETRY Symmetry
INVARIANTS HeaderSound EveryPageAccounted OwnersKeepImages
PROPERTIES ImplementsFileAlloc
