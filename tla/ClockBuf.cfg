SPECIFICATION Spec
CONSTANTS
  NumBufs = 2
  NULL = NULL
  Files = {f1}
  Clients = {c1, c2}
  Data = {d1}
  MaxPages = 3
  Faults = {"read", "write"}
  NoFile = NoFile
  Zero = Zero
INVARIANTS PoolSound SweepBounded
PROPERTIES SweepEnds ImplementsPageStore
