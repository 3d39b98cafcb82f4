SPECIFICATION Spec
CONSTANTS
  NumBufs = 3
  Files = {f1, f2}
  Clients = {c1, c2}
  Data = {}
  MaxPages = 2
  Faults = {}
  NoFile = NoFile
  Zero = Zero
  Linked = Zero
SYMMETRY Symmetry
INVARIANTS PinsAccounted NoFrameLost AssertsHold FreeListSound
PROPERTIES PinnedPageStays
