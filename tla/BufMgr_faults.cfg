SPECIFICATION Spec
CONSTANTS
  NumBufs = 2
  Files = {f1}
  Clients = {c1}
  Data = {d1}
  MaxPages = 3
  Faults = {"read", "write"}
  NoFile = NoFile
  Zero = Zero
  Linked = Linked
CHECK_DEADLOCK FALSE
INVARIANTS TypeOK HashAgrees UplLinked CleanIsOnDisk
PROPERTIES ImplementsPageStore
