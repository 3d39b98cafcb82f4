SPECIFICATION Spec
CONSTANTS
  Names = {n1, n2}
  Addrs = {a1, a2}
  NoFile = NoFile
  Clients = {c1, c2, c3}
  MaxOpen = 3
  Faults = {"leak"}
SYMMETRY Symmetry
CHECK_DEADLOCK FALSE
INVARIANTS RegistrySound HandlesLive FramesOfOpenFiles
