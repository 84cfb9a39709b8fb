SPECIFICATION Spec
CONSTANTS
  Prims = {p1}
  Connections = {c1, c2}
  Server = Server
  None = None
  Identity = Identity
  FilePrims = {p1}
  Inactive = {}
  Shapes = {"separate"}
  Capacity = 6
  PriorityCapacity = 2
  Leavers = {}
  MayDestroy = FALSE
  MaxUpdates = 2
  MaxActive = 0
  MaxCreates = 0
  MaxUploads = 2
SYMMETRY Symmetry
INVARIANTS
  ClientsConverge
CHECK_DEADLOCK FALSE
