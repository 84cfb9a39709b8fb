SPECIFICATION FairSpec
CONSTANTS
  Prims = {p1, p2}
  Connections = {c1, c2}
  Server = Server
  None = None
  Identity = Identity
  FilePrims = {p1}
  Inactive = {}
  Shapes = {"separate"}
  Capacity = 2
  PriorityCapacity = 2
  Leavers = {}
  MayDestroy = TRUE
  MaxUpdates = 0
  MaxActive = 1
  MaxCreates = 1
  MaxUploads = 0
INVARIANTS
  ActiveStateConverges
PROPERTIES
  EveryRequestAnswered
CHECK_DEADLOCK FALSE
