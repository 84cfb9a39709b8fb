SPECIFICATION Spec
CONSTANTS
  Prims = {p1}
  Connections = {c1, c2}
  Server = Server
  None = None
  Identity = Identity
  FilePrims = {p1}
  Inactive = {}
  Shapes = {"separate"}
  Capacity = 1
  PriorityCapacity = 2
  Leavers = {c1, c2}
  MayDestroy = TRUE
  MaxUpdates = 2
  MaxActive = 0
  MaxCreates = 0
  MaxUploads = 0
SYMMETRY Symmetry
INVARIANTS
  TypeOK
  ClientsConverge
  AnsweredOnce
  VersionsAgreed
CHECK_DEADLOCK FALSE
