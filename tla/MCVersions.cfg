SPECIFICATION Spec
CONSTANTS
  Prims = {p1, p2}
  Connections = {c1, c2}
  Server = Server
  Recorders = {consumer}
  Consumer = consumer
  MaxSeq = 4
  Nothing = Nothing
SYMMETRY Symmetry
INVARIANTS
  BaseCheck
