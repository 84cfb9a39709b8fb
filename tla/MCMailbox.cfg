SPECIFICATION Spec
CONSTANTS
  Producers = {p1, p2, p3}
  Capacity = 2
  MaxPushes = 2
  Empty = Empty
INVARIANTS
  CommandsKept
PROPERTIES
  RejectsOnlyWhenFull
  ImplementsFifo
