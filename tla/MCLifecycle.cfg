SPECIFICATION Spec
CONSTANTS
  Sessions = {s1, s2}
  SingleEdit = {s1}
  AutoCommit = {s1}
  Connections = {c1, c2}
  Callers = {k1}
  Capacity = 2
  MaxEdits = 2
SYMMETRY Symmetry
INVARIANTS
  OneEditor
  TornDownAlone
  NoEditForgotten
  CommitKept
  NothingStuck
CHECK_DEADLOCK FALSE
