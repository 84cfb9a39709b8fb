SPECIFICATION Spec
CONSTANTS
  Names = {a, b}
  Stem <- OneStem
  Packages = {a}
  Existing = {a}
  Uploads = {u1, u2}
  Commits = {k1}
  Downloads = {d1}
  Imaging = TRUE
  MaxSessions = 1
  MaxCrashes = 1
SYMMETRY Symmetry
INVARIANT WrittenAtomically
CHECK_DEADLOCK FALSE
