SPECIFICATION Spec
CONSTANTS
  k1 = k1
  k2 = k2
  Keys = {k1, k2}
  v1 = v1
  v2 = v2
  Versions = {v1, v2}
  Stored = 1
  MaxNotes = 2
  MaxBuffered = 1
  Scenarios = {{"raise", "unreadable"}, {"unwritable", "crash"}, {"noise", "abandon"}, {"stop"}}
SYMMETRY Symmetry
INVARIANTS
    TypeOK
    NoLostChange
    NeverCatalogedAndFailed
CHECK_DEADLOCK FALSE
