SPECIFICATION Spec
CONSTANTS
  Ids = {v1, v2}
  Procs = {p1}
  MaxCrests = 0
  Shielded = TRUE
  MaxFaults = 1
SYMMETRY Symmetry
INVARIANT NeverLost
