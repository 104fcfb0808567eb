SPECIFICATION Spec
CONSTANTS
  Ids = {v1, v2}
  Procs = {p1}
  MaxCrests = 2
  Shielded = TRUE
  MaxFaults = 0
SYMMETRY Symmetry
INVARIANT CrestsReopen
