SPECIFICATION Spec
CONSTANTS
  Ids = {v1, v2}
  Procs = {p1, p2}
  MaxCrests = 1
  Shielded = TRUE
  MaxFaults = 1
SYMMETRY Symmetry
INVARIANTS TypeOK OnlyStrandedAreLost TiersDisjoint ForgottenStaysGone RestartIsExact
