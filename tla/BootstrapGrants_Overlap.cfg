\* Five calls, two per window in memory and in the table, a restart.
SPECIFICATION Spec
CONSTANTS
  Requests = {c1, c2, c3, c4, c5}
  MaxGrants = 2 MaxCalls = 2 Window = 2 MaxNow = 3
SYMMETRY CallSymmetry
INVARIANTS TypeOK OvershootBounded
CHECK_DEADLOCK FALSE
