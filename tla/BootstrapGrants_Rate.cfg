\* The documented rate.
SPECIFICATION Spec
CONSTANTS
  Requests = {c1, c2, c3, c4, c5}
  MaxGrants = 2 MaxCalls = 2 Window = 2 MaxNow = 3
SYMMETRY CallSymmetry
INVARIANT GrantRate
CHECK_DEADLOCK FALSE
