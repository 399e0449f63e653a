\* Two requests per window and one outstanding: windows slide over expiry,
\* answers and purges.
SPECIFICATION RateSpec
CONSTANTS
  Devices = {d1, d2, d3}
  IdentityKeys = {k1, k2}
  Grants = {g1}
  RegIds = {r1, r2, r3}
  ApprIds = {a1, a2}
  Groups = {}
  Materials = {}
  NoDevice = NoDevice
  NoKey = NoKey
  NoGrant = NoGrant
  NoChallenge = NoChallenge
  NoRow = NoRow
  TTL = 1 Window = 2 Retention = 2 MaxOutstanding = 1 MaxPerAccount = 2 MaxPerSubject = 1 MaxVersion = 1 MaxNow = 3
SYMMETRY RateSymmetry
INVARIANTS ChallengeRate OutstandingBounded
CHECK_DEADLOCK FALSE
