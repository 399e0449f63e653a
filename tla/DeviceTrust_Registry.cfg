\* Three devices, one grant: enrolments, proofs and decisions race, and answered
\* challenges live long enough to be purged.
SPECIFICATION Spec
CONSTANTS
  Devices = {d1, d2, d3}
  IdentityKeys = {k1, k2, k3}
  Grants = {g1}
  RegIds = {r1, r2}
  ApprIds = {a1, a2, a3}
  Groups = {}
  Materials = {}
  NoDevice = NoDevice
  NoKey = NoKey
  NoGrant = NoGrant
  NoChallenge = NoChallenge
  NoRow = NoRow
  TTL = 1 Window = 2 Retention = 2 MaxOutstanding = 2 MaxPerAccount = 3 MaxPerSubject = 2 MaxVersion = 1 MaxNow = 4
SYMMETRY TrustSymmetry
INVARIANTS OneOpenPerSubject TrustChecksHold IdentityUnique AccountNeverLockedOut OpenApprovalIsCurrent
PROPERTIES VerdictsAreFinal ImplementsLifecycle
CHECK_DEADLOCK FALSE
