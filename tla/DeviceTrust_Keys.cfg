\* Two devices and a circle; rows of the prototype.
SPECIFICATION Spec
CONSTANTS
  Devices = {d1, d2}
  IdentityKeys = {k1, k2}
  Grants = {g1, g2}
  RegIds = {r1, r2}
  ApprIds = {a1, a2}
  Groups = {circle}
  Materials = {m1, m2}
  NoDevice = NoDevice
  NoKey = NoKey
  NoGrant = NoGrant
  NoChallenge = NoChallenge
  NoRow = NoRow
  TTL = 1 Window = 1 Retention = 1 MaxOutstanding = 1 MaxPerAccount = 20 MaxPerSubject = 1 MaxVersion = 3 MaxNow = 1
SYMMETRY TrustSymmetry
INVARIANTS TrustIsRooted TypeOK KeysFollowDevice VersionNamesOneKey HistoryContiguous
PROPERTIES DirectoryNeverForgets
CHECK_DEADLOCK FALSE
