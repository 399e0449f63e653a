\* Three sockets of a device with two slots, two conversations and room for one.
\* No symmetry, for liveness.
CONSTANTS
    Sockets = {s1, s2, s3}
    Devices = {d1}
    Convs = {c1, c2}
    MaxSockets = 2
    MaxRooms = 1
SPECIFICATION Spec
INVARIANTS
    TypeOK
    SocketCap
    PendingCounted
    RoomCap
PROPERTIES
    RevocationClosesSockets
    HandshakeEnds
CHECK_DEADLOCK FALSE
