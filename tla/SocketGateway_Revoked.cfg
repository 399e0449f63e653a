\* A revocation races a handshake.
CONSTANTS
    Sockets = {s1, s2}
    Devices = {d1}
    Convs = {}
    MaxSockets = 2
    MaxRooms = 0
SPECIFICATION Spec
SYMMETRY GatewaySymmetry
INVARIANTS
    RevokedHasNoSocket
CHECK_DEADLOCK FALSE
