\* A client gives up during its handshake.
CONSTANTS
    Sockets = {s1, s2}
    Devices = {d1}
    Convs = {}
    MaxSockets = 2
    MaxRooms = 0
SPECIFICATION Spec
SYMMETRY GatewaySymmetry
INVARIANTS
    PendingIsReal
CHECK_DEADLOCK FALSE
