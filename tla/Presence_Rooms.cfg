\* Three sockets of two or three accounts, one to three events beside connections.
SPECIFICATION Spec
CONSTANTS
    Users = {"u", "v", "w"}
    Circles = {"c", "d"}
    Sockets = {"s1", "s2", "s3"}
    Worlds <- MC_Worlds
INVARIANTS
    TypeOK
    NoMemberMissesRoom
    PresenceStaysInCircle
    SettledViewIsTrue
CHECK_DEADLOCK FALSE
