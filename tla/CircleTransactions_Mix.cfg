\* Three handlers at a time around one circle.
SPECIFICATION Spec
CONSTANTS
    Users <- MC_Users
    Devices <- MC_Devices
    Keys <- MC_Keys
    UserOrder <- MC_UserOrder
    KeyOrder <- MC_KeyOrder
    DeviceUser <- MC_DeviceUser
    RequestIds <- MC_RequestIds
    Asker <- MC_Asker
    Thread <- MC_Thread
    Procs = {1, 2, 3}
    Scenarios <- MC_Scenarios
    PoolSize = 2
    MaxRetries = 1
INVARIANTS
    TypeOK
    ErrorsAreConflicts
    CircleOrderIsStable
    ShownIsAllowed
PROPERTIES
    DecisionsStand
    ImplementsLedger
    EveryCallAnswered
CHECK_DEADLOCK FALSE
