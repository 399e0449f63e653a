SPECIFICATION Spec
CONSTANTS
    Convs = {c1}
    MaxSockets = 2
    MaxFlights = 2
    MaxTimers = 1
    MaxRefreshes = 2
INVARIANT
    Resubscribed
