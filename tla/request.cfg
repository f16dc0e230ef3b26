SPECIFICATION Spec
CONSTANTS
    Latency = 1
    Threshold = 1
    Limit = 6
    Window = 3
    Leeway = 1
    Lifetime = 4
    Grace = 3
    Skews <- LocalClocks
    MaxDisturbances = 3
    NonceFirst = TRUE
    None = None
PROPERTIES
    ClockSettles
    ReturnedIsLive
    GetsSession
CHECK_DEADLOCK FALSE
