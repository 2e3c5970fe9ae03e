SPECIFICATION Spec
CONSTANTS
    Twists <- DriveOnly
    MaxRpm = 1
    Timeout = 1
    QueueDepth = 2
    Half = 16
    MaxFaults = 2
    MaxSetback = 1
    MaxLaunches = 2
    MaxTime = 11
INVARIANTS
    StopsInTime
    SilenceStops
    OrderlyExitStops
VIEW WithoutOdometry
CHECK_DEADLOCK FALSE
