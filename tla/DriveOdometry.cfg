SPECIFICATION Spec
CONSTANTS
    Twists <- CurveOnly
    MaxRpm = 3
    Timeout = 1
    QueueDepth = 1
    Half = 64
    MaxFaults = 1
    MaxSetback = 1
    MaxLaunches = 2
    MaxTime = 4
INVARIANTS
    TypeOK
    OdometryExact
    VelocityPlausible
    CurveKept
CHECK_DEADLOCK FALSE
