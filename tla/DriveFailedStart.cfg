SPECIFICATION FairSpec
CONSTANTS
    Twists <- DriveOnly
    MaxRpm = 1
    Timeout = 1
    QueueDepth = 1
    Half = 16
    MaxFaults = 1
    MaxSetback = 0
    MaxLaunches = 1
    MaxTime = 1
PROPERTIES
    FailedStartEnds
CHECK_DEADLOCK FALSE
