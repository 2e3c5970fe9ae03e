SPECIFICATION SpecScript
CONSTANTS
    Twists <- DriveOnly
    MaxRpm = 1
    Timeout = 1
    QueueDepth = 1
    Half = 64
    MaxFaults = 2
    MaxSetback = 0
    MaxLaunches = 1
    MaxTime = 14
    Pause = 6
INVARIANTS
    SafeStop
PROPERTIES
    WatchdogBeforeInterrupt
VIEW WithoutOdometry
CHECK_DEADLOCK FALSE
