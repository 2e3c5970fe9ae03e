SPECIFICATION FairSpec
CONSTANTS
    MaxSessions = 3
    MaxFails = 2
INVARIANTS
    OneUser
    BeliefTrue
PROPERTIES
    CameraComesBack
CHECK_DEADLOCK FALSE
