SPECIFICATION FairSpec
CONSTANTS
    WebGoals = {}
    OtherGoals <- TwoMore
    Threads <- One
    Polls <- One
    MaxStops = 1
    MaxCrashes = 0
PROPERTIES
    DrivingShown
