SPECIFICATION FairSpec
CONSTANTS
    WebGoals <- One
    OtherGoals <- Three
    Threads <- Two
    Polls <- Two
    MaxStops = 1
    MaxCrashes = 1
PROPERTIES
    PanelSettles
    StopEndsAll
    DrivingShownUnlessStopped
    RestShownUnlessSent
