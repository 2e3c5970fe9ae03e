SPECIFICATION FairSpec
CONSTANTS
    Bins <- MCBins
    MaxRange = 4
    RangeMin = 2
    RangeMax = 3
    LidarFrames <- OneLidarFrame
    DepthFrames <- OneDepthFrame
    MinPeriod = 1
    StaleTimeout = 0
    ScanQueueDepth = 2
    HwThreads = 1
    MaxSetback = 2
    Setbacks <- TwoTicks
    MaxTime = 3
INVARIANTS
    TypeOK
    PublishedDepthFresh
    SilenceBounded
PROPERTIES
    StampsIncrease
    ThrottleBlackoutBounded
    FreshScanPublished
    ImplementsFusedFeed
