SPECIFICATION FairSpec
CONSTANTS
    Capsules = 3
    BufferSize = 3
    MaxPos = 7
    MaxLine = 2
    MaxFaults = 1
    MaxLate = 1
    MaxCalls = 1
INVARIANTS
    TypeOK
    ScanBehindEvent
    ScansWhole
    AnswersMatch
PROPERTIES
    ScansInOrder
    ScansDelivered
CHECK_DEADLOCK FALSE
