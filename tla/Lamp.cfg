SPECIFICATION FairSpec
CONSTANTS
    Requests <- AllModes
    Undefined <- Anything
INVARIANTS
    TypeOK
PROPERTIES
    NeverBrighter
    EvenBlink
    FadesUpAndDown
