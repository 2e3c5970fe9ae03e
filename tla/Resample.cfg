SPECIFICATION Spec
CONSTANTS
    HalfTurn = 6
    NumBins = 3
    Step = 4
    SectorLists <- AllSectors
    Scans <- AllScans
INVARIANTS
    TypeOK
    MaskExact
    BinNearest
    BinsExact
