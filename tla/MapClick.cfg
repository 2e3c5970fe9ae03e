SPECIFICATION FairSpec
CONSTANTS
    MaxDrags = 4
    MaxRestarts = 1
INVARIANTS
    SinglePose
PROPERTIES
    DragSent
    PreviewEnds
