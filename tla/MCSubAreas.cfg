SPECIFICATION Walk
CONSTANTS
    FieldX = 3500
    FieldY = 3
    ExploreAreas <- kExploreAreas
INVARIANTS
    TableLongEnough
    CutIsPartition
CHECK_DEADLOCK FALSE
