SPECIFICATION Spec
CONSTANTS
    FieldX = 5
    FieldY = 4
    ExploreAreas <- MCExploreAreas
    Treasures <- MCTreasures
    Nominal = 6
    Modulus = 65536
    Concurrent = 2
    MaxRefused = 0
INVARIANT AlwaysNextArea
CHECK_DEADLOCK FALSE
