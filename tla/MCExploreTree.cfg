SPECIFICATION Spec
CONSTANTS
    FieldX = 5
    FieldY = 4
    ExploreAreas <- MCExploreAreas
    Treasures <- MCTreasures
    Nominal = 4
    Modulus = 65536
    Concurrent = 2
    MaxRefused = 1
INVARIANTS
    TypeOK
    QueueSorted
    QueueExact
    NodeSums
    CountsExact
    CallsInStep
    LastIsDeduced
CHECK_DEADLOCK FALSE
