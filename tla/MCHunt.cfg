SPECIFICATION HuntSpec
CONSTANTS
    Width = 2
    Height = 2
    MaxDepth = 2
    MaxLicenses = 2
    Slots = 2
    FreeDigs = 2
    MinDepthToCash = 2
    MaxFaults = 0
    TreasureMaps <- MCTreasureMaps
    ExploreAreas <- MCExploreAreas
    Nominal = 4
    Modulus = 65536
    Concurrent = 1
    MaxRefused = 1
PROPERTIES
    DiggingSpec
    ExploringSpec
CHECK_DEADLOCK FALSE
