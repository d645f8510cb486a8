SPECIFICATION FairSpec
CONSTANTS
    Width = 2
    Height = 1
    MaxDepth = 3
    MaxLicenses = 1
    Slots = 1
    FreeDigs = 2
    MinDepthToCash = 2
    MaxFaults = 0
    TreasureMaps <- MCTreasureMaps
PROPERTIES
    AllExchanged
CHECK_DEADLOCK FALSE
