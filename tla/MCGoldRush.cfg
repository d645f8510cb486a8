SPECIFICATION Spec
CONSTANTS
    Width = 2
    Height = 1
    MaxDepth = 3
    MaxLicenses = 2
    Slots = 2
    FreeDigs = 2
    MinDepthToCash = 2
    MaxFaults = 1
    TreasureMaps <- MCTreasureMaps
INVARIANTS
    TypeOK
    NoFatal
    WorkConserving
    DigInStep
    LeftAgrees
    CoinsAgree
PROPERTIES
    LifeSpec
    SlotsKept
CHECK_DEADLOCK FALSE
