SPECIFICATION StubSpec
CONSTANTS
    Width = 2
    Height = 1
    MaxDepth = 2
    MaxLicenses = 2
    FreeDigs = 2
    TreasureMaps <- MCTreasureMaps
    AreaBodies <- MCAreaBodies
    DigBodies <- MCDigBodies
    Payments <- MCPayments
    MaxExplores = 1
INVARIANTS
    TypeOK
    ExploreTruthful
    BooksBalance
    LastReport
    ServerErrors
PROPERTIES
    ValueConserved
    CoinsSpentOnce
    LicensesHonoured
CHECK_DEADLOCK FALSE
