CONSTANTS
    Launches <- MCLaunches
SPECIFICATION FairSpec
INVARIANTS
    TmemExclusive
    StatsHandedOver
    ScalesMatchScores
    NothingDangling
    OperandsHeld
    EpilogueOwnsRing
PROPERTIES
    ImplementsContract
    EveryTileStored
