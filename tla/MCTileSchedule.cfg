CONSTANTS
    Roles = {load, mma}
    Launches <- MCLaunches
SPECIFICATION FairSpec
INVARIANTS
    RolesAgree
    NoTileTwice
    KvCoveredOnce
PROPERTIES
    EveryCtaFinishes
