CONSTANTS
    Producers = {p1, p2}
    Consumers = {c1, c2}
    Stages = 2
    Items = 5
SPECIFICATION FairSpec
INVARIANTS
    ReadsItsItem
    PhasesInStep
PROPERTIES
    ImplementsContract
    EveryItemPasses
