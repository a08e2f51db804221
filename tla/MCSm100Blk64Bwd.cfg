CONSTANTS
    Launches <- MCAligned
SPECIFICATION FairSpec
INVARIANTS
    OperandsHeld
    TmemHandedOver
    OnlyLastdQAfterFree
PROPERTIES
    ImplementsContract
    EveryGradientAdded
