CONSTANTS
    w0 = w0
    w1 = w1
    Launches <- MCLaunches
SPECIFICATION FairSpec
INVARIANTS
    OperandsHeld
PROPERTIES
    ImplementsContract
    EveryGradientWritten
