CONSTANTS
    CtaWarps = {w0, w1, w2}
    Launches <- MCLaunches
SPECIFICATION FairSpec
INVARIANTS
    OperandsHeld
    PFitsFp8
PROPERTIES
    ImplementsContract
    EveryOutputWritten
