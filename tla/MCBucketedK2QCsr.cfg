SPECIFICATION Spec
CONSTANTS
    NumQ = 3
    NumKv = 2
    MaxKv = 3
    BucketSize = 2
    EdgeThreads = 2
    Inputs <- MCInputs
INVARIANTS TypeOK CsrInvertsQ2K
PROPERTIES SlotWrittenOnce
