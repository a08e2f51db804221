CONSTANTS
    Kinds <- Repository
    MaxBuilds = 3
    MaxEdits = 1
    MaxClears = 1
SPECIFICATION Spec
INVARIANTS NeverOlder FingerprintHolds ErrorsAreReal
PROPERTY LoadsWhatIsNamed
