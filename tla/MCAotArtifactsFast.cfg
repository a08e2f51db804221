CONSTANTS
    Kinds <- Fast
    MaxBuilds = 2
    MaxEdits = 0
    MaxClears = 0
SPECIFICATION Spec
INVARIANT FastEntryIsCurrent
