CONSTANTS
    Launches <- MCRagged
SPECIFICATION Spec
INVARIANTS
    PaddingAddsNothing
