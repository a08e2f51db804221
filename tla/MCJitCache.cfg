SPECIFICATION FairCacheSpec
CONSTANTS
    Procs = {p, q}
    Faults = {"crash", "clear"}
    MaxClearCalls = 2
    MaxOrphans = 2
INVARIANTS LockedUntilCleared LoadsSettledLibrary NoHoldAndWait
PROPERTIES NeverRewritten EveryCallReturns
