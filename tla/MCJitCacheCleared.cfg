SPECIFICATION CacheSpec
CONSTANTS
    Procs = {p, q}
    Faults = {"clear"}
    MaxClearCalls = 1
    MaxOrphans = 0
INVARIANTS LoadsLocked
