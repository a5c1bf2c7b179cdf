SPECIFICATION Spec
CONSTANTS
    f1 = f1
    f2 = f2
    Files = {f1, f2}
    Given <- Sound
    Occurrences = {0, 1, 2}
    NoWrite = NoWrite
    MaxWrites = 3
    MaxRuns = 3
INVARIANTS
    TornInv
    OnlyTargetPersisted
    TornAsConfigured
PROPERTY
    FaultFires
CHECK_DEADLOCK FALSE
