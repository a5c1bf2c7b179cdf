SPECIFICATION Spec
CONSTANTS
    Threads = {t1, t2}
    Given <- AfterWrite
    MaxCalls = 2
    MaxCommands = 1
INVARIANT
    InjectedByThen
CHECK_DEADLOCK FALSE
