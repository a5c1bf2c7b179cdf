SPECIFICATION Spec
CONSTANTS
    Threads = {t1, t2}
    Given <- AfterUnlink
    MaxCalls = 2
    MaxCommands = 1
INVARIANT
    InjectedByThen
CHECK_DEADLOCK FALSE
