SPECIFICATION Spec
CONSTANTS
    Threads = {t1, t2, t3}
    Given <- Sound
    MaxCalls = 3
    MaxCommands = 1
INVARIANTS
    TypeOK
    InjectedOnce
    InjectedAfterOccurrence
PROPERTIES
    FaultInjected
    CallsReturn
    CommandsRun
CHECK_DEADLOCK FALSE
