SPECIFICATION Spec
CONSTANTS
    Threads = {t1, t2}
    Given <- BeforeUnlink
    MaxCalls = 2
    MaxCommands = 1
PROPERTY
    CallsReturn
CHECK_DEADLOCK FALSE
