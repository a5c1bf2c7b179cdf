SPECIFICATION Spec
CONSTANTS
    f1 = f1
    f2 = f2
    f3 = f3
    Files = {f1, f2}
    Scenarios <- All
    NoFault = NoFault
    NoFile = NoFile
    NoRgx = NoRgx
    BadRgx = BadRgx
    Sizes = {1, 2, 3, 4, 5, 6, 7}
    MaxWrites = 3
    MaxInt = 100
    MaxRead = 3
    MaxCalls = 2
INVARIANTS
    TypeOK
    CrashAsAsked
    TornAsAsked
    ConfiguredFaultFires
    WithinWrite
    NoNewException
    NoticeMeansCleared
PROPERTY
    ClearIsAnswered
CHECK_DEADLOCK FALSE
