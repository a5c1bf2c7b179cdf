SPECIFICATION Spec
CONSTANTS
    f1 = f1
    f2 = f2
    f3 = f3
    Files = {f1, f2, f3}
    Scenarios <- Renaming
    NoFault = NoFault
    NoFile = NoFile
    NoRgx = NoRgx
    BadRgx = BadRgx
    Sizes = {1}
    MaxWrites = 3
    MaxInt = 100
    MaxRead = 3
    MaxCalls = 3
INVARIANT
    TwoPathsAsAsked
CHECK_DEADLOCK FALSE
