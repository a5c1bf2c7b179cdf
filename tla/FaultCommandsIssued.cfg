SPECIFICATION Spec
CONSTANTS
    f1 = f1
    f2 = f2
    f3 = f3
    Files = {f1, f2}
    Scenarios <- FirstWrite
    NoFault = NoFault
    NoFile = NoFile
    NoRgx = NoRgx
    BadRgx = BadRgx
    Sizes = {1, 2, 10}
    MaxWrites = 4
    MaxInt = 100
    MaxRead = 3
    MaxCalls = 2
INVARIANT
    IssuedWriteIsTorn
CHECK_DEADLOCK FALSE
