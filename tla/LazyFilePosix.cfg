\* A page for every block, two blocks, and other files that take the spare page:
\* the cache never fills, and the calls are those of PosixFile.
SPECIFICATION Spec
CONSTANTS
    IO_BLOCK_SIZE = 2
    CACHE_NR_PAGES = 3
    MaxOthers = 1
    Bytes = {0, 1}
    MaxSize = 4
    MaxWrite = 2
INVARIANTS
    FileInv
    UnsyncedIsDirty
PROPERTIES
    PosixSpec
    CallsArePosix
