\* Fewer pages than blocks, and other files that take pages.
SPECIFICATION Spec
CONSTANTS
    IO_BLOCK_SIZE = 2
    CACHE_NR_PAGES = 2
    MaxOthers = 1
    Bytes = {0, 1}
    MaxSize = 5
    MaxWrite = 3
INVARIANTS
    ReadsReturnContent
    WriteIsExact
PROPERTY
    FsyncIsExact
