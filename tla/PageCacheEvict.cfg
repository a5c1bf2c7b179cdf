\* Eviction, one block per page, half as many pages as blocks.
\* The process may end in an uncaught exception.
SPECIFICATION Spec
CONSTANTS
    o1 = o1
    o2 = o2
    p1 = p1
    p2 = p2
    p3 = p3
    none = none
    nopage = nopage
    Owners <- MCOwners
    Blocks <- MCBlocks
    Pages <- TwoPages
    Values <- MCValues
    Zero = 0
    BLOCKS_PER_PAGE = 1
    APPLY_LRU_EVICTION = TRUE
    NONE = none
    NoPage = nopage
CHECK_DEADLOCK FALSE
INVARIANT
    PagesInv
PROPERTY
    EvictionShowsTheDisk
