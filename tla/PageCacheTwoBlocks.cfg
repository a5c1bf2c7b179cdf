\* Two blocks per page, no eviction; the properties are not about contents.
SPECIFICATION Spec
CONSTANTS
    o1 = o1
    o2 = o2
    p1 = p1
    p2 = p2
    p3 = p3
    none = none
    nopage = nopage
    Owners <- MCOwners
    Blocks <- ThreeBlocks
    Pages <- TwoPages
    Values <- OneValue
    Zero = 0
    BLOCKS_PER_PAGE = 2
    APPLY_LRU_EVICTION = FALSE
    NONE = none
    NoPage = nopage
CHECK_DEADLOCK FALSE
INVARIANT
    SlotsHoldOneBlock
