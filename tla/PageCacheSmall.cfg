\* One block per page, no eviction, fewer pages than blocks.
SPECIFICATION Spec
CONSTANTS
    o1 = o1
    o2 = o2
    p1 = p1
    p2 = p2
    p3 = p3
    none = none
    nopage = nopage
    Owners <- MCOwners
    Blocks <- MCBlocks
    Pages <- ThreePages
    Values <- MCValues
    Zero = 0
    BLOCKS_PER_PAGE = 1
    APPLY_LRU_EVICTION = FALSE
    NONE = none
    NoPage = nopage
INVARIANTS
    FreeXorOwned
    TablesAgree
    LossIsReported
    SyncFlagMeansDurable
    NeverThrows
    EngineInv
PROPERTIES
    StoreSpec
