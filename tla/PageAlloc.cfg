CONSTANTS
    PAGE_SIZE = 4
    MAX_ORDER = 2
    MemoryMap <- TwoZones
    FreeRanges <- AllFree
    Caller = {t1, t2}
    BootFree = {}
SYMMETRY CallerSymmetry
SPECIFICATION PageSpec
INVARIANTS BlocksDisjoint PagesConserved FullyMerged
