CONSTANTS
    PAGE_SIZE = 4
    MAX_ORDER = 2
    MemoryMap <- OneZone
    FreeRanges <- SomeReserved
    Caller = {t1}
    BootFree = {0, 1, 3}
SPECIFICATION PageSpec
INVARIANT PagesConserved
