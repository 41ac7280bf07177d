CONSTANTS
    Top = 7
    MemoryMaps <- SomeMaps
    Kernel <- TheKernel
    Module <- TheModule
    RANGES = 6
    Requests <- SomeRequests
    MaxBusy = 2
SPECIFICATION BallocSpec
INVARIANTS RangesApart ReservedNotFree FreeMemoryExact
CHECK_DEADLOCK FALSE
