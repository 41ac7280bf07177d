CONSTANTS
    KMAP_PAGES = 7
    KMAP_ORDERS = 3
    Junk = {0, 3}
    FANOUT = 3
    HIGHER_BASE = 27
    VIRTUAL_BASE = 72
    MAX_PMEM_SIZE = 37
    Memory <- Sizes
    Line = {0, 12}
    CPUThread = {main, w}
    BootThread = main
SPECIFICATION BootSpec
INVARIANTS AreaPartitioned TagsTruthful SearchComplete MappingExact TlbFresh NoUnexpectedInterrupt LinesOpenWhenEnabled
PROPERTY TicksGoOn
CHECK_DEADLOCK FALSE
