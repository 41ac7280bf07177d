CONSTANTS
    Main = main
    Thread = {main, w1}
    NoThread = NoThread
    Clients = {main, w1}
    SLICE = 1
    IrqModes = {TRUE}
    MaxNest = 2
    Mutex = {m1}
    Cond = {c1}
    NoMutex = NoMutex
    NoCond = NoCond

SPECIFICATION Spec
INVARIANT MutualExclusion
