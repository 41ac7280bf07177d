CONSTANTS
    Main = main
    Thread = {main, w1, w2}
    NoThread = NoThread
    Clients = {w1, w2}
    SLICE = 1
    IrqModes = {TRUE}
    MaxNest = 2
    Mutex = {m1}
    Cond = {c1}
    NoMutex = NoMutex
    NoCond = NoCond
SPECIFICATION FairSpec
PROPERTIES LockEventuallyReturns
