CONSTANTS
    Main = main
    Thread = {main, w1, w2, w3}
    NoThread = NoThread
    Clients = {w1, w2, w3}
    SLICE = 1
    IrqModes = {TRUE, FALSE}
    MaxNest = 2
    Mutex = {m1}
    Cond = {c1}
    NoMutex = NoMutex
    NoCond = NoCond
SYMMETRY WorkerSymmetry
SPECIFICATION Spec
INVARIANTS LockedIffOwned WaitNodesLive NoLostWakeup
PROPERTIES ImplementsMonitor KeepsSchedulerContract
