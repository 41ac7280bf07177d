CONSTANTS
    Main = main
    Thread = {main, w1, w2}
    NoThread = NoThread
    Clients = {w1, w2}
    SLICE = 2
    IrqModes = {TRUE, FALSE}
    MaxNest = 2
SPECIFICATION ThreadsFairSpec
INVARIANTS ThreadsInv SomebodyToRun
PROPERTIES LockKeepsCPU WokenByOthers NoStarvation JoinReturns
