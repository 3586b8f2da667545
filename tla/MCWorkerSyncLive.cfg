SPECIFICATION FairSpec
CONSTANTS
    Children = {c1}
    Main = Main
    Worker = Worker
    Master = Master
    NoProc = NoProc
    DeadProc = DeadProc
    Commands = {"START", "PAUSE"}
    Unit = 1
    MaxPush = 1
    Faults = {"child", "worker"}
PROPERTIES
    SetStatusReturns
    WokenRuns
CHECK_DEADLOCK FALSE
