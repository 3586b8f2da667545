SPECIFICATION Spec
CONSTANTS
    Children = {c1, c2, c3}
    Main = Main
    Worker = Worker
    Master = Master
    NoProc = NoProc
    DeadProc = DeadProc
    Commands = {"START", "PAUSE"}
    Unit = 1
    MaxPush = 2
    Faults = {"child", "worker"}
SYMMETRY Pool
INVARIANTS
    TypeOK
    PushNumExact
    NoMutualSleep
CHECK_DEADLOCK FALSE
