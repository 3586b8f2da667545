SPECIFICATION FairSpec
CONSTANTS
    Children = {c1}
    Main = Main
    Worker = Worker
    Master = Master
    NoProc = NoProc
    DeadProc = DeadProc
    Commands = {"START", "PAUSE"}
    Unit = 1
    MaxPush = 1
    Faults = {}
PROPERTIES
    MailAnnounced
CHECK_DEADLOCK FALSE
