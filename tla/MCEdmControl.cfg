SPECIFICATION FairSpec
CONSTANTS
    Clients = {1, 2}
    NoClient = 0
    Conns = {1, 2}
    Orders = {"START"}
    Rates = {1, 2}
    DefaultRate = 1
    Garbage = {"CPP", "PHP"}
    MaxOrders = 2
    MaxBreaks = 1
INVARIANTS
    InStep
PROPERTIES
    Learns
    EndsUpRegistered
CHECK_DEADLOCK FALSE
