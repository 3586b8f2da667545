SPECIFICATION FairSpec
CONSTANTS
    HeaderLen = 2
    Sizes = {2, 3}
    SockBuf = 3
    Greeting = 1
    PeerTalks = TRUE
    MayBreak = TRUE
    MaxPdus = 4
INVARIANTS
    BusyIffPending
    StreamIntact
    EventComing
PROPERTIES
    ChannelSpec
    AllDelivered
CHECK_DEADLOCK FALSE
