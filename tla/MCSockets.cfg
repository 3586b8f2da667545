SPECIFICATION FairSpec
CONSTANTS
    Peers = {1, 2}
    Fds = {1, 2}
    NoPeer = NoPeer
    Other = Other
    NoFd = NoFd
    Listening = Listening
    MaxPdus = 1
INVARIANTS
    TypeOK
    NothingDangling
    RefsExact
    Rightful
PROPERTIES
    GoneIsClosed
    AllAccepted
