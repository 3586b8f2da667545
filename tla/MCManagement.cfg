SPECIFICATION FairSpec
CONSTANTS
    Conns <- MCConns
    Hosts = {"h1"}
    Ips = {"ip1", "ip2"}
    Ways <- MCWays
    MaxPages = 2
    MaxFaults = 3
INVARIANTS
    TypeOK
    NoGhosts
    PageTruthful
PROPERTIES
    AnswersOnly
    StatusSettles
    OnlineSettles
CHECK_DEADLOCK FALSE
