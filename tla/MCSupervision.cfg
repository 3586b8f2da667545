SPECIFICATION FairSpec
CONSTANTS
    Pids <- MCPids
    Children = 1
    MaxRestarts = 1
    MaxDeaths = 1
    MaxReports = 1
INVARIANTS
    TypeOK
    MastersCounted
    

    
CHECK_DEADLOCK FALSE
