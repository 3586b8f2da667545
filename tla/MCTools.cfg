SPECIFICATION Calls
CONSTANTS
    BUF_SIZE = 8
    Stamps <- MCStamps
    Files <- MCFiles
    Tables <- MCTables
INVARIANTS
    DelaysAddUp
    ConfigAsWritten
    MailAsStored
CHECK_DEADLOCK FALSE
