SPECIFICATION FairSpec
CONSTANTS
    Numbers = {2, 65534}
    Texts <- MCTexts
    Junk = {0, 7}
    READ_BUF_SIZE = 7
    MaxPdus = 2
INVARIANTS
    InBounds
    ReadsBack
PROPERTIES
    AllRead
CHECK_DEADLOCK FALSE
