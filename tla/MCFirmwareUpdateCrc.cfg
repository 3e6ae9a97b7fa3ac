SPECIFICATION Spec
CONSTANTS
    phone1 = phone1
    phone2 = phone2
    tool = tool
    Client <- MCClient
    Lan <- MCLan
    Blank = Blank
    Torn = Torn
    MaxVersion = 2
    NumChunks = 2
    MaxRequests = 3
    MaxRestarts = 1
    MaxErrors = 1
INVARIANTS
    CopiesOnlyWhatCrcCovers
CHECK_DEADLOCK FALSE
