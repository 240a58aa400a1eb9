SPECIFICATION FairSpec
CONSTANTS
    Ids = {1, 2}
    Blocks = 3
    Chunk = 2
    Generations = 4
    Selections = {"first"}
    MaxSaves = 2
    MaxRequests = 1
    MaxFaults = 2
INVARIANT Inv
PROPERTIES
    ImplementsLibrary
    SettingsAtomic
    NothingWrittenAfterLoss
    MarkedWhenDone
    StorageReturns
CHECK_DEADLOCK FALSE
