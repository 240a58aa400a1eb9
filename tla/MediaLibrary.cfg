SPECIFICATION FairSpec
CONSTANTS
    Ids = {1, 2}
    RejectCapacity = 1
    MaxItems = 1
    MaxRequests = 2
    MaxFaults = 1
INVARIANT Inv
PROPERTIES
    ReplacedBeforeDeleted
    DeletedReplaced
    SearchEnds
