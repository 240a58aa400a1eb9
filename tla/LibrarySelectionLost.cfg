SPECIFICATION FairSpec
CONSTANTS
    Ids = {1, 2}
    RejectCapacity = 1
    MaxItems = 2
    MaxRequests = 2
    MaxFaults = 1
PROPERTY SelectionSurvivesLoss
