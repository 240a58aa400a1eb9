SPECIFICATION FairSpec
CONSTANTS
    Chunks = 2
    MaxClients = 2
    MaxFaults = 1
INVARIANT Inv
PROPERTY UploadEnds
