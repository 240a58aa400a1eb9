SPECIFICATION FairSpec
CONSTANTS
    Pages = {1, 2}
    Chunks = 2
    MaxFaults = 1
INVARIANT Inv
PROPERTIES
    OnlyOwnCanceled
    EverythingFreed
