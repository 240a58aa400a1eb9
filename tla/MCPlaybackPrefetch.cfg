SPECIFICATION Spec
CONSTANTS
    Files <- MCFiles
    NoFile = NoFile
    Size <- MCSize
    BlockCount = 2
    BlockBytes = 2
    MaxRequest = 3
INVARIANT Inv
PROPERTIES
    ImplementsReader
    AheadKeepsCursor
