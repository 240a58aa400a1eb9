SPECIFICATION PipeFairSpec
CONSTANTS
    SlotBytes = 2
    PrimeBytes = 1
    MaxRecord = 6
    MaxRead = 3
INVARIANTS
    PipeInv
    SlotExclusive
PROPERTIES
    ImplementsStream
    RecordEnds
