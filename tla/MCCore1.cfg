SPECIFICATION FairSpec
CONSTANTS
    j1 = j1
    j2 = j2
    NoJob = NoJob
    HandoffsPerPass = 2
    FramesPerPass = 2
    Jobs <- MCJobs
INVARIANTS
    Inv
    WorkerContextAlive
    ListenersExclusive
    NoCircularWait
PROPERTIES
    BothCoresRun
