SPECIFICATION FairSpec
CONSTANTS
    run1 = run1
    run2 = run2
    handler1 = handler1
    handler2 = handler2
    NoRun = NoRun
    Run <- MCRun
    Handler <- MCHandler
    MaxCycles = 1
    MaxWrites = 2
    MaxFaults = 1
INVARIANTS
    SyncAlone
    CompletionSweeps
    AckedMeansErased
PROPERTIES
    SyncSettles
    NoticeAnswered
