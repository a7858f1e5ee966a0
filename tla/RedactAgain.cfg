SPECIFICATION Spec
CONSTANTS
    run1 = run1
    run2 = run2
    handler1 = handler1
    handler2 = handler2
    NoRun = NoRun
    Run <- MCRun
    Handler <- MCHandler
    MaxCycles = 2
    MaxWrites = 1
    MaxFaults = 0
INVARIANTS
    EveryRedactErases
