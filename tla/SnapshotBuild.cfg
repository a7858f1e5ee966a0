SPECIFICATION FairSpec
CONSTANTS
    build1 = build1
    build2 = build2
    build3 = build3
    Build <- MCBuild
    First = First
    None = None
    Keep = 1
    MaxFaults = 1
INVARIANTS
    RebuiltWasServed
    GapHasCulprit
    CleanFailure
PROPERTIES
    CurrentOnlyRetired
    OnlyOverrunsGoBack
    LeaseSpec
    Heals
CHECK_DEADLOCK FALSE
