\* The lock alone, as the header of schedulerLocks.js describes it.
SPECIFICATION LockSpec
CONSTANTS
    node1 = node1
    node2 = node2
    tickA = tickA
    tickB = tickB
    tickC = tickC
    Instance <- MCInstance
    Invocation <- MCInvocation
    host <- MCHost
    Units = 1
    NoToken = NoToken
INVARIANTS
    OnePassPerLease
PROPERTIES
    JobLeaseSpec
