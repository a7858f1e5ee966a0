SPECIFICATION JobFairSpec
CONSTANTS
    node1 = node1
    node2 = node2
    tickA = tickA
    tickB = tickB
    tickC = tickC
    Instance <- MCInstance
    Invocation <- MCInvocation
    host <- MCHost
    Units = 2
    NoToken = NoToken
INVARIANTS
    LiveClaimRecorded
PROPERTIES
    OnlyOwnerReleases
    NeverWedged
