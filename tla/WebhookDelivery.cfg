\* Two events of one delivery id at two handlers, up to three faults.
SPECIFICATION FairSpec
CONSTANTS
    d1 = d1
    Event = {e1, e2}
    Delivery = {d1}
    deliveryId <- MCDeliveryId
    Worker = {w1, w2}
    None = None
    MaxFaults = 3
INVARIANTS
    NoEventLost
    OneWorkerPerRow
PROPERTIES
    ProcessedIsFinal
    
