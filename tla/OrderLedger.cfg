SPECIFICATION FairSpec
CONSTANTS
    o1 = o1
    o2 = o2
    c1 = c1
    c2 = c2
    Order <- MCOrder
    Customer <- MCCustomer
    names <- MCNames
    Gross = 1
    final <- MCFinal
    Hook = {h1}
    Sync = sync
    None = None
    MaxEvents = 2
INVARIANTS NeverOverstated TombstoneHolds
PROPERTIES NothingComesBack LedgerSpec LedgerSettles
