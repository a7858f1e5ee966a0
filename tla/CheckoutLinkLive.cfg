SPECIFICATION FairSpec
CONSTANTS
    o1 = o1
    o2 = o2
    c1 = c1
    c2 = c2
    id1 = id1
    tok1 = tok1
    tok2 = tok2
    weak = weak
    Order = {o2}
    Cart = {c1}
    Worker = {w1, w2}
    Ident = {id1, tok1, tok2, weak}
    cartIds <- MCCartIds
    payloads <- MCPayloads
    synced <- MCSynced
    MaxFaults = 1
    None = None

PROPERTIES EveryMatchLinks
