SPECIFICATION Spec
CONSTANTS
    o1 = o1
    o2 = o2
    c1 = c1
    c2 = c2
    id1 = id1
    tok1 = tok1
    tok2 = tok2
    weak = weak
    Order = {o1, o2}
    Cart = {c1, c2}
    Worker = {w1, w2}
    Ident = {id1, tok1, tok2, weak}
    cartIds <- MCCartIds
    payloads <- MCPayloads
    synced <- MCSynced
    MaxFaults = 0
    None = None
SYMMETRY WorkerSymmetry
INVARIANTS OneOwner PurchaseRecovers
PROPERTIES LinkIsFinal CasesAreHonest
