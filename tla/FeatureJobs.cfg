SPECIFICATION FairSpec
CONSTANTS
    j1 = j1
    j2 = j2
    c1 = c1
    c2 = c2
    k1 = k1
    Job = {j1, j2}
    Cart = {c1, c2}
    Customer = {k1}
    Worker = {w1, w2}
    Chain = {h1, h2}
    cartOf <- MCCartOf
    customerOf <- MCCustomerOf
    MaxAttempts = 2
    StoreCap = 2
    CustomerCap = 1
    MaxDisturbances = 2
    None = None
INVARIANTS CapsOverrunBounded CopiesBounded
PROPERTIES EveryJobSettles
