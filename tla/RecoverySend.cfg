SPECIFICATION FairSpec
CONSTANTS
    c1 = c1
    Send = {s1}
    Cart = {c1}
    cartOf <- MCCartOf
    Worker = {w1, w2}
    MaxTries = 2
    MaxFaults = 2
    MaxChanges = 2
    None = None
INVARIANTS MailedOnce
PROPERTIES MailHasGrounds EverySendSettles
