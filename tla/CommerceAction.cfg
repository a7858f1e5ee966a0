SPECIFICATION Spec
CONSTANTS
    a1 = a1
    plain = plain
    textA = textA
    textB = textB
    Action = {a1}
    Request = {r1, r2}
    Text = {plain, textA, textB}
    desired <- MCDesired
    MaxAttempts = 2
    MaxFaults = 2
    MaxEdits = 2
    None = None
INVARIANTS StatusIsHonest ExecutesOnce
PROPERTIES EarlierEditKept
CHECK_DEADLOCK FALSE
