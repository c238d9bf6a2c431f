SPECIFICATION Spec
CONSTANTS
    Workers = {w1}
    Accounts = {a1}
    Keys = {k1}
    Locks = {l1, l2}
    Appeals = {}
    None = none
    Amounts = {4}
    Earnings = {10}
    Bonuses = {20}
    BaseT = 1
    FloorT = 1
    CapT = 3
    Residues <- ExactSums
    MaxUnlocked = 10
    MaxRestored = 0
    MaxCrashes = 0
PROPERTIES KeyFailureReachesAll
CHECK_DEADLOCK FALSE
