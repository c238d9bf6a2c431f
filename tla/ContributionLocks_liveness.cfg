SPECIFICATION FairSpec
CONSTANTS
    Workers = {w1}
    Accounts = {a1}
    Keys = {k1}
    Locks = {l1}
    Appeals = {p1}
    None = none
    Amounts = {10, 11}
    Earnings = {18}
    Bonuses = {20}
    BaseT = 3
    FloorT = 5
    CapT = 20
    Residues <- DoubleSums
    MaxUnlocked = 18
    MaxRestored = 0
    MaxCrashes = 1
PROPERTIES PlansEndIfExact
CHECK_DEADLOCK FALSE
