SPECIFICATION Spec
CONSTANTS
    Workers = {w1, w2}
    Accounts = {a1}
    Keys = {k1}
    Locks = {l1, l2}
    Appeals = {p1}
    None = none
    Amounts = {4}
    Earnings = {10}
    Bonuses = {20}
    BaseT = 1
    FloorT = 1
    CapT = 3
    Residues <- DoubleSums
    MaxUnlocked = 10
    MaxRestored = 0
    MaxCrashes = 1
SYMMETRY Symmetry
INVARIANTS TypeOK LockedBacksPlans ForfeitedInFull AppealsMatchForfeiture
PROPERTIES EndedIsFinal
CHECK_DEADLOCK FALSE
