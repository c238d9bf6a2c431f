SPECIFICATION PoolSpec
CONSTANTS
    Workers = {w1, w2, w3}
    Rewards = {1, 2}
    Receipts = {1}
    MaxFault = 4
SYMMETRY Symmetry
INVARIANTS PoolTypeOK OverdraftBounded
CHECK_DEADLOCK FALSE
