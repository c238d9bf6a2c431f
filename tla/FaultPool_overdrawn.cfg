SPECIFICATION PoolSpec
CONSTANTS
    Workers = {w1, w2}
    Rewards = {1}
    Receipts = {1}
    MaxFault = 2
INVARIANTS NeverOverdrawn
CHECK_DEADLOCK FALSE
