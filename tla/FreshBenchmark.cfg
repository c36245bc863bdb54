SPECIFICATION FreshFairSpec
CONSTANTS
    Miner = {m1, m2}
    MaxStaged = 1
    Benchmark = TRUE
    MaxQueue = 2
    MaxShares = 1

PROPERTY MiningGoesOn
CHECK_DEADLOCK FALSE
