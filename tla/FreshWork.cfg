SPECIFICATION FreshFairSpec
CONSTANTS
    Miner = {m1, m2}
    MaxStaged = 1
    Benchmark = FALSE
    MaxQueue = 2
    MaxShares = 1
INVARIANTS PoppersAwake
PROPERTIES RequestServed MiningGoesOn
CHECK_DEADLOCK FALSE
