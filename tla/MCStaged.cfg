SPECIFICATION MCSpec
CONSTANTS
    Struct = {s1, s2, s3}
    Nil = Nil
    Pool = {g, s}
    StratumPool = {s}
    Scheduler = scheduler
    LongPoller = longpoller
    Miner = {m1}
    OptQueue = 0
    RollLimit = 4
    RollWindow = 0
    Expiry = 2
    FailOnly = TRUE
    MaxBase = 2
    MaxChain = 1
    MaxJob = 1
    MaxTime = 1
SYMMETRY Symmetry
INVARIANTS RollableBound PopFindsWork OneOwner NoDuplicateSearch
CHECK_DEADLOCK FALSE
