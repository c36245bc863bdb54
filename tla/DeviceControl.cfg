SPECIFICATION FairSpec
CONSTANTS
    NGpus = 1
    PerGpu = 2
    Features = {"screen_enable", "scanfail", "dynamic", "restart"}
    MaxSem = 2
    MaxQueue = 1
INVARIANTS WaitJustified
PROPERTIES EnabledMines
CHECK_DEADLOCK FALSE
