SPECIFICATION FairSpec
CONSTANTS
    NGpus = 1
    PerGpu = 1
    Features = {"enable", "screen_enable", "dynamic", "restart", "schedule", "thermal", "scanfail", "hang", "initfail"}
    MaxSem = 2
    MaxQueue = 1
PROPERTIES DisabledStops
CHECK_DEADLOCK FALSE
