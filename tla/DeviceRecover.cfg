SPECIFICATION Spec
CONSTANTS
    NGpus = 1
    PerGpu = 1
    Features = {"thermal"}
    MaxSem = 1
    MaxQueue = 1
INVARIANTS WaitJustified
CHECK_DEADLOCK FALSE
