SPECIFICATION MCSpec
CONSTANTS
    NPools = 2
    MaxPool = 3
    Net = {"n1"}
    Commands <- TheCommands
    Events = {"rotate"}
    Strategies <- TheStrategies
    Pools <- ThePools
    Supports = {"p2"}
    Stratum = {"p3"}
    NoSource = "none"
    MaxCommands = 4
    Pollers = {"poller"}
    Scheduler = "scheduler"
    Tips = 2
    MaxBlocks = 2
    MaxWorkBlock = 2
    MaxStaged = 1
INVARIANTS FailsBack AsleepForAReason OldWorkIsStale OrderAsAsked
CHECK_DEADLOCK FALSE
