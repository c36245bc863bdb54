SPECIFICATION MCSpec
CONSTANTS
    Addrs = {"a1", "a2"}
    UsbDrivers <- TwoDrivers
    NoAddr = "none"
    Chips = 2
    total_limit = 1
    MaxPlugs = 1
    NBytes = 6
    Ends = {2, 5, 6}
    LineSizes = {1, 2, 4}
    RawSizes = {5}
    Packet = 4
    USB_MAX_READ = 5
    buffered = TRUE
    ScDevs = {0}
    ScChips = 1
    que_full_enough = 2
    que_low = 2
    MaxWorks = 3
    MaxHeat = 0
    miner_count = 2
    ARRAY_SIZE = 2
    MaxAvWorks = 3
    MaxSendErrors = 1
    READ_SIZE = 3
    READBUF = 10
    Chunk = 4
    StreamWorks = {1, 2}
    MaxResults = 3
    MaxNoise = 2
    MinClock = 10
    DefClock = 11
    MaxClock = 12
    CutoffDrop = 1
    DeadDrop = 1
    EarlyUp = 1
    MinBack = 2
    TryUp = 2
    ErrorPercent = 40
    Targets = {10, 12}
    MaxShares = 3
    MaxOrders = 1
    Parts = 2
    BITFORCE_SLEEP_MS = 1
    WORK_CHECK_INTERVAL_MS = 2
    BITFORCE_CHECK_INTERVAL_MS = 1
    MaxSleep = 2
    MaxPolls = 2
    MaxInits = 1
    MaxBfWorks = 2
    MaxTimeouts = 1
    ICARUS_READ_SIZE = 3
    read_time = 3
    NonceRange = 5
    HashesPerPass = 2
    MaxIcWorks = 2
    MaxComms = 1
    Nonces = 8
    END_CONDITION = 0
    Found = {1, 2}
    INFO_HISTORY = 2
    MIN_DATA_COUNT = 1
    MAX_MIN_DATA_COUNT = 2
    HISTORY_SEC = 1
    ICARUS_READ_COUNT_TIMING = 50
    ICARUS_READ_COUNT_MIN = 1
    OptionItems <- IcarusOptions
    TimingItems <- IcarusTimings
    Offsets = {0, 1}
    ReadTimes <- ReadTimesFound
    MaxSets = 3
    MaxClock0 = 2
    Fpga = {"a", "b", "c"}
    NumChunks = 1
    MaxLate = 1
INVARIANTS UsbLocksKept WorkCounted OwnReplies
PROPERTIES StreamKept ResultsKept TunedOnEvidence
CHECK_DEADLOCK FALSE
