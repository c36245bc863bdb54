SPECIFICATION MCSpec
CONSTANTS
    Thread = {t1, t2, t3}
    None = None
    Scheduler = t1
    Receiver = t2
    MaxNotify = 3
    MaxSession = 2
    MaxWork = 3
    Addresses = {"h1", "h2", "h3"}
    ApiAllow <- Allow
    ApiGroups <- Groups
    SOCKBUFSIZ = 5
    RecordSizes = {1, 3}
    Attached <- OnePga
    MaxDevices = 2
    MaxRequests = 2
    MaxPools = 2
    DeviceThreads = 2
    Asked <- Commands
    Gpus = 2
    total_devices = 4
    Chosen <- UserGives
    Intensities <- Adjusted
    JSON_MAX_DEPTH = 3
    Dynamic <- DynamicIntensity
    MaxChanges = 2
    MaxSaves = 1
INVARIANTS RepliesParse SettingsSurvive
PROPERTIES OnlyPermitted ShutdownEnds ImplementsWriteBiasedLock WriterGetsIn DistinctSnapshots
CHECK_DEADLOCK FALSE
