SPECIFICATION MCSpec
CONSTANTS
  NumDevices = 2  NonceSpace = 9  Golden = {5}  MaxFaults = 1
  ThreadGpu <- MCThreadGpu  WorksOf <- MCWorksOf  HashesOf <- MCHashesOf
  UseSplit = {TRUE, FALSE}
  GroupSize = 2  OtherSize = 1  TempSize = 1  DefaultReserve = 2
  Platforms <- MCPlatforms  Cards <- MCCards  Options <- MCOptions
  Rams = {0, 13}  NumEnabled = 1  MaxStarts = 1
  NumGpus = 2  Listings <- MCListings  GpuMaps <- MCGpuMaps
  Deselected = {}  Reorder = TRUE  opt_restart = TRUE
  Automatic <- MCAutomatic  Temps = {60, 90}
  targettemp = 75  overtemp = 85  cutofftemp = 95  opt_hysteresis = 3
  gpu_fan = 50  min_fan = 48  DefaultFan = 40  FanStep = 5
  gpu_engine = 0  min_engine = 0  DefaultClock = 2  IdleClock = 0
  FanOrders = {70}  ClockOrders = {1}  MaxOrders = 1
  NoGpu = NoGpu  NoTuning = NoTuning
INVARIANT WorkNotRepeated
CHECK_DEADLOCK FALSE
