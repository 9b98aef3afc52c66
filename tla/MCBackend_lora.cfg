SPECIFICATION BackendSpec
CONSTANTS
  Parts = {"lora"}
  m1 = m1  m2 = m2  m3 = m3  o1 = o1  o2 = o2  o3 = o3  s1 = s1  s2 = s2  s3 = s3
  CtModels = {m1, m2, m3}
  CtGPUs = {0, 1}
  CtSize <- MC_Size
  CtMemory = 9
  CtWorkers = 2
  CtRatio = 1
  CtPlacement <- MC_Placement
  CtMaxLoad <- MC_MaxLoad
  CtFailing <- MC_Failing
  CtMaxFailures = 1
  CtMaxUnobeyed = 0
  WlEngines = {"e1", "e2"}
  WlModels = {m1, m2}
  WlNone = WlNone
  WlWays = {"service", "async", "sync"}
  WlRows = 4
  WlThreads = 2
  WlMaxFailures = 2
  WlMaxTransfers = 2
  OvReqs = {o1, o2, o3}
  OvRounds <- MC_Rounds
  OvMaxNew = 3
  OvMaxRunning = 2
  OvNone = OvNone
  LoUids = {"none", "l1", "l2", "l3"}
  LoMax = 2
  SiReqs = {s1, s2, s3}
  SiKinds = {"frequency", "presence"}
  SiWeight <- MC_Weight
  SiMaxNew = 3
  SiMaxRetracts = 1
INVARIANTS
  LoraOwnSlot
CHECK_DEADLOCK FALSE
