SPECIFICATION Spec
CONSTANTS
  g1 = g1  g2 = g2  m1 = m1  m2 = m2  m3 = m3  r1 = r1  r2 = r2
  GPUs = {g1}
  WorkersPerGPU = 2
  Models = {m1, m2}
  Reqs = {r1}
  ModelOf <- MC_ModelOf
  NoWorker = NoWorker
  NoModel = NoModel
  InitPlacement <- MC_Placement
  SkipThreshold = 0
  MaxCommands = 4
  Deactivations <- MC_Recompute
  MaxUnread = 2
  Orderly = FALSE
INVARIANTS
  TypeOK
  
  SocketAlternates
  WorkerFollowsPool
