SPECIFICATION UdiSpec
CONSTANTS
  nil = nil
  b1 = b1
  b2 = b2
  r1 = r1
  r2 = r2
  i1 = i1
  c1 = c1
  c2 = c2
  t1 = t1
  t2 = t2
  m1 = m1
  k0 = k0
  k1 = k1
  k2 = k2
  n1 = n1
  n2 = n2
  n3 = n3
  bridge = bridge
  disk = disk
  d1 = d1
  d2 = d2
  Region = {r1, i1}
  Interrupt = {i1}
  Cb = {c1, c2}
  Thread = {t1, t2}
  CallbackLimit = 1
  MemoryFails = TRUE
  MaxCalls = 4
  ChanRegion = {r1, r2}
  Chan = {k0, k1, k2}
  FirstChan = k0
  SpawnIdx = {1}
  PoolSize = 1
  ChanCalls = 4
  AttrRequest = {c1, c2}
  AttrName <- Names
  AttrValue = {"nothing", "x"}
  AttrCalls = 3
  LogThread = {t1, t2}
  LogPool = {m1, m2}
  LogSize = 3
  LogWrites = 3
  DmaConstraint = {c1, c2}
  DmaPath = {n1}
  DmaHandle = {d1, d2}
  DmaBuf = {b1}
  DmaSpecs <- AttributeLists
  DmaUnsupported <- Refused
  DmaTracker = TRUE
  NoObject = nil
  DmaCalls = 3
INVARIANTS BuffersAreSound RegionsAreSound TimersAreOnTime ChannelsAreSound LayoutsAreRead AgentIsSound AttributesAreSound ResourcesAreSound ListsRunAsWritten ControlBlocksAreSound LogIsSound
PROPERTY AllWorkIsDone
CHECK_DEADLOCK FALSE
