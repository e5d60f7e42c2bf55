SPECIFICATION FairSpec
CONSTANTS
  c1 = c1
  c2 = c2
  Conns = {c1, c2}
  NoConn = NoConn
  InitParallel = 1
  Limits = {}
  SingleClient = FALSE
  SpawnMayFail = {}
  Events <- MemoryEvent
  MaxRun <- Runs11
  MaxCtl <- Ctl00
  RunParts = 1
CHECK_DEADLOCK FALSE
PROPERTY AnsweredIfNobodyLeaves
