SPECIFICATION Spec
CONSTANTS
  c1 = c1
  c2 = c2
  Conns = {c1, c2}
  NoConn = NoConn
  InitParallel = 1
  Limits = {2}
  SingleClient = FALSE
  SpawnMayFail = {c1}
  Events <- TimeEvent
  MaxRun <- Runs11
  MaxCtl <- Ctl01
  RunParts = 2
CHECK_DEADLOCK FALSE
INVARIANT AnswersToSender
INVARIANT WritesTakeTurns
INVARIANT AlwaysReading
INVARIANT ReportedOnce
INVARIANT NoIdleSlot
PROPERTY RefinesJobPool
