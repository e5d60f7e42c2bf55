SPECIFICATION FairSpec
CONSTANTS
  c1 = c1
  c2 = c2
  Conns = {c1, c2}
  NoConn = NoConn
  Fds <- Descriptors
  Pids = {p1, p2}
  Limits = {2}
  InitParallel = 1
  SingleClient = TRUE
  SigpipeIgnored = TRUE
  OSMayFail = TRUE
  Outcomes = {"exit"}
  MaxRun <- Runs11
  MaxCtl <- Ctl01
  SockCap = 1
  PipeCap = 1
CHECK_DEADLOCK FALSE
PROPERTY StopsAfterLastClient
PROPERTY RequestsAnswered
