SPECIFICATION Spec
CONSTANTS
  c1 = c1
  c2 = c2
  Conns = {c1, c2}
  NoConn = NoConn
  Fds <- Descriptors
  Pids = {p1, p2}
  Limits = {0, 2}
  InitParallel = 1
  SingleClient = FALSE
  SigpipeIgnored = FALSE
  OSMayFail = FALSE
  Outcomes = {"exit"}
  MaxRun <- Runs11
  MaxCtl <- Ctl00
  SockCap = 1
  PipeCap = 1
CHECK_DEADLOCK FALSE
SYMMETRY Symmetry
INVARIANT AnswersToSender
