SPECIFICATION PartsSpec
CONSTANTS
  ReqLen <- MCReqLen
  AnsLen <- MCAnsLen
  ReadOnce = 4
  RecvOnce = 3
  SockRoom = 5
  PolloutRoom = 4
  MemcpyOrders = {"forward"}
  Cmds <- MCCmds
  ArgLists <- MCArgLists
  Files <- MCFiles
  Limits = {"0", "5"}
  CmdSize = 16
  Ids = {"a", "b"}
  NoRequest = NoRequest
  InitCap = 1
  MaxPush = 4
  Fds <- MCFds
  Sock = Sock
  Pipe = Pipe
  Gone = Gone
  Parallel = 1
  TimeLimits = {0, 1}
  MemLimits = {0, 1}
  Codes = {0, 3}
  Failure = 1
  Signals <- MCSignals
  Killed = 10
  StillActive = 259
  Undefined = 99
  MaxEvents = 2
INVARIANT StdinArrives
