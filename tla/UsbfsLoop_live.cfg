CONSTANTS
  x1 = x1  x2 = x2  fd1 = fd1  fd2 = fd2
  Threads = {t1, t2}
  Transfers = {x1}
  Fds = {fd1}
  FdOf <- OneTransfer
  NoTran = NoTran
  NoThread = NoThread
  MaxCalls = 3
  PipeCap = 3
  QuietReset = TRUE
  LoopFirst = {FALSE}
  AllocMayFail = FALSE
SPECIFICATION FairSpec
PROPERTIES LoopReaps StopEndsLoop FollowerReturns
