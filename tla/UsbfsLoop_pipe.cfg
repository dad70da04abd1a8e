CONSTANTS
  x1 = x1  x2 = x2  fd1 = fd1  fd2 = fd2
  Threads = {t1, t2}
  Transfers = {x1, x2}
  Fds = {fd1, fd2}
  FdOf <- OneDevice
  NoTran = NoTran
  NoThread = NoThread
  MaxCalls = 4
  PipeCap = 2
  QuietReset = TRUE
  LoopFirst = {TRUE}
  AllocMayFail = FALSE
SPECIFICATION Spec
SYMMETRY ThreadSymmetry
INVARIANT SubmitIsAsynchronous
CHECK_DEADLOCK FALSE
