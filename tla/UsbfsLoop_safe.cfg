\* Two threads, two devices, memory that may run out, clients that submit at
\* any time and clients that submit only while an event loop runs.
CONSTANTS
  x1 = x1  x2 = x2  fd1 = fd1  fd2 = fd2
  Threads = {t1, t2}
  Transfers = {x1, x2}
  Fds = {fd1, fd2}
  FdOf <- TwoDevices
  NoTran = NoTran
  NoThread = NoThread
  MaxCalls = 3
  PipeCap = 3
  QuietReset = TRUE
  LoopFirst = {TRUE, FALSE}
  AllocMayFail = TRUE
SPECIFICATION Spec
SYMMETRY Symmetry
INVARIANTS TypeOK OneLeader PollIsWoken OutstandingIsWatched IndexStaysValid SleepersAreOwed
PROPERTY ImplementsService
