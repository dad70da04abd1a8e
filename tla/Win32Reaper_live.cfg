\* Two threads and two transfers under fairness, with CancelIoEx, and a wait
\* that takes any number of handles or one too few for both transfers;
\* memory for the handles may run out.
CONSTANTS
  Threads = {t1, t2}
  Transfers = {x1, x2}
  Endpoint <- OneEndpoint
  NoTran = NoTran
  CancelIoEx = TRUE
  MaxCalls = 2
  MaxObjects = {3, 64}
  MinHandles = 4
  AllocMayFail = TRUE
SPECIFICATION FairSpec
INVARIANTS CancelIsSelective SafeWithinLimits
PROPERTIES WaitReturns StopEndsLoop ImplementsService
CHECK_DEADLOCK FALSE
