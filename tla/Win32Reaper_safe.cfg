\* Three threads, two transfers, no CancelIoEx, memory that may run out.
CONSTANTS
  Threads = {t1, t2, t3}
  Transfers = {x1, x2}
  Endpoint <- OneEndpoint
  NoTran = NoTran
  CancelIoEx = FALSE
  MaxCalls = 3
  MaxObjects = {64}
  MinHandles = 2
  AllocMayFail = TRUE
SPECIFICATION Spec
SYMMETRY Symmetry
INVARIANTS TypeOK OneReaper ListIsExact NothingIsMissed HandlesFit StatusIsFresh FreedIsUnused
CHECK_DEADLOCK FALSE
