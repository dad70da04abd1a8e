\* Two threads, two handles and another program; up to four requests
\* of a transfer; lists of up to four devices.
SPECIFICATION MCSpec
CONSTANTS
  Threads = {t1, t2}
  Handles = {h1, h2}
  Interfaces = {i1, i2}
  Configurations = {0, 1, 2}
  DeviceFile = DeviceFile
  Nobody = Nobody
  Outsider = Outsider
  MaxCalls = 7
  MaxBytes = 2
  MaxRequests = 4
  MaxDevices = 4
  DeviceLists <- MCDeviceLists
SYMMETRY Symmetry
INVARIANTS MCTypeOK ConfigCacheIsOwn StatusTellsOutcome LookupIsExact
PROPERTY GetIsCurrent
CHECK_DEADLOCK FALSE
