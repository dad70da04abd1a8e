\* The smallest instance that shows it.
SPECIFICATION MCSpec
CONSTANTS
  Threads = {t1}
  Handles = {h1}
  Interfaces = {i1}
  Configurations = {0, 1}
  DeviceFile = DeviceFile
  Nobody = Nobody
  Outsider = Outsider
  MaxCalls = 3
  MaxBytes = 2
  MaxRequests = 2
  MaxDevices = 1
  DeviceLists <- MCDeviceLists
INVARIANT OutDataIsSent
CHECK_DEADLOCK FALSE
