\* Serialised calls on three devices, and threads that race for two.
CONSTANTS
  Threads = {t1, t2}
  Addresses = {a1, a2, a3}
  Objects = {d1, d2, d3}
  ListHead = ListHead
  NoAddress = NoAddress
  NoObject = NoObject
  NoThread = NoThread
  Variables = {v1, v2}
  HandleVars = {h1}
  Setups <- RegistrySetups
SPECIFICATION CppSpec
SYMMETRY Symmetry
INVARIANTS CppTypeOK WrappersOwnRefs RefsAreOwned HeldIsLive ListIsTerminated SerialExitIsClean OneDevicePerAddress ListIsIntact
