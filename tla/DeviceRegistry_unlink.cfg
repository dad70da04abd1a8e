\* Two threads give back all they got; counts are never torn.
CONSTANTS
  Threads = {t1, t2}
  Addresses = {a1, a2}
  Objects = {d1, d2}
  ListHead = ListHead
  NoAddress = NoAddress
  NoObject = NoObject
  NoThread = NoThread
  Variables = {v1, v2}
  HandleVars = {h1}
  Setups <- UnlinkSetups
SPECIFICATION CppSpec
SYMMETRY Symmetry
INVARIANTS ExitIsClean
