SPECIFICATION Spec
CONSTANTS
  Ids = {a, b, r}
  NoId = NoId
  AddrSpace = 16
  Threads = {t1}
  NoThread = NoThread
  Addrs = {1, 2}
  Sizes = {1}
  AllocIds = {a, b}
  ReallocIds = {r}
  Pkeys = {1}
INVARIANT FaultMarksChain
