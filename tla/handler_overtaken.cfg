SPECIFICATION Spec
CONSTANTS
  Ids = {a, b}
  NoId = NoId
  AddrSpace = 16
  Threads = {t1, t2}
  NoThread = NoThread
  Addrs = {1}
  Sizes = {1}
  AllocIds = {a, b}
  ReallocIds = {}
  Pkeys = {1}
INVARIANT AttributionAlways
