SPECIFICATION Spec
CONSTANTS
  Ids = {a}
  NoId = NoId
  AddrSpace = 16
  Threads = {t1, t2}
  NoThread = NoThread
  Addrs = {1, 3}
  Sizes = {1, 2, 3}
  AllocIds = {a}
  ReallocIds = {}
  Pkeys = {1}
INVARIANTS TypeOK AttributionExact KeysAccounted
