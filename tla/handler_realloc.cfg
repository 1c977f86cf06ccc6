SPECIFICATION Spec
CONSTANTS
  Ids = {a, r}
  NoId = NoId
  AddrSpace = 16
  Threads = {t1, t2}
  NoThread = NoThread
  Addrs = {1, 2}
  Sizes = {1}
  AllocIds = {a}
  ReallocIds = {r}
  Pkeys = {1}
INVARIANTS IndInv FaultRecorded OriginsMarked NobodyStuck
PROPERTY ImplementsProfile
SYMMETRY ThreadSymmetry
