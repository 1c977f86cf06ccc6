SPECIFICATION Spec
CONSTANTS
  Ids = {a, r, s}
  NoId = NoId
  AddrSpace = 16
  Threads = {t1}
  NoThread = NoThread
  Addrs = {1, 3}
  Sizes = {0, 1, 2}
  AllocIds = {a}
  ReallocIds = {r, s}
  Pkeys = {1}
INVARIANTS AttributionAlways NoFalseBlame OriginsMarked
PROPERTIES BlameSound ImplementsProfile
CONSTRAINT FewMixed
