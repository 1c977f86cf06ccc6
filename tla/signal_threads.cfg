SPECIFICATION FairSpec
CONSTANTS
  Threads = {t1, t2}
  Handlers = {h, g}
INVARIANTS TypeOK TrapReady ForwardsToOwner
PROPERTIES FaultServed OtherFaultEnds
