CONSTANTS
  Threads = {t1, t2, t3}
  Children = {c1, c2}
  SelfRemoving = {c1}
  Nobody = Nobody
  MaxCalls = 4
SPECIFICATION FairSpec
CHECK_DEADLOCK FALSE
INVARIANTS NoOrphan NoCallUnderLock
PROPERTIES ImplementsScope
