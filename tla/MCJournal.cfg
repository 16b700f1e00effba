CONSTANTS
  Threads = {t1, t2}
  Readers = {r1}
  PageSize = 6
  DataLens <- Lens
  MaxPages = 2
  MaxFrames = 4
  MaxCrashes = 1
  MaxRejoins = 1
SPECIFICATION FairSpec
CHECK_DEADLOCK FALSE
INVARIANTS TypeOK CurrentInvisible
PROPERTIES PublishedIsImmutable ImplementsEventLog PublishedIsRead
