CONSTANTS
  Capacity = 4
  MaxPush = 7
  Width = 8
SPECIFICATION FairSpec
INVARIANTS TypeOK NoSharedCell WaitingIntact ResultStable IndexedByMask
PROPERTIES DeliversInOrder ImplementsDropNewest PublishedIsDelivered
CHECK_DEADLOCK FALSE
