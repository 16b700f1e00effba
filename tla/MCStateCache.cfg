CONSTANTS
  Dests <- Both
  Streams <- Published
  Timed <- Orders
  MaxVersion = 2
  MaxDay = 2
  MaxFaults = 2
SPECIFICATION Spec
CHECK_DEADLOCK FALSE
INVARIANTS NothingForgotten RestoreComplete NothingFromYesterday
