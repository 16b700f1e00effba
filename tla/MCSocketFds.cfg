SPECIFICATION Spec
CONSTANTS
  Addresses = 3
  Fds = {3, 4, 5, 6}
  MaxOthers = 2
  CallsFail = TRUE
INVARIANTS ReturnedIsReady NothingLeftOpen
