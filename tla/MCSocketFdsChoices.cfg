SPECIFICATION Spec
CONSTANTS
  Addresses = 2
  Fds = {3, 4, 5}
  MaxOthers = 0
  CallsFail = FALSE
INVARIANT AnyChoiceWillDo
