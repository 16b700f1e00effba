CONSTANTS
  MaxTimers = 2
  Delays <- SomeDelays
  MaxTime = 4
  MaxEvents = 1
SPECIFICATION FairSpec
INVARIANTS AlwaysArmed NeverTooOften
PROPERTIES TimeoutMeansSilence AnswerWins TimerIsServed
CHECK_DEADLOCK FALSE
