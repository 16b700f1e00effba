CONSTANTS
  Each = {e1}
  First = {f1}
  Timeout = {t1}
  MaxEvents = 3
  Nobody = Nobody
  Expired = Expired
SPECIFICATION FairSpec
CHECK_DEADLOCK FALSE
INVARIANTS NothingLeftBehind OneEnd
PROPERTIES ImplementsBroadcast FailureEndsStream
