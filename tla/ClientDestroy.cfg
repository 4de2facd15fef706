CONSTANTS
  Calls = {c1}
  SyncCalls = {}
  Notifies = {n1}
  Empty = Empty
  NoCall = NoCall
  MaxIdx = 1
  MaxAttempts = 2
  Timeouts = {}
  Outages = FALSE
SPECIFICATION Spec
INVARIANTS GracefulDestroy
CHECK_DEADLOCK FALSE
