CONSTANTS
  Calls = {c1}
  SyncCalls = {}
  Notifies = {n1}
  Empty = Empty
  NoCall = NoCall
  MaxIdx = 1
  MaxAttempts = 2
  Timeouts = {}
  Outages = TRUE
  Workers = {w1}
  Names = {f}
  Idle = Idle
  FunctionEndings = {"value", "std_exception", "respond_error"}
SPECIFICATION RunSpec
INVARIANTS LinkIInv NotifyThenCall
PROPERTIES ImplementsRemoteCall CallsReturn
CHECK_DEADLOCK FALSE
