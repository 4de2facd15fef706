CONSTANTS
  Calls = {c1, c2}
  SyncCalls = {}
  Notifies = {n1}
  Empty = Empty
  NoCall = NoCall
  MaxIdx = 2
  MaxAttempts = 2
  Timeouts = {}
  Outages = TRUE
SPECIFICATION Spec
SYMMETRY Symmetry
INVARIANTS IInv CallIInv RightAnswer OnePlace AnswerFindsCall PendingHasFlush CrashOnlyUnreachable SameKindInOrder
CHECK_DEADLOCK FALSE
PROPERTIES ImplementsRemoteCall
