CONSTANTS
  Calls = {c1, c2}
  Notifies = {}
  Closers = {t1}
  CloseTask = CloseTask
  Outages = FALSE
SPECIFICATION Spec
INVARIANTS GracefulClose
CHECK_DEADLOCK FALSE
