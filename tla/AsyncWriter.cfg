CONSTANTS
  Calls = {c1, c2, c3}
  Notifies = {n1, n2}
  Closers = {t1, t2}
  CloseTask = CloseTask
  Outages = TRUE
SPECIFICATION FairSpec
INVARIANTS IInv OneWriteAtATime
PROPERTIES NoSilentStall ImplementsChannel FramesSettle CloseDrains
CHECK_DEADLOCK FALSE
