CONSTANTS
  Workers = {w1, w2}
  Messages = {m1, m2}
  First = m1
  Second = m2
  Names = {f}
  Idle = Idle
SPECIFICATION RunSpec
INVARIANTS IInv OwnResponse WriteBeforeClose ClosesAreAsked ResponseIInv

PROPERTIES CallsAnswered ExitHappens StopHappens
CHECK_DEADLOCK FALSE
