CONSTANTS
  Workers = {w1}
  Messages = {m1, m2}
  First = m1
  Second = m2
  Names = {f}
  Idle = Idle
SPECIFICATION Spec
INVARIANTS NoDanglingResponse
CHECK_DEADLOCK FALSE
