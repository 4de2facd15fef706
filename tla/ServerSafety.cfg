CONSTANTS
  Workers = {w1, w2}
  User = User
  Clients = {s1, s2}
  NoSession = NoSession
  MaxMessages = 1
SPECIFICATION Spec
INVARIANTS IInv LeavingIInv OpenIsListed OpenReads ClosedIsLeaving
CHECK_DEADLOCK FALSE
