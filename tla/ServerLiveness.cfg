CONSTANTS
  Workers = {w1}
  User = User
  Clients = {s1}
  NoSession = NoSession
  MaxMessages = 3
SPECIFICATION FairSpec
PROPERTIES ClosedSessionsEnd StopReturns LastStopStops
CHECK_DEADLOCK FALSE
