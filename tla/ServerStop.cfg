CONSTANTS
  Workers = {w1, w2}
  User = User
  Clients = {s1}
  NoSession = NoSession
  MaxMessages = 1
SPECIFICATION FairSpec
PROPERTIES StopStopsAccepting
CHECK_DEADLOCK FALSE
