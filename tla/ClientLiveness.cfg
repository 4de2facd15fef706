CONSTANTS
  Calls = {c1}
  SyncCalls = {c1}
  Notifies = {n1, n2}
  Empty = Empty
  NoCall = NoCall
  MaxIdx = 1
  MaxAttempts = 2
  Timeouts = {TRUE, FALSE}
  Outages = TRUE
SPECIFICATION FairSpec
INVARIANTS AnswerFindsCall NoLeak
PROPERTIES CallsGetOut AnswersArrive
CHECK_DEADLOCK FALSE
