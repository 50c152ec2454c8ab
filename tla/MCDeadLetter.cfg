\* Events that fail are parked, retried, resolved and cleaned up.
SPECIFICATION FairSpec
CONSTANTS
  p1 = p1
  p2 = p2
  e1 = e1
  k1 = k1
  None = None
  Process <- MCProcess
  Event <- MCEvent
  Topic <- MCTopic
  MaxRetries = 2
  TopicRetries = 1
  Limit = 1
  MaxFailures = 5
  MaxCount = 4
  MaxRows = 3
  MaxFaults = 2
INVARIANTS
  TypeOK
  NothingLost
  RowsTellTheTruth
PROPERTIES
  EveryEventLeaves
\* Every event may be handled, and every row dealt with.
CHECK_DEADLOCK FALSE
