\* Three callers, every attempt may fail, and a fault.
SPECIFICATION FairSpec
CONSTANTS
  t1 = t1
  e1 = e1
  e2 = e2
  r1 = r1
  None = None
  Txn <- MCTxn
  Event <- MCEvent
  Request <- MCRequest
  Texts <- MCTexts
  MaxConcurrent = 2
  MaxAttempts = 2
  MaxFaults = 1
INVARIANTS
  TypeOK
  ExplainedTruly
PROPERTIES
  EveryCallEnds
\* Every event may be explained and every request answered.
CHECK_DEADLOCK FALSE
