\* The request path and the saga under crashes, failed statements and lost answers.
SPECIFICATION FairSpec
CONSTANTS
  r1 = r1
  r2 = r2
  k1 = k1
  k2 = k2
  NoEvent = NoEvent
  Request <- MCRequest
  Key <- MCKey
  MaxCopies = 2
  Faults <- EveryFault
  MaxFaults = 2
INVARIANTS
  TypeOK
  AtMostOncePerKey
  OneOutcomePerEvent
  StatusFollowsOutcome
PROPERTIES
  AcceptedIsDecided
\* Every request may be answered, and every event handled and acknowledged.
CHECK_DEADLOCK FALSE
