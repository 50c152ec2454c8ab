\* Two requests in a window of five ticks, executed up to two ticks late.
SPECIFICATION LimiterSpec
CONSTANTS
  p1 = p1
  p2 = p2
  Process <- MCProcess
  MaxRequests = 2
  Window = 5
  Delay = 2
  MaxTime = 10
  MaxFaults = 1
SYMMETRY MCSymmetry
INVARIANTS
  LimiterTypeOK
  RateIsBounded
\* The clock stops at its bound.
CHECK_DEADLOCK FALSE
