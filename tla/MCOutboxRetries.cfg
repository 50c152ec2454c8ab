\* One row whose publication keeps failing: a first attempt and five retries.
SPECIFICATION Spec
CONSTANTS
  r1 = r1
  r2 = r2
  r3 = r3
  p1 = p1
  p2 = p2
  Row <- OneRow
  Loop <- OneLoop
  NoRow = NoRow
  BatchLimit = 2
  Refused <- Nothing
  MaxAttempts = 6
  MaxFaults = 0
INVARIANTS
  RetriesEnd
