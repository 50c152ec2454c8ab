\* The outbox under crashes and lost acknowledgements, with one refused row.
SPECIFICATION FairSpec
CONSTANTS
  r1 = r1
  r2 = r2
  r3 = r3
  p1 = p1
  p2 = p2
  Row <- MCRow
  Loop <- MCLoop
  NoRow = NoRow
  BatchLimit = 2
  Refused <- OneRow
  MaxAttempts = 1
  MaxFaults = 1
INVARIANTS
  TypeOK
  NoPhantomMessage
  NoLostMessage
  DuplicatesExplained
  CausalOrder
PROPERTIES
  RelaySpec
  Delivery
