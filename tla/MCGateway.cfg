\* A breaker that trips above half of up to three calls.
SPECIFICATION FairSpec
CONSTANTS
  s1 = s1
  c1 = c1
  c2 = c2
  None = None
  Service <- MCService
  Call <- MCCall
  Threshold = 50
  MaxFires = 3
INVARIANTS
  TypeOK
  AnswersAreTrue
PROPERTIES
  Recovers
