\* Clients, accounts, initial deposits and the projection, with faults.
SPECIFICATION FairSpec
CONSTANTS
  c1 = c1
  c2 = c2
  e1 = e1
  d1 = d1
  d2 = d2
  a1 = a1
  w1 = w1
  w2 = w2
  None = None
  Client <- MCClient
  Email <- MCEmail
  Document <- MCDocument
  Account <- MCAccount
  Opening <- MCOpening
  Withdrawal <- OneWithdrawal
  Amount <- OneAmount
  MaxFaults = 2
INVARIANTS
  TypeOK
  OneInitialDeposit
  ProjectionFollows
PROPERTIES
  EveryAccountOpens
\* Every request may be answered and every event handled.
CHECK_DEADLOCK FALSE
