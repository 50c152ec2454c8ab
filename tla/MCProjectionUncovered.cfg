\* Two withdrawals completed against the same funds.
SPECIFICATION Spec
CONSTANTS
  c1 = c1
  c2 = c2
  e1 = e1
  d1 = d1
  d2 = d2
  a1 = a1
  w1 = w1
  w2 = w2
  None = None
  Client <- OneClient
  Email <- MCEmail
  Document <- OneDocument
  Account <- MCAccount
  Opening <- MCOpening
  Withdrawal <- MCWithdrawal
  Amount <- MCAmount
  MaxFaults = 0
INVARIANTS
  CompletedIsCovered
\* Every request may be answered and every event handled.
CHECK_DEADLOCK FALSE
