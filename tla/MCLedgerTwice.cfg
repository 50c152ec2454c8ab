\* One deposit published twice is credited twice.
SPECIFICATION Spec
CONSTANTS
  a = a
  b = b
  t1 = t1
  t2 = t2
  p1 = p1
  p2 = p2
  Account <- MCAccount
  Txn <- OneTxn
  Order <- OneOrder
  Opening <- MCOpening
  Inexact <- MCInexact
  NoPartition = NoPartition
  Partition <- OnePartition
  MaxCopies = 2
  MaxFaults = 0
INVARIANTS
  PostedOncePerTransaction
\* Every event may be published, handled and acknowledged.
CHECK_DEADLOCK FALSE
