\* The ledger under redelivery, failed statements and crashes.
SPECIFICATION FairSpec
CONSTANTS
  a = a
  b = b
  t1 = t1
  t2 = t2
  p1 = p1
  p2 = p2
  Account <- MCAccount
  Txn <- MCTxn
  Order <- MCOrder
  Opening <- MCOpening
  Inexact <- MCInexact
  NoPartition = NoPartition
  Partition <- TwoPartitions
  MaxCopies = 2
  MaxFaults = 1
INVARIANTS
  TypeOK
  UpdatesChain
  PostedOncePerEvent
  Conserved
PROPERTIES
  SettlesAtomically
  SettledOrStuck
\* Every event may be published, handled and acknowledged.
CHECK_DEADLOCK FALSE
