SPECIFICATION FairSpec
CONSTANTS
  Session = {s1, s2}
  Key = {k1}
  NoKey = NoKey
  Body = {b1}
  MaxBatch = 2
  MaxSeq = 3
INVARIANTS ChainVerifies RecordedOnce ReviewedLeavesInbox
PROPERTIES  StatusChangeLogged ImplementsRecord TransactionsEnd
