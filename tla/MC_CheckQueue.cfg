SPECIFICATION FairSpec
CONSTANTS
  Master = m
  Workers = {w1, w2}
  Checks = {c1, c2, c3, c4}
  MayFail = {c1, c2}
  nBatchSize = 2
INVARIANTS QueueUnused QueueFinished VerdictExact TodoExact
PROPERTY ImplementsContract
