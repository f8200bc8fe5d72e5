SPECIFICATION FairSpec
CONSTANTS
  k1 = k1
  k2 = k2
  k3 = k3
  Senders = {t1, t2}
  Keys = {k1, k2, k3}
  Hash <- MCHash
  HashBits = 3
  IntBits = 6
  NumWorkers = 2
  QueueDepth = 1
  MaxEvents = 2
  None = None
INVARIANTS PoolTypeOK NeverPanics HandledInOrder DrainedByClose
PROPERTIES EveryEventHandled CloseReturns
