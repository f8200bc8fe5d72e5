SPECIFICATION FairSpec
CONSTANTS
  SubscriptionIDs = {s1, s2}
  Reportable = {s1}
  Metrics = {m1}
  Quantities = {1}
  Times = {0}
  IntBits = 4
  MaxRecords = 3
  BatchSize = 2
  MaxFaults = 1
INVARIANTS ReporterTypeOK ReportsAccounted FlushedByClose
PROPERTIES EventuallyReported FlushReturns
CHECK_DEADLOCK FALSE
