SPECIFICATION LimitsSpec
CONSTANTS
  api_calls = api_calls
  seats = seats
  storage = storage
  SubscriptionIDs = {s1}
  Metrics = {api_calls, seats, storage}
  Quantities <- MCQuantities
  Times = {0, 1, 2}
  IntBits = 4
  MaxRecords = 3
  Callers = {c1, c2}
  Requests <- MCRequests
  Limits <- MCLimits
  FirstPeriod = 1
  Renewals <- MCRenewals
  None = None
SYMMETRY CallerSymmetry
INVARIANTS LimitsTypeOK LimitKept OvershootBounded
CHECK_DEADLOCK FALSE
