SPECIFICATION FairSpec
CONSTANTS
  SubIDs = {s1, s2}
  ProviderIDs = {q1, q2}
  Subscribers = {u1}
  PlanIDs = {p1}
  None = None
  Calls = {c1, c2}
  Inputs <- MCInputs
  Serial = TRUE
  Reactivates = FALSE
INVARIANTS ShardedTypeOK IndexesSettled
PROPERTIES ImplementsLocked EveryCallReturns
