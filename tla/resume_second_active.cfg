SPECIFICATION Spec
CONSTANTS
  SubIDs = {s1, s2}
  ProviderIDs = {q1, q2}
  Subscribers = {u1}
  PlanIDs = {p1}
  None = None
  Calls = {c1}
  TrialPlans = {}
  HasProvider = TRUE
  Apps <- ResumingApps
SYMMETRY Symmetry
INVARIANTS ActiveFound
CHECK_DEADLOCK FALSE
