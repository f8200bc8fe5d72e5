SPECIFICATION Spec
CONSTANTS
  SubIDs = {s1}
  ProviderIDs = {q1}
  Subscribers = {u1}
  PlanIDs = {p1}
  None = None
  Calls = {c1, c2}
  TrialPlans = {}
  HasProvider = TRUE
  Apps <- CancelingApps
SYMMETRY Symmetry
PROPERTIES CanceledIsFinal
CHECK_DEADLOCK FALSE
