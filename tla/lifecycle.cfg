SPECIFICATION Spec
CONSTANTS
  SubIDs = {s1, s2}
  ProviderIDs = {q1, q2}
  Subscribers = {u1}
  PlanIDs = {p1, p2}
  None = None
  Calls = {c1, c2}
  TrialPlans = {p2}
  HasProvider = TRUE
  Apps <- AllApps
SYMMETRY Symmetry
INVARIANTS LifecycleTypeOK CanceledAtProvider AtMostOneActive QuiescentAgreement
PROPERTIES ObeysStoreContract OrphanedOnlyBySubscribe
CHECK_DEADLOCK FALSE
