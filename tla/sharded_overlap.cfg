SPECIFICATION Spec
CONSTANTS
  SubIDs = {s1, s2}
  ProviderIDs = {q1}
  Subscribers = {u1}
  PlanIDs = {p1}
  None = None
  Calls = {c1, c2}
  Inputs <- MCInputs
  Serial = FALSE
  Reactivates = TRUE
SYMMETRY Symmetry
INVARIANTS SettledAsLocked
