SPECIFICATION FairSpec
CONSTANTS
  PlanIDs = {p1}
  Values = {v1, v2}
  TTL = 2
  Calls = {c1, c2}
  None = None
  Deleted = Deleted
INVARIANTS PlanCacheTypeOK SerialConsistent ProviderInStep
PROPERTIES PatchKeepsOthers DeletedIsFinal EventuallyConsistent
