SPECIFICATION Spec
CONSTANTS
  SubIDs = {1, 2, 3}
  ProviderIDs = {q1}
  Subscribers = {u1, u2}
  PlanIDs = {p1}
  None = None
  u1 = u1
  Inputs <- MCInputs
  Shards <- MCShards
  Filters <- MCFilters
  Limits = {0, 1}
  DefaultLimit = 2
INVARIANTS PaginationTypeOK ProviderIndexExact ActiveIndexSound NothingSkipped NothingRepeated PagesAreNew
