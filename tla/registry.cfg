SPECIFICATION FairSpec
CONSTANTS
  r1 = r1
  r2 = r2
  r3 = r3
  r4 = r4
  Registrars = {r1, r2, r3, r4}
  TypeOf <- MCTypeOf
  Dispatchers = {d1}
  None = None
INVARIANTS RegistryTypeOK DispatchInOrder
PROPERTIES ImplementsList EveryRegistrationReturns
