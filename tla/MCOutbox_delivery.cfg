SPECIFICATION FairSpec
CONSTANTS
  e1 = e1
  e2 = e2
  d1 = d1
  k1 = k1
  k2 = k2
  Events = {e1, e2, d1}
  Keys = {k1, k2}
  KeyOf <- MCKeyOf
  Direct = {d1}
  Consumers = {c1, c2}
  Limit = 1
CHECK_DEADLOCK FALSE
INVARIANTS
  TypeOK
  FactHasEvent
  ExclusiveUntilLapse
PROPERTIES
  ImplementsChannel
  EverythingIsDelivered
