SPECIFICATION Spec
CONSTANTS
  p1 = p1
  p2 = p2
  p3 = p3
  k1 = k1
  k2 = k2
  NoTx = NoTx
  Requests = {p1, p2, p3}
  Gets = {}
  Deliveries = {}
  Keys = {k1, k2}
  KeyOf <- MCKeyOf
  SelfTransfers = {p3}
  MaxFaults = 2
  MaxCrashes = 1
INVARIANTS
  KeysInvariant
  PublishedOncePerKey
  IdempotentResponses
  PublishedIsRecorded
  IdemCacheSound
PROPERTY
  ImplementsIntake
CHECK_DEADLOCK FALSE
