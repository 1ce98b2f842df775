SPECIFICATION Spec
CONSTANTS
  p1 = p1
  p2 = p2
  p3 = p3
  k1 = k1
  k2 = k2
  NoTx = NoTx
  Requests = {p1}
  Gets = {"g1"}
  Deliveries = {"d1", "d2"}
  Keys = {k1}
  KeyOf <- MCKeyOf
  SelfTransfers = {}
  MaxFaults = 1
  MaxCrashes = 1
INVARIANTS
  TypeOK
  StatusInvariant
  CacheNotAhead
  FinalStatusLogged
  LogTrue
  AckedMeansFinal
PROPERTY
  NoReturnToPending
CHECK_DEADLOCK FALSE
