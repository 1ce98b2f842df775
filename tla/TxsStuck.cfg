SPECIFICATION FairSpec
CONSTANTS
  p1 = p1
  p2 = p2
  p3 = p3
  k1 = k1
  k2 = k2
  NoTx = NoTx
  Requests = {p1, p2}
  Gets = {}
  Deliveries = {}
  Keys = {k1}
  KeyOf <- MCKeyOf
  SelfTransfers = {}
  MaxFaults = 1
  MaxCrashes = 0
INVARIANT
  AnsweredIsInitiated
CHECK_DEADLOCK FALSE
