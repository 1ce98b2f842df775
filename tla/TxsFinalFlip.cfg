SPECIFICATION FairSpec
CONSTANTS
  p1 = p1
  p2 = p2
  p3 = p3
  k1 = k1
  k2 = k2
  NoTx = NoTx
  Requests = {p1}
  Gets = {}
  Deliveries = {"d1", "d2"}
  Keys = {k1}
  KeyOf <- MCKeyOf
  SelfTransfers = {}
  MaxFaults = 0
  MaxCrashes = 0
PROPERTY
  FinalStatusStable
CHECK_DEADLOCK FALSE
