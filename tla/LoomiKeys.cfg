SPECIFICATION Spec
CONSTANTS
  p1 = p1
  p2 = p2
  k1 = k1
  k2 = k2
  NoTx = NoTx
  Requests = {p1, p2}
  Deliveries = {"d1"}
  Keys = {k1}
  KeyOf <- SameKey
  Users = {"a", "b"}
  Sender <- FromA
  Receiver <- ToB
  Amount <- OneEach
  Balance0 <- OneInA
  MaxCents = 2
  MaxFaults = 1
  MaxCrashes = 0
  MaxLosses = 0
INVARIANTS KeyIsDebitedOnce SuccessIsInLedger
PROPERTY ImplementsOutcomes
CHECK_DEADLOCK FALSE
