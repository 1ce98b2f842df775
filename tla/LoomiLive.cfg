SPECIFICATION FairSpec
CONSTANTS
  p1 = p1
  p2 = p2
  k1 = k1
  k2 = k2
  NoTx = NoTx
  Requests = {p1}
  Deliveries = {"d1", "d2"}
  Keys = {k1}
  KeyOf <- SameKey
  Users = {"a", "b"}
  Sender <- FromA
  Receiver <- ToB
  Amount <- OneEach
  Balance0 <- OneInA
  MaxCents = 2
  MaxFaults = 1
  MaxCrashes = 1
  MaxLosses = 1
INVARIANT TransfersStaySound
PROPERTY PublishedEndsSettled
CHECK_DEADLOCK FALSE
