SPECIFICATION Spec
CONSTANTS
  p1 = p1
  p2 = p2
  k1 = k1
  k2 = k2
  NoTx = NoTx
  Requests = {p1, p2}
  Deliveries = {"d1", "d2"}
  Keys = {k1, k2}
  KeyOf <- OwnKey
  Users = {"a", "b", "c"}
  Sender <- FromA
  Receiver <- ToBAndC
  Amount <- OneEach
  Balance0 <- OneInAFullB
  MaxCents = 2
  MaxFaults = 0
  MaxCrashes = 0
  MaxLosses = 0
INVARIANTS StatusIsTrue RefusedForAReason IntakeStaysSound
PROPERTIES FinalStatusFlipsOnlyBroken ImplementsOutcomes
CHECK_DEADLOCK FALSE
