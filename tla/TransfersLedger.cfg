SPECIFICATION Spec
CONSTANTS
  t1 = t1
  t2 = t2
  Users = {"a", "b"}
  Transfers = {t1, t2}
  Reads = {}
  Edits = {}
  Sender <- CrossingSender
  Receiver <- CrossingReceiver
  Amount <- OneEach
  AccountOf <- AccountA
  Balance0 <- Start
  MaxCents = 3
  MaxFaults = 0
  MaxCrashes = 0
INVARIANT
  LedgerExplainsBalance
CHECK_DEADLOCK FALSE
