SPECIFICATION FairSpec
CONSTANTS
  t1 = t1
  t2 = t2
  Users = {"a", "b"}
  Transfers = {t1, t2}
  Reads = {}
  Edits = {}
  Sender <- DrainSender
  Receiver <- DrainReceiver
  Amount <- OneEach
  AccountOf <- AccountA
  Balance0 <- Start
  MaxCents = 3
  MaxFaults = 0
  MaxCrashes = 0
PROPERTY
  DebitIsCovered
CHECK_DEADLOCK FALSE
