SPECIFICATION Spec
CONSTANTS
  t1 = t1
  t2 = t2
  Users = {"a", "b"}
  Transfers = {t1, t2}
  Reads = {}
  Edits = {"e1"}
  Sender <- DrainSender
  Receiver <- DrainReceiver
  Amount <- OneEach
  AccountOf <- AccountA
  Balance0 <- Start
  MaxCents = 3
  MaxFaults = 1
  MaxCrashes = 1
INVARIANTS TypeOK LedgerInvariant AccountsInvariant QuietAccountMatchesLedger LedgerBeforeSuccess AckedMeansAnswered RepeatedOnlyByFailure
PROPERTY UnexposedDebitIsExact
CHECK_DEADLOCK FALSE
