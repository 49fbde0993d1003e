SPECIFICATION Spec
CONSTANTS
  Kymas = {k1}
  Accounts = {a1, a2}
  RuntimeIDs = {r1, r2}
  NoKyma = NoKyma
  NoAccount = NoAccount
  NoID = NoID
  Disturbances = {"cacheLag", "accountMove", "lateLabel"}
  Attempts = 2
  EnabledRegistration = TRUE
  MaxFaults = 2
  MaxRestarts = 1
  MaxChanges = 4
SYMMETRY Interchangeable
CHECK_DEADLOCK FALSE
INVARIANT TypeOK
INVARIANT ReadyIsUsable
INVARIANT RegisteredHasID
INVARIANT StatusReadsBack
