SPECIFICATION Spec
CONSTANTS
  Kymas = {k1}
  Accounts = {a1}
  RuntimeIDs = {r1}
  NoKyma = NoKyma
  NoAccount = NoAccount
  NoID = NoID
  Disturbances = {}
  Attempts = 2
  EnabledRegistration = TRUE
  MaxFaults = 2
  MaxRestarts = 0
  MaxChanges = 1
SYMMETRY Interchangeable
CHECK_DEADLOCK FALSE
INVARIANT GaugeShowsFailed
