SPECIFICATION FairSpec
CONSTANTS
  Kymas = {k1}
  Accounts = {a1}
  RuntimeIDs = {r1, r2}
  NoKyma = NoKyma
  NoAccount = NoAccount
  NoID = NoID
  Disturbances = {}
  Attempts = 2
  EnabledRegistration = TRUE
  MaxFaults = 0
  MaxRestarts = 0
  MaxChanges = 2
CHECK_DEADLOCK FALSE
PROPERTY DeletedKymaLeavesNoRuntime
