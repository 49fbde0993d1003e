SPECIFICATION FairSpec
CONSTANTS
  Kymas = {k1, k2}
  Accounts = {a1}
  RuntimeIDs = {r1, r2}
  NoKyma = NoKyma
  NoAccount = NoAccount
  NoID = NoID
  Disturbances = {}
  Attempts = 1
  EnabledRegistration = TRUE
  MaxFaults = 1
  MaxRestarts = 0
  MaxChanges = 2
CHECK_DEADLOCK FALSE
PROPERTY EventuallyDeregistered
