SPECIFICATION FairSpec
CONSTANTS
  Kymas = {k1}
  Accounts = {a1}
  RuntimeIDs = {r1}
  NoKyma = NoKyma
  NoAccount = NoAccount
  NoID = NoID
  Disturbances = {}
  Attempts = 2
  EnabledRegistration = TRUE
  MaxFaults = 0
  MaxRestarts = 1
  MaxChanges = 2
CHECK_DEADLOCK FALSE
PROPERTY DeletedKymaIsDeregistered
