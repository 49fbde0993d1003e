SPECIFICATION FairSpec
CONSTANTS
  Kymas = {k1}
  Accounts = {a1}
  RuntimeIDs = {r1}
  NoKyma = NoKyma
  NoAccount = NoAccount
  NoID = NoID
  Disturbances = {"lateLabel"}
  Attempts = 2
  EnabledRegistration = TRUE
  MaxFaults = 0
  MaxRestarts = 0
  MaxChanges = 2
CHECK_DEADLOCK FALSE
PROPERTY CreatedKymaIsRegistered
