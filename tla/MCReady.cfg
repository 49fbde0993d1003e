SPECIFICATION FairConfigSpec
CONSTANTS
  Kymas = {k1}
  Accounts = {a1}
  RuntimeIDs = {r1, r2, r3, d1}
  DryIDs = {d1}
  NoKyma = NoKyma
  NoAccount = NoAccount
  NoID = NoID
  Disturbances = {"cacheLag"}
  Attempts = 2
  EnabledRegistration = TRUE
  MaxFaults = 1
  MaxRestarts = 1
  MaxChanges = 2
CHECK_DEADLOCK FALSE
INVARIANTS NoLostRegistration ConfigTypeOK AgentsHaveIssuedIDs DryLabelMarksDryIDs
PROPERTY EventuallyReadyOnceEnabled
