SPECIFICATION Spec
CONSTANTS
  Kymas = {k1, k2}
  Accounts = {a1}
  RuntimeIDs = {r1, r2}
  NoKyma = NoKyma
  NoAccount = NoAccount
  NoID = NoID
  Disturbances = {"recreate"}
  Attempts = 2
  EnabledRegistration = TRUE
  MaxFaults = 1
  MaxRestarts = 0
  MaxChanges = 3
SYMMETRY Interchangeable
CHECK_DEADLOCK FALSE
INVARIANT NoLostDeletion
INVARIANT RuntimeBelongsToKyma
PROPERTY AgentsAreNotCutOff
