SPECIFICATION Spec
CONSTANTS
  Kymas = {k1}
  Accounts = {a1}
  RuntimeIDs = {r1, r2}
  NoKyma = NoKyma
  NoAccount = NoAccount
  NoID = NoID
  Disturbances = {}
  Attempts = 1
  EnabledRegistration = TRUE
  MaxFaults = 1
  MaxRestarts = 0
  MaxChanges = 1
SYMMETRY Interchangeable
CHECK_DEADLOCK FALSE
INVARIANT RegistrationIsIdempotent
