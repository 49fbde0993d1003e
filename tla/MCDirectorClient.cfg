SPECIFICATION FairClientSpec
CONSTANTS
  Kymas = {k1}
  Accounts = {a1}
  RuntimeIDs = {r1, r2}
  NoKyma = NoKyma
  NoAccount = NoAccount
  NoID = NoID
  Attempts = 2
  Interval = 1
  Timeout = 1
  Lifetime = 3
INVARIANTS ClientTypeOK ExpiryCostsOneAttempt
PROPERTIES CallsAreOutcomes OperationEnds LockoutEnds
