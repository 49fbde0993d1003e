SPECIFICATION Spec
CONSTANTS
  Kymas = {k1}
  Accounts = {a1}
  RuntimeIDs = {r1, r2}
  NoKyma = NoKyma
  NoAccount = NoAccount
  NoID = NoID
  Disturbances = {"lateLabel"}
  Attempts = 2
  EnabledRegistration = TRUE
  MaxFaults = 3
  MaxRestarts = 1
  MaxChanges = 4
SYMMETRY Interchangeable
CHECK_DEADLOCK FALSE
INVARIANT FinalizerGuardsRuntime
PROPERTIES RecordedRuntimeReleased RuntimesFollowLifecycle OnlyCrashesForget
