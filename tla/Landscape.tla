------------------------------ MODULE Landscape ------------------------------
(***************************************************************************)
(* The names that the control plane, the Compass Director and the          *)
(* reconciler of compass-manager share.  A name stands for a string of the *)
(* program; the empty string, or an absent label, is one of the No...      *)
(* values below.                                                           *)
(***************************************************************************)

CONSTANTS
  Kymas,       \* names of Kyma custom resources, the keys of the work queue
  Accounts,    \* global account IDs (label kyma-project.io/global-account-id)
  RuntimeIDs,  \* IDs the Director can give to runtimes; bounds the model
  NoKyma,      \* no Kyma: the worker is idle, a runtime ID was never issued
  NoAccount,   \* the label is absent, or present and empty
  NoID         \* the label kyma-project.io/compass-runtime-id is empty

ASSUME LandscapeAssumption ==
  /\ NoKyma    \notin Kymas
  /\ NoAccount \notin Accounts
  /\ NoID      \notin RuntimeIDs

AccountLabel == Accounts \cup {NoAccount}
RuntimeLabel == RuntimeIDs \cup {NoID}

(***************************************************************************)
(* How a call over the network can end.  "ok": it took effect and the      *)
(* caller knows.  "lost": it took effect and the caller got an error (a    *)
(* timeout, an unusable answer).  "failed": no effect, and an error.       *)
(***************************************************************************)
Outcomes == {"ok", "lost", "failed"}

TookEffect(o) == o # "failed"
=============================================================================
