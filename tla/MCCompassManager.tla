--------------------------- MODULE MCCompassManager ---------------------------
(***************************************************************************)
(* Instances of CompassManager for TLC.                                    *)
(***************************************************************************)
EXTENDS CompassManager, TLC

\* Runtime IDs and accounts are interchangeable.  Not for liveness.
Interchangeable == Permutations(RuntimeIDs) \cup Permutations(Accounts)
=============================================================================
