--------------------------- MODULE MCDirectorClient ---------------------------
(***************************************************************************)
(* Instances of DirectorClient for TLC.                                    *)
(***************************************************************************)
EXTENDS DirectorClient, TLC
=============================================================================
