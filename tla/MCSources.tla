----------------------------- MODULE MCSources ------------------------------
(* Repositories r1 and r2 have the same name and different owners, so that  *)
(* both are fetched into the same temporary file.                           *)
EXTENDS Sources, TLC

CONSTANTS r1, r2, z

MCZipOf == [r \in Repos |-> z]
=============================================================================
