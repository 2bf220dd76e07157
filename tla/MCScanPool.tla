----------------------------- MODULE MCScanPool -----------------------------
(* Model-checking instances of ScanPool.                                   *)
EXTENDS ScanPool
=============================================================================
