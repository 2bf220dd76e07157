--------------------------- MODULE MCClientSession ---------------------------
(* Model-checking instances of ClientSession.                              *)
EXTENDS ClientSession

RawOps == {"page", "backup", "restore"}
=============================================================================
