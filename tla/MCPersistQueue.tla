--------------------------- MODULE MCPersistQueue ---------------------------
(* Instances of PersistQueue for TLC; no symmetry, liveness is checked too. *)
EXTENDS PersistQueue, TLC
=============================================================================
