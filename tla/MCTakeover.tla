----------------------------- MODULE MCTakeover -----------------------------
(* Takeover on small instances: messages that differ by name only are      *)
(* identified, and requests likewise.                                      *)
EXTENDS Takeover, TLC

Symmetry == Permutations(Messages) \cup Permutations(Requests)
=============================================================================
