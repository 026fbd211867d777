----------------------------- MODULE MCDialogue -----------------------------
(* Instances of Dialogue for TLC. *)
EXTENDS Dialogue, TLC


\* Handlers are interchangeable.
Symmetry == Permutations(Handlers)
=============================================================================
