---------------------------- MODULE MCLoginLimit ----------------------------
(* Two accounts tried from two addresses.                                  *)
EXTENDS LoginLimit, TLC

Symmetry == Permutations(Requests) \cup Permutations(Addresses) \cup Permutations(Accounts)
=============================================================================
