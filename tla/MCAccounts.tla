----------------------------- MODULE MCAccounts -----------------------------
(* Two accounts, three requests from two addresses.                        *)
EXTENDS Accounts, TLC

Symmetry == Permutations(Requests) \cup Permutations(Addresses)
=============================================================================
