---------------------------- MODULE MCAnalytics ----------------------------
(* Two customers, three messages; a period and a day shorter than a run.   *)
EXTENDS Analytics, TLC

Interchangeable == Permutations(Customers) \cup Permutations(Exchanges)
=============================================================================
