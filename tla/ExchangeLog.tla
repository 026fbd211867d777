----------------------------- MODULE ExchangeLog -----------------------------
(***************************************************************************)
(* What the background writes promise: the exchanges of a session are      *)
(* settled one after the other, in the order they were handed over.  An    *)
(* exchange is settled once, stored or dropped; those not settled when the *)
(* server stops are lost.                                                  *)
(***************************************************************************)
EXTENDS FiniteSets

CONSTANTS Exchanges, Sessions

VARIABLES
    before,     \* the exchanges of its session handed over before an exchange
    fate        \* what became of it

Fates == {"none", "owed", "stored", "dropped", "lost"}

Init ==
    /\ before = [e \in Exchanges |-> {}]
    /\ fate = [e \in Exchanges |-> "none"]

\* Taken are the exchanges of the session so far.
HandOver(e, taken) ==
    /\ fate[e] = "none"
    /\ e \notin taken
    /\ before' = [before EXCEPT ![e] = taken]
    /\ fate' = [fate EXCEPT ![e] = "owed"]

Settle(e, outcome) ==
    /\ fate[e] = "owed"
    /\ \A d \in before[e] : fate[d] # "owed"
    /\ fate' = [fate EXCEPT ![e] = outcome]
    /\ UNCHANGED before

Stop ==
    /\ fate' = [e \in Exchanges |-> IF fate[e] = "owed" THEN "lost" ELSE fate[e]]
    /\ UNCHANGED before

Next ==
    \/ \E e \in Exchanges : \E taken \in SUBSET {d \in Exchanges : fate[d] # "none"} :
          HandOver(e, taken)
    \/ \E e \in Exchanges : \E outcome \in {"stored", "dropped"} : Settle(e, outcome)
    \/ Stop

Spec == Init /\ [][Next]_<<before, fate>>
=============================================================================
