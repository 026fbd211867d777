----------------------------- MODULE LoginLimit -----------------------------
(***************************************************************************)
(* The limit of failed logins: two counters per login, of its address and  *)
(* of its name, each a moving window in the memory of the process.  The    *)
(* limit is tested before the password is looked at and a failure is       *)
(* counted once it is refused; the awaits of authenticate lie in between.  *)
(*                                                                         *)
(* A failure leaves a window one window after it was counted, so failures  *)
(* leave in the order they came, one by one, and time needs no clock.  A   *)
(* hit on a full window stores nothing: recent remembers those tries too.  *)
(***************************************************************************)
EXTENDS Naturals, FiniteSets, Sequences

CONSTANTS
    Accounts,        \* user names, with a row or not
    Addresses,
    Requests,        \* logins that may be under way at once
    LoginFailures    \* RATE_LIMIT_LOGIN_FAILURES, within one window

ASSUME RequestAssumption == IsFiniteSet(Requests)
ASSUME KeyAssumption == Accounts \cap Addresses = {}
ASSUME LimitAssumption == LoginFailures \in Nat \ {0}

VARIABLES
    recent,     \* the wrong tries of the last window, oldest first
    flying,     \* the keys of a login between the test and its outcome
    parallel    \* history: most logins of a key under way at once

limiter == <<recent, flying, parallel>>

Keys == Addresses \cup Accounts
Try == [by : SUBSET Keys, stored : SUBSET Keys]

\* The wrong tries of a key within the window, those its counter holds, and
\* its logins that the limit let through and that are not decided yet.
Tries(k) == {i \in DOMAIN recent : k \in recent[i].by}
Stored(k) == {i \in DOMAIN recent : k \in recent[i].stored}
InFlight(k) == {r \in Requests : k \in flying[r]}

Full(k) == Cardinality(Stored(k)) >= LoginFailures

LimitInit ==
    /\ recent = <<>>
    /\ flying = [r \in Requests |-> {}]
    /\ parallel = [k \in Keys |-> 1]

\* Variant: the limit is tested with ">".
login_blocked_Late(ip, user) == \E k \in {ip, user} : Cardinality(Stored(k)) > LoginFailures

\* The limit of either counter; the test counts nothing.
login_blocked(ip, user) == \E k \in {ip, user} : Full(k)

\* require_agent lets a login through to authenticate.
LoginStarts(r, ip, user) ==
    /\ flying[r] = {} /\ ~login_blocked(ip, user)
    /\ flying' = [flying EXCEPT ![r] = {ip, user}]
    /\ parallel' = [k \in Keys |->
         LET now == Cardinality(InFlight(k) \cup {r}) IN
         IF k \in {ip, user} /\ now > parallel[k] THEN now ELSE parallel[k]]
    /\ UNCHANGED recent

\* Variant: a hit is stored in a full window too.
login_failed_Always(r) ==
    /\ flying[r] # {}
    /\ recent' = Append(recent, [by |-> flying[r], stored |-> flying[r]])
    /\ flying' = [flying EXCEPT ![r] = {}]
    /\ UNCHANGED parallel

\* The password is refused: a hit on each of the two counters.
login_failed(r) ==
    /\ flying[r] # {}
    /\ recent' = Append(recent, [by |-> flying[r], stored |-> {k \in flying[r] : ~Full(k)}])
    /\ flying' = [flying EXCEPT ![r] = {}]
    /\ UNCHANGED parallel

\* The login is right, or an exception ends it: nothing is counted.
LoginEnds(r) ==
    /\ flying' = [flying EXCEPT ![r] = {}]
    /\ UNCHANGED <<recent, parallel>>

\* The oldest wrong try is one window old.
FailureExpires ==
    /\ recent # <<>>
    /\ recent' = Tail(recent)
    /\ UNCHANGED <<flying, parallel>>

\* The process ends, and its memory with it.
LimiterLost ==
    /\ recent' = <<>>
    /\ flying' = [r \in Requests |-> {}]
    /\ parallel' = [k \in Keys |-> 1]

LimitNext ==
    \/ \E r \in Requests :
         \/ \E ip \in Addresses, user \in Accounts : LoginStarts(r, ip, user)
         \/ login_failed(r) \/ LoginEnds(r)
    \/ FailureExpires \/ LimiterLost

LimitSpec == LimitInit /\ [][LimitNext]_limiter

---------------------------------------------------------------------------
(* Properties                                                              *)

\* Types; a counter never holds more than the limit, however many tries of
\* its key were already under way when it filled up.
LimitTypeOK ==
    /\ recent \in Seq(Try)
    /\ flying \in [Requests -> SUBSET Keys]
    /\ parallel \in [Keys -> Nat \ {0}]
    /\ \A k \in Keys : Cardinality(Stored(k)) <= LoginFailures

\* "apres RATE_LIMIT_LOGIN_FAILURES echecs ... toute tentative est refusee
\* ... jusqu'a la fin de la fenetre": the wrong passwords that an address or
\* a name tries within one window.  The window frees one failure at a time,
\* and each one lets all the logins through that arrive before the next
\* failure is counted: with P of them at once, no more than P for each of the
\* limit's failures and P - 1 that were under way when the window filled up.
GuessesBounded ==
    \A k \in Keys : Cardinality(Tries(k)) < (LoginFailures + 1) * parallel[k]
=============================================================================
