------------------------------ MODULE Accounts ------------------------------
(***************************************************************************)
(* Agents' accounts: the table agents, the first account that start-up     *)
(* creates in an empty table, the login of every request (HTTP Basic, its  *)
(* failures counted by LoginLimit) and the requests of /admin/agents,      *)
(* which create, activate, deactivate and give a password.                 *)
(* A step lies between two awaits: the query of the login, the hashing in  *)
(* a thread, each query of a route.  get_db commits when the route         *)
(* returns, so the last step of a route is its commit.                     *)
(***************************************************************************)
EXTENDS LoginLimit

CONSTANTS
    Passwords,
    AdminUsername, AdminPassword

ASSUME AccountAssumption ==
    /\ IsFiniteSet(Accounts) /\ AdminUsername \in Accounts
    /\ AdminPassword \in Passwords

VARIABLES
    server,     \* "up" or "down"
    rows,       \* accounts that have a row
    admins,     \* those whose role is "admin", the others are "conseiller"
    active,     \* is_active
    password,   \* what password_hash is the hash of
    at,         \* where a request is; each serves once
    login,      \* its address, name and password
    verdict,    \* what authenticate concludes from the row it read
    task,       \* what it asks: the account, and is_active if it sets it
    loaded,     \* is_active of that account in its session
    crossed,    \* history: requests whose row another one changed after the load
    unfit       \* history: requests whose login was right at no moment so far

account == <<rows, admins, active, password>>
request == <<login, verdict, task, loaded>>
vars == <<server, account, limiter, at, request, crossed, unfit>>

Open == {"reading", "checking", "admitted", "hashing", "counting", "writing", "rehashing"}
ActiveAdmins == admins \cap active

\* The table of a service that has been used, or an empty one.
Init ==
    /\ server = "down"
    /\ rows \in SUBSET Accounts /\ admins \in SUBSET rows /\ active \in SUBSET rows
    /\ rows = {} \/ ActiveAdmins # {}
    /\ password = [a \in Accounts |-> AdminPassword]
    /\ LimitInit
    /\ at = [r \in Requests |-> "new"]
    /\ login \in [Requests -> {[ip |-> i, user |-> AdminUsername, guess |-> AdminPassword] : i \in Addresses}]
    /\ verdict = [r \in Requests |-> "none"]
    /\ task = [r \in Requests |-> [target |-> AdminUsername, active |-> "kept"]]
    /\ loaded = [r \in Requests |-> "kept"]
    /\ crossed = {} /\ unfit = {}

---------------------------------------------------------------------------
(* Start and stop                                                          *)

\* bootstrap_admin_if_needed within lifespan: accounts exist, or the first
\* one is created, or the database fails and the service starts all the same.
\* Without ADMIN_PASSWORD and without accounts it does not start.
Start ==
    /\ server = "down" /\ server' = "up"
    /\ \/ UNCHANGED account
       \/ /\ rows = {}
          /\ rows' = {AdminUsername} /\ admins' = {AdminUsername} /\ active' = {AdminUsername}
          /\ password' = [password EXCEPT ![AdminUsername] = AdminPassword]
    /\ UNCHANGED <<limiter, at, request, crossed>>

\* The counters of failures live in the process.
Stop ==
    /\ server = "up" /\ server' = "down"
    /\ at' = [r \in Requests |-> IF at[r] \in Open THEN "done" ELSE at[r]]
    /\ LimiterLost
    /\ UNCHANGED <<account, request, crossed>>

\* Time passes in the window of the counters.
Expire ==
    /\ FailureExpires
    /\ UNCHANGED <<server, account, at, request, crossed>>

---------------------------------------------------------------------------
(* Login                                                                   *)

\* require_agent: within the limit (else 429), and authenticate queries.
Arrive(r, ip, user, guess) ==
    /\ server = "up" /\ at[r] = "new" /\ LoginStarts(r, ip, user)
    /\ at' = [at EXCEPT ![r] = "reading"]
    /\ login' = [login EXCEPT ![r] = [ip |-> ip, user |-> user, guess |-> guess]]
    /\ UNCHANGED <<server, account, verdict, task, loaded, crossed>>

\* Variant: a deactivated account still logs in.
Verdict_Inactive(user, guess) ==
    IF user \in rows /\ password[user] = guess
    THEN IF user \in admins THEN "admin" ELSE "conseiller"
    ELSE "refused"

\* What authenticate returns for a row: no row, a wrong password and a
\* deactivated account are one and the same.
Verdict(user, guess) ==
    IF user \in active /\ password[user] = guess
    THEN IF user \in admins THEN "admin" ELSE "conseiller"
    ELSE "refused"

\* The row is read in a session of its own; the password is then checked in a
\* thread against this copy, which nothing refreshes.
ReadAccount(r) ==
    /\ at[r] = "reading"
    /\ at' = [at EXCEPT ![r] = "checking"]
    /\ verdict' = [verdict EXCEPT ![r] = Verdict(login[r].user, login[r].guess)]
    /\ UNCHANGED <<server, account, limiter, login, task, loaded, crossed>>

\* 401: the failure is counted.
Refuse(r) ==
    /\ at[r] = "checking" /\ verdict[r] = "refused"
    /\ at' = [at EXCEPT ![r] = "done"]
    /\ login_failed(r)
    /\ UNCHANGED <<server, account, request, crossed>>

\* require_admin: 403 for an ordinary agent.
Admit(r) ==
    /\ at[r] = "checking" /\ verdict[r] # "refused"
    /\ at' = [at EXCEPT ![r] = IF verdict[r] = "admin" THEN "admitted" ELSE "done"]
    /\ LoginEnds(r)
    /\ UNCHANGED <<server, account, request, crossed>>

---------------------------------------------------------------------------
(* The routes                                                              *)

\* The request loads account a; what it waits for next is place.
Loads(r, a, value, place) ==
    /\ at[r] = "admitted"
    /\ at' = [at EXCEPT ![r] = place]
    /\ task' = [task EXCEPT ![r] = [target |-> a, active |-> value]]
    /\ loaded' = [loaded EXCEPT ![r] = IF a \in active THEN "on" ELSE "off"]
    /\ UNCHANGED <<server, account, limiter, login, verdict, crossed>>

\* create_agent: the name is free (else 409), the password is hashed.
CreateLoad(r, a) == a \notin rows /\ Loads(r, a, "kept", "hashing")

\* The insertion; the unique key refuses a name taken meanwhile (500).
CreateCommit(r, admin, p) ==
    /\ at[r] = "hashing" /\ task[r].target \notin rows
    /\ LET a == task[r].target IN
       /\ rows' = rows \cup {a} /\ active' = active \cup {a}
       /\ admins' = IF admin THEN admins \cup {a} ELSE admins
       /\ password' = [password EXCEPT ![a] = p]
    /\ at' = [at EXCEPT ![r] = "done"]
    /\ UNCHANGED <<server, limiter, request, crossed>>

\* Variant: the guard of the last admin is forgotten.
SetActiveLoad_Unguarded(r, a, value) == a \in rows /\ Loads(r, a, value, "writing")

\* Variant: an unknown account is not noticed (no 404).
SetActiveLoad_Unknown(r, a, value) ==
    Loads(r, a, value, IF value = "off" /\ a \in ActiveAdmins THEN "counting" ELSE "writing")

\* _set_active: only the deactivation of an active admin counts the others.
SetActiveLoad(r, a, value) ==
    /\ a \in rows
    /\ Loads(r, a, value, IF value = "off" /\ a \in ActiveAdmins THEN "counting" ELSE "writing")

\* 409 for the last active admin.
CountAdmins(r) ==
    /\ at[r] = "counting"
    /\ at' = [at EXCEPT ![r] = IF Cardinality(ActiveAdmins) <= 1 THEN "done" ELSE "writing"]
    /\ UNCHANGED <<server, account, limiter, request, crossed>>

\* The change of an account by r is not seen by those that loaded theirs.
Crosses(r) ==
    crossed' = IF active' = active THEN crossed
               ELSE crossed \cup {q \in Requests \ {r} : at[q] \in {"counting", "writing"}}

\* Variant: the value is always the one of a deactivation.
SetActiveCommit_OnlyOff(r) ==
    /\ at[r] = "writing"
    /\ active' = IF task[r].active = loaded[r] THEN active ELSE active \ {task[r].target}
    /\ Crosses(r)
    /\ at' = [at EXCEPT ![r] = "done"]
    /\ UNCHANGED <<server, rows, admins, password, limiter, request>>

\* The UPDATE and its commit. SQLAlchemy sends none when the value asked is
\* the one that was loaded.
SetActiveCommit(r) ==
    /\ at[r] = "writing"
    /\ active' = IF task[r].active = loaded[r] THEN active
                 ELSE IF task[r].active = "on" THEN active \cup {task[r].target}
                 ELSE active \ {task[r].target}
    /\ Crosses(r)
    /\ at' = [at EXCEPT ![r] = "done"]
    /\ UNCHANGED <<server, rows, admins, password, limiter, request>>

\* set_agent_password: the account exists (else 404), the hashing.
SetPasswordLoad(r, a) == a \in rows /\ Loads(r, a, "kept", "rehashing")

SetPasswordCommit(r, p) ==
    /\ at[r] = "rehashing"
    /\ password' = [password EXCEPT ![task[r].target] = p]
    /\ at' = [at EXCEPT ![r] = "done"]
    /\ UNCHANGED <<server, rows, admins, active, limiter, request, crossed>>

\* An exception at any await, a refusal of the route (404, 409, 422), the
\* blocked login (429): nothing is written.
Ends(r) ==
    /\ at[r] \in Open \/ (server = "up" /\ at[r] = "new")
    /\ at' = [at EXCEPT ![r] = "done"]
    /\ LoginEnds(r)
    /\ UNCHANGED <<server, account, request, crossed>>

---------------------------------------------------------------------------
Step ==
    \/ Start \/ Stop \/ Expire
    \/ \E r \in Requests :
         \/ \E ip \in Addresses, user \in Accounts, guess \in Passwords : Arrive(r, ip, user, guess)
         \/ ReadAccount(r) \/ Refuse(r) \/ Admit(r)
         \/ \E a \in Accounts :
              \/ CreateLoad(r, a) \/ SetPasswordLoad(r, a)
              \/ \E value \in {"on", "off"} : SetActiveLoad(r, a, value)
         \/ \E p \in Passwords :
              \/ SetPasswordCommit(r, p)
              \/ \E admin \in BOOLEAN : CreateCommit(r, admin, p)
         \/ CountAdmins(r) \/ SetActiveCommit(r)
         \/ Ends(r)

\* A login is right when an active admin has this password.
Right(r) == LET who == login[r] IN
    who.user \in ActiveAdmins /\ password[who.user] = who.guess

\* A login that was wrong at its arrival and after every step since.
Remember ==
    unfit' = {r \in Requests : at'[r] # "new" /\ (r \in unfit \/ at[r] = "new") /\ ~Right(r)'}

Next == Step /\ Remember
Spec == Init /\ [][Next]_vars

---------------------------------------------------------------------------
(* Properties                                                              *)

TypeOK ==
    /\ server \in {"up", "down"}
    /\ rows \subseteq Accounts /\ admins \subseteq rows /\ active \subseteq rows
    /\ password \in [Accounts -> Passwords]
    /\ LimitTypeOK
    /\ at \in [Requests -> {"new", "done"} \cup Open]
    /\ login \in [Requests -> [ip : Addresses, user : Accounts, guess : Passwords]]
    /\ verdict \in [Requests -> {"none", "admin", "conseiller", "refused"}]
    /\ task \in [Requests -> [target : Accounts, active : {"on", "off", "kept"}]]
    /\ loaded \in [Requests -> {"on", "off", "kept"}]
    /\ crossed \subseteq Requests /\ unfit \subseteq Requests

\* "on ne peut pas desactiver ... le dernier admin actif": no active admin is
\* left only by a deactivation during which, between its load and its commit,
\* another request changed an account. Two that overlap so both count two.
LastAdminStays ==
    \/ rows = {} \/ ActiveAdmins # {}
    \/ \E r \in crossed : at[r] = "done" /\ task[r].active = "off" /\ task[r].target \in admins

\* A deactivation or an activation that was acknowledged took effect, unless
\* another request changed an account between its load and its commit: it
\* may then have sent no UPDATE at all.
AcknowledgedTakesEffect ==
    [][\A r \in Requests \ crossed : SetActiveCommit(r)
         => (task[r].target \in active' <=> task[r].active = "on")]_vars

\* "Le compte ne peut plus se connecter": a request is admitted only if its
\* login was an active admin's at some moment since it arrived, although the
\* password is checked against a copy of the row.
AdmittedWasRight ==
    \A r \in unfit :
        \/ at[r] \in {"new", "reading", "done"}
        \/ at[r] = "checking" /\ verdict[r] # "admin"
=============================================================================
