--------------------------- MODULE AccountsProofs ---------------------------
(***************************************************************************)
(* What the accounts keep for any number of accounts, addresses, passwords *)
(* and requests, and for any limit of failed logins.                       *)
(*                                                                         *)
(* The argument for the limit: a failure that is stored lets at most the   *)
(* logins in that arrive before the next one is stored, so from any place  *)
(* of the window on there are fewer tries than bursts of logins (Bounded). *)
(* That it holds from every place is what makes it last: the window loses  *)
(* its oldest try alone.                                                   *)
(*                                                                         *)
(* The argument for the last admin: a request whose row nobody changed     *)
(* since its load knows the truth about it (Fresh), and one that may write *)
(* a deactivation has counted another active admin (Counted), whom only a  *)
(* change that crosses the request can take away.  The argument for a      *)
(* login: a login that is not right now (Unfit) is refused by the row.     *)
(***************************************************************************)
EXTENDS Accounts, FiniteSetTheorems, TLAPS

---------------------------------------------------------------------------
(* The limit of failed logins                                              *)

\* The tries of k from the i-th of the window on, and those of them stored.
TriesFrom(k, i) == {j \in i..Len(recent) : k \in recent[j].by}
StoredFrom(k, i) == {j \in i..Len(recent) : k \in recent[j].stored}

\* What the logins of k under way may still add.
Pending(k) == IF Full(k) THEN Cardinality(InFlight(k)) ELSE 0

\* However much of the window has expired: between two stored failures, and
\* before the first, there are fewer tries than logins at once.
Bounded(k, i) ==
    Cardinality(TriesFrom(k, i)) + Pending(k) < (Cardinality(StoredFrom(k, i)) + 1) * parallel[k]

KeyInv(k) ==
    /\ Cardinality(InFlight(k)) <= parallel[k]
    /\ \A i \in 1..(Len(recent) + 1) : Bounded(k, i)

LimitInv == LimitTypeOK /\ \A k \in Keys : KeyInv(k)

\* n + 1 tries more are no more than one burst more.
LEMMA OneBurst ==
    ASSUME NEW t \in Nat, NEW s \in Nat, NEW p \in Nat, NEW f \in Nat, t < (s + 1) * p, f <= p
    PROVE  t + f < (s + 2) * p
  <1>1. (s + 2) * p = (s + 1) * p + p
    OBVIOUS
  <1>2. (s + 1) * p \in Nat
    OBVIOUS
  <1>3. QED
    BY <1>1, <1>2

\* More logins at once, or more failures stored, allow for more tries.
LEMMA Scale ==
    ASSUME NEW a \in Nat, NEW b \in Nat, NEW p \in Nat, NEW q \in Nat, a <= b, p <= q
    PROVE  (a + 1) * p <= (b + 1) * q
  <1>1. PICK d \in Nat : b = a + d
    <2>1. b - a \in Nat /\ b = a + (b - a)
      OBVIOUS
    <2>2. QED
      BY <2>1
  <1>2. PICK e \in Nat : q = p + e
    <2>1. q - p \in Nat /\ q = p + (q - p)
      OBVIOUS
    <2>2. QED
      BY <2>1
  <1>3. (b + 1) * q = (a + 1) * p + ((a + 1) * e + d * q)
    BY <1>1, <1>2
  <1>4. (a + 1) * e \in Nat /\ d * q \in Nat /\ (a + 1) * p \in Nat
    OBVIOUS
  <1>5. QED
    BY <1>3, <1>4

LEMMA InFlightFinite ==
    ASSUME NEW k
    PROVE  IsFiniteSet(InFlight(k)) /\ Cardinality(InFlight(k)) \in Nat
  BY RequestAssumption, FS_Subset, FS_CardinalityType DEF InFlight

LEMMA FromFinite ==
    ASSUME LimitTypeOK, NEW k, NEW i \in Nat
    PROVE  /\ IsFiniteSet(TriesFrom(k, i)) /\ Cardinality(TriesFrom(k, i)) \in Nat
           /\ IsFiniteSet(StoredFrom(k, i)) /\ Cardinality(StoredFrom(k, i)) \in Nat
  <1>1. Len(recent) \in Nat
    BY DEF LimitTypeOK
  <1>2. IsFiniteSet(i..Len(recent))
    BY <1>1, FS_Interval
  <1>3. TriesFrom(k, i) \subseteq i..Len(recent) /\ StoredFrom(k, i) \subseteq i..Len(recent)
    BY DEF TriesFrom, StoredFrom
  <1>4. QED
    BY <1>2, <1>3, FS_Subset, FS_CardinalityType

LEMMA FromOne ==
    ASSUME LimitTypeOK, NEW k
    PROVE  /\ Tries(k) = TriesFrom(k, 1) /\ Stored(k) = StoredFrom(k, 1)
           /\ IsFiniteSet(Stored(k)) /\ Cardinality(Stored(k)) \in Nat
  <1>1. DOMAIN recent = 1..Len(recent)
    BY DEF LimitTypeOK
  <1>2. Tries(k) = TriesFrom(k, 1) /\ Stored(k) = StoredFrom(k, 1)
    BY <1>1 DEF Tries, Stored, TriesFrom, StoredFrom
  <1>3. QED
    BY <1>2, FromFinite

\* A set of places and the same one place later.
LEMMA Shifted ==
    ASSUME NEW A \in SUBSET Nat, NEW B \in SUBSET Nat, IsFiniteSet(B),
           \A j \in Nat : j \in A <=> j + 1 \in B, 0 \notin B
    PROVE  Cardinality(A) = Cardinality(B)
  <1> DEFINE f == [b \in B |-> b - 1]
  <1>1. f \in [B -> A]
    <2>1. ASSUME NEW b \in B
          PROVE  b - 1 \in A
      <3>1. b - 1 \in Nat /\ (b - 1) + 1 = b
        OBVIOUS
      <3>2. QED
        BY <3>1
    <2>2. QED
      BY <2>1
  <1>2. \A b, c \in B : f[b] = f[c] => b = c
    OBVIOUS
  <1>3. \A a \in A : \E b \in B : f[b] = a
    <2>1. \A a \in A : a + 1 \in B /\ (a + 1) - 1 = a
      OBVIOUS
    <2>2. QED
      BY <2>1
  <1>4. f \in Bijection(B, A)
    BY <1>1, <1>2, <1>3 DEF Bijection, Injection, Surjection, IsInjective
  <1>5. QED
    BY <1>4, FS_Bijection DEF ExistsBijection

---------------------------------------------------------------------------
LEMMA LimitInitially == LimitInit => LimitInv
  <1> SUFFICES ASSUME LimitInit PROVE LimitInv
    OBVIOUS
  <1>1. recent = <<>> /\ Len(recent) = 0 /\ DOMAIN recent = {}
    BY DEF LimitInit
  <1>2. ASSUME NEW k \in Keys
        PROVE  KeyInv(k) /\ Cardinality(Stored(k)) <= LoginFailures
    <2>1. InFlight(k) = {} /\ Stored(k) = {} /\ parallel[k] = 1
      BY <1>1 DEF LimitInit, InFlight, Stored
    <2>2. Cardinality(InFlight(k)) = 0 /\ Cardinality(Stored(k)) = 0
      BY <2>1, FS_EmptySet
    <2>3. Pending(k) = 0
      BY <2>2 DEF Pending
    <2>4. ASSUME NEW i \in 1..(Len(recent) + 1)
          PROVE  Bounded(k, i)
      <3>1. i = 1
        BY <1>1
      <3>2. TriesFrom(k, i) = {} /\ StoredFrom(k, i) = {}
        BY <1>1, <3>1 DEF TriesFrom, StoredFrom
      <3>3. Cardinality(TriesFrom(k, i)) = 0 /\ Cardinality(StoredFrom(k, i)) = 0
        BY <3>2, FS_EmptySet
      <3>4. QED
        BY <2>1, <2>3, <3>3 DEF Bounded
    <2>5. QED
      BY <2>1, <2>2, <2>4, LimitAssumption DEF KeyInv
  <1>3. LimitTypeOK
    BY <1>1, <1>2 DEF LimitInit, LimitTypeOK
  <1>4. QED
    BY <1>2, <1>3 DEF LimitInv

\* The same tries, no more logins under way and no fewer at once.
LEMMA SameTries ==
    ASSUME LimitInv, LimitTypeOK', NEW k \in Keys, recent' = recent, parallel'[k] >= parallel[k],
           \/ InFlight(k)' \subseteq InFlight(k)
           \/ ~Full(k) /\ Cardinality(InFlight(k)') <= parallel'[k]
    PROVE  KeyInv(k)'
  <1>1. /\ Cardinality(InFlight(k)) \in Nat /\ Cardinality(InFlight(k)') \in Nat
        /\ parallel[k] \in Nat /\ parallel'[k] \in Nat
    <2>1. parallel[k] \in Nat /\ parallel'[k] \in Nat
      BY DEF LimitInv, LimitTypeOK
    <2>2. \A S \in SUBSET Requests : Cardinality(S) \in Nat
      BY RequestAssumption, FS_Subset, FS_CardinalityType
    <2>3. InFlight(k) \in SUBSET Requests /\ InFlight(k)' \in SUBSET Requests
      BY DEF InFlight
    <2>4. QED
      BY <2>1, <2>2, <2>3
  <1>2. InFlight(k)' \subseteq InFlight(k) => Cardinality(InFlight(k)') <= Cardinality(InFlight(k))
    BY InFlightFinite, FS_Subset
  <1>3. Cardinality(InFlight(k)) <= parallel[k]
    BY DEF LimitInv, KeyInv
  <1>4. Full(k)' <=> Full(k)
    BY DEF Full, Stored
  <1>5. Pending(k)' <= Pending(k) /\ Pending(k)' \in Nat /\ Pending(k) \in Nat
    BY <1>1, <1>2, <1>4 DEF Pending
  <1>6. Cardinality(InFlight(k)') <= parallel'[k]
    BY <1>1, <1>2, <1>3
  <1>7. ASSUME NEW i \in 1..(Len(recent) + 1)
        PROVE  Bounded(k, i)'
    <2>0. i \in Nat
      BY DEF LimitInv, LimitTypeOK
    <2>1. TriesFrom(k, i)' = TriesFrom(k, i) /\ StoredFrom(k, i)' = StoredFrom(k, i)
      BY DEF TriesFrom, StoredFrom
    <2>2. PICK t \in Nat, s \in Nat : t = Cardinality(TriesFrom(k, i)) /\ s = Cardinality(StoredFrom(k, i))
      BY <2>0, FromFinite DEF LimitInv
    <2>3. (s + 1) * parallel[k] <= (s + 1) * parallel'[k]
      BY <1>1, Scale
    <2>4. (s + 1) * parallel[k] \in Nat /\ (s + 1) * parallel'[k] \in Nat
      BY <1>1
    <2>5. t + Pending(k) < (s + 1) * parallel[k]
      BY <2>2 DEF LimitInv, KeyInv, Bounded
    <2>6. t + Pending(k)' < (s + 1) * parallel'[k]
      BY <1>5, <2>3, <2>4, <2>5
    <2>7. QED
      BY <2>1, <2>2, <2>6 DEF Bounded
  <1>8. QED
    BY <1>6, <1>7 DEF KeyInv

LEMMA StartsKeeps ==
    ASSUME LimitInv, NEW r \in Requests, NEW ip \in Addresses, NEW user \in Accounts, LoginStarts(r, ip, user)
    PROVE  LimitInv'
  <1> USE DEF LoginStarts
  <1>1. \A k \in Keys : Cardinality(InFlight(k) \cup {r}) \in Nat
    BY InFlightFinite, FS_AddElement, FS_CardinalityType
  <1>2. ASSUME NEW k \in Keys
        PROVE  parallel'[k] \in Nat \ {0} /\ parallel'[k] >= parallel[k]
    <2>1. PICK p \in Nat \ {0} : p = parallel[k]
      BY DEF LimitInv, LimitTypeOK
    <2>2. PICK now \in Nat : now = Cardinality(InFlight(k) \cup {r})
      BY <1>1
    <2>3. parallel'[k] = IF k \in {ip, user} /\ now > p THEN now ELSE p
      BY <2>1, <2>2
    <2>4. QED
      BY <2>1, <2>2, <2>3
  <1>3. LimitTypeOK'
    <2>1. parallel' \in [Keys -> Nat \ {0}]
      BY <1>2
    <2>2. flying' \in [Requests -> SUBSET Keys]
      BY DEF LimitInv, LimitTypeOK, Keys
    <2>3. recent' \in Seq(Try)
      BY DEF LimitInv, LimitTypeOK
    <2>4. \A k \in Keys : Cardinality(Stored(k)') <= LoginFailures
      BY DEF LimitInv, LimitTypeOK, Stored
    <2>5. QED
      BY <2>1, <2>2, <2>3, <2>4 DEF LimitTypeOK
  <1>4. ASSUME NEW k \in Keys
        PROVE  KeyInv(k)'
    <2>1. CASE k \in {ip, user}
      <3>1. ~Full(k)
        BY <2>1 DEF login_blocked
      <3>2. InFlight(k)' = InFlight(k) \cup {r}
        BY <2>1 DEF LimitInv, LimitTypeOK, InFlight
      <3>3. PICK n \in Nat : n = Cardinality(InFlight(k) \cup {r})
        BY <1>1
      <3>4. parallel'[k] = IF n > parallel[k] THEN n ELSE parallel[k]
        BY <2>1, <3>3
      <3>5. n <= parallel'[k]
        BY <3>3, <3>4 DEF LimitInv, LimitTypeOK
      <3>6. QED
        BY <1>2, <1>3, <3>1, <3>2, <3>3, <3>5, SameTries
    <2>2. CASE k \notin {ip, user}
      <3>1. InFlight(k)' \subseteq InFlight(k)
        BY <2>2 DEF LimitInv, LimitTypeOK, InFlight
      <3>2. QED
        BY <1>2, <1>3, <3>1, SameTries
    <2>3. QED
      BY <2>1, <2>2
  <1>5. QED
    BY <1>3, <1>4 DEF LimitInv

LEMMA EndsKeeps ==
    ASSUME LimitInv, NEW r \in Requests, LoginEnds(r)
    PROVE  LimitInv'
  <1>1. LimitTypeOK'
    <2>1. flying' \in [Requests -> SUBSET Keys]
      BY DEF LoginEnds, LimitInv, LimitTypeOK
    <2>2. \A k \in Keys : Cardinality(Stored(k)') <= LoginFailures
      BY DEF LoginEnds, LimitInv, LimitTypeOK, Stored
    <2>3. QED
      BY <2>1, <2>2 DEF LoginEnds, LimitInv, LimitTypeOK
  <1>2. ASSUME NEW k \in Keys
        PROVE  KeyInv(k)'
    <2>1. InFlight(k)' \subseteq InFlight(k) /\ recent' = recent /\ parallel'[k] = parallel[k] /\ parallel[k] \in Nat
      BY DEF LoginEnds, LimitInv, LimitTypeOK, InFlight
    <2>2. parallel'[k] >= parallel[k]
      BY <2>1
    <2>3. QED
      BY <1>1, <2>1, <2>2, SameTries
  <1>3. QED
    BY <1>1, <1>2 DEF LimitInv

\* A wrong try joins the window; it is one of those under way no more.
LEMMA FailedTry ==
    ASSUME LimitInv, NEW r \in Requests, login_failed(r), NEW k \in Keys
    PROVE  /\ KeyInv(k)' /\ Cardinality(Stored(k)') <= LoginFailures
           /\ recent' \in Seq(Try) /\ Len(recent') = Len(recent) + 1
  <1> DEFINE x == [by |-> flying[r], stored |-> {j \in flying[r] : ~Full(j)}]
  <1>0. PICK n \in Nat : n = Len(recent)
    BY DEF LimitInv, LimitTypeOK
  <1>1. recent \in Seq(Try) /\ n \in Nat /\ Len(recent) = n /\ x \in Try /\ parallel[k] \in Nat /\ parallel' = parallel
    BY <1>0 DEF login_failed, LimitInv, LimitTypeOK, Try
  <1>2. recent' = Append(recent, x)
    BY DEF login_failed
  <1>3. /\ recent' \in Seq(Try) /\ Len(recent') = n + 1 /\ recent'[n + 1] = x
        /\ \A j \in 1..n : recent'[j] = recent[j]
    BY <1>1, <1>2
  <1>4. k \in x.by <=> k \in flying[r]
    OBVIOUS
  <1>5. k \in x.stored <=> k \in flying[r] /\ ~Full(k)
    OBVIOUS
  <1> HIDE DEF x
  <1>6. ASSUME NEW i \in 1..(n + 1)
        PROVE  /\ TriesFrom(k, i)' = IF k \in flying[r] THEN TriesFrom(k, i) \cup {n + 1} ELSE TriesFrom(k, i)
               /\ StoredFrom(k, i)' = IF k \in flying[r] /\ ~Full(k) THEN StoredFrom(k, i) \cup {n + 1}
                                      ELSE StoredFrom(k, i)
    <2>1. \A j : j \in i..(n + 1) <=> j \in i..n \/ j = n + 1
      BY <1>1
    <2>2. \A j \in i..n : recent'[j] = recent[j]
      BY <1>1, <1>3
    <2>3. Len(recent) = n /\ Len(recent') = n + 1 /\ recent'[n + 1] = x /\ n + 1 \notin i..n
      BY <1>1, <1>3
    <2>4. QED
      BY <1>4, <1>5, <2>1, <2>2, <2>3 DEF TriesFrom, StoredFrom
  <1>7. ASSUME NEW i \in 1..(n + 1)
        PROVE  /\ Cardinality(TriesFrom(k, i)') =
                    IF k \in flying[r] THEN Cardinality(TriesFrom(k, i)) + 1 ELSE Cardinality(TriesFrom(k, i))
               /\ Cardinality(StoredFrom(k, i)') =
                    IF k \in flying[r] /\ ~Full(k) THEN Cardinality(StoredFrom(k, i)) + 1
                    ELSE Cardinality(StoredFrom(k, i))
    <2>1. i \in Nat
      BY <1>1
    <2>2. n + 1 \notin TriesFrom(k, i) /\ n + 1 \notin StoredFrom(k, i)
      BY <1>1 DEF TriesFrom, StoredFrom
    <2>3. IsFiniteSet(TriesFrom(k, i)) /\ IsFiniteSet(StoredFrom(k, i))
      BY <2>1, FromFinite DEF LimitInv
    <2>4. QED
      BY <1>6, <2>2, <2>3, FS_AddElement
  <1>8. /\ Cardinality(Stored(k)) \in Nat
        /\ Cardinality(Stored(k)') = IF k \in flying[r] /\ ~Full(k) THEN Cardinality(Stored(k)) + 1 ELSE Cardinality(Stored(k))
    <2>1. Stored(k) = StoredFrom(k, 1) /\ Cardinality(Stored(k)) \in Nat
      BY FromOne DEF LimitInv
    <2>2. DOMAIN recent' = 1..Len(recent')
      BY <1>3
    <2>3. Stored(k)' = StoredFrom(k, 1)'
      BY <2>2 DEF Stored, StoredFrom
    <2>4. 1 \in 1..(n + 1)
      BY <1>1
    <2>5. QED
      BY <1>7, <2>1, <2>3, <2>4
  <1>9. Cardinality(Stored(k)') <= LoginFailures /\ (Full(k) => Full(k)')
    BY <1>8, LimitAssumption DEF Full, LimitInv, LimitTypeOK
  <1>10. PICK f \in Nat : f = Cardinality(InFlight(k))
    BY InFlightFinite
  <1>11. PICK g \in Nat : /\ g = Cardinality(InFlight(k)') /\ g <= f
                          /\ k \in flying[r] => g + 1 = f
    <2>1. CASE k \in flying[r]
      <3>1. InFlight(k)' = InFlight(k) \ {r} /\ r \in InFlight(k)
        BY <2>1 DEF login_failed, LimitInv, LimitTypeOK, InFlight
      <3>2. Cardinality(InFlight(k)') = f - 1 /\ Cardinality(InFlight(k)') \in Nat
        BY <1>10, <3>1, InFlightFinite, FS_RemoveElement, FS_CardinalityType
      <3>3. QED
        BY <3>2
    <2>2. CASE k \notin flying[r]
      <3>1. InFlight(k)' = InFlight(k)
        BY <2>2 DEF login_failed, LimitInv, LimitTypeOK, InFlight
      <3>2. QED
        BY <1>10, <2>2, <3>1
    <2>3. QED
      BY <2>1, <2>2
  <1>12. f <= parallel[k] /\ \A i \in 1..(n + 1) : Bounded(k, i)
    BY <1>0, <1>10 DEF LimitInv, KeyInv
  <1>13. Pending(k) = (IF Full(k) THEN f ELSE 0) /\ Pending(k)' = (IF Full(k)' THEN g ELSE 0)
    BY <1>10, <1>11 DEF Pending
  <1>14. ASSUME NEW i \in 1..(n + 1)
         PROVE  Bounded(k, i)'
    <2>0. i \in Nat
      BY <1>1
    <2>1. PICK t \in Nat, s \in Nat : t = Cardinality(TriesFrom(k, i)) /\ s = Cardinality(StoredFrom(k, i))
      BY <2>0, FromFinite DEF LimitInv
    <2>2. PICK p \in Nat : p = parallel[k] /\ p = parallel'[k]
      BY <1>1
    <2>3. (s + 1) * p \in Nat /\ (s + 2) * p \in Nat
      BY <2>2
    <2>4. t + Pending(k) < (s + 1) * p /\ f <= p
      BY <1>12, <2>1, <2>2 DEF Bounded
    <2>5. CASE k \in flying[r] /\ ~Full(k)
      <3>1. t < (s + 1) * p
        BY <1>13, <2>4, <2>5
      <3>2. t + f < (s + 2) * p
        BY <2>2, <2>4, <3>1, OneBurst
      <3>3. t + 1 + Pending(k)' < (s + 2) * p
        BY <1>11, <1>13, <2>3, <2>5, <3>2
      <3>4. (s + 1) + 1 = s + 2
        OBVIOUS
      <3>5. QED
        BY <1>7, <2>1, <2>2, <2>5, <3>3, <3>4 DEF Bounded
    <2>6. CASE k \in flying[r] /\ Full(k)
      <3>1. t + 1 + Pending(k)' < (s + 1) * p
        BY <1>9, <1>11, <1>13, <2>3, <2>4, <2>6
      <3>2. QED
        BY <1>7, <2>1, <2>2, <2>6, <3>1 DEF Bounded
    <2>7. CASE k \notin flying[r]
      <3>1. Full(k)' <=> Full(k)
        BY <1>8, <2>7 DEF Full
      <3>2. t + Pending(k)' < (s + 1) * p
        BY <1>11, <1>13, <2>3, <2>4, <3>1
      <3>3. QED
        BY <1>7, <2>1, <2>2, <2>7, <3>2 DEF Bounded
    <2>8. QED
      BY <2>5, <2>6, <2>7
  <1>15. Bounded(k, n + 2)'
    <2>1. TriesFrom(k, n + 2)' = {} /\ StoredFrom(k, n + 2)' = {}
      BY <1>1, <1>3 DEF TriesFrom, StoredFrom
    <2>2. TriesFrom(k, n + 1) = {} /\ StoredFrom(k, n + 1) = {}
      BY <1>1 DEF TriesFrom, StoredFrom
    <2>3. PICK p \in Nat : p = parallel[k] /\ p = parallel'[k]
      BY <1>1
    <2>4. Pending(k) \in Nat /\ Pending(k)' \in Nat
      BY <1>11, <1>13
    <2>5. Cardinality(TriesFrom(k, n + 1)) + Pending(k) < (Cardinality(StoredFrom(k, n + 1)) + 1) * p
      BY <1>1, <1>12, <2>3 DEF Bounded
    <2>6. Cardinality({}) = 0
      BY FS_EmptySet
    <2>7. 0 + Pending(k) < (0 + 1) * p
      BY <2>2, <2>5, <2>6
    <2>8. Pending(k) < p
      BY <2>3, <2>4, <2>7
    <2>9. Pending(k)' < p
      <3>1. CASE k \in flying[r]
        BY <1>11, <1>12, <1>13, <2>3, <2>8, <3>1
      <3>2. CASE k \notin flying[r]
        <4>1. Full(k)' <=> Full(k)
          BY <1>8, <3>2 DEF Full
        <4>2. QED
          BY <1>11, <1>13, <2>3, <2>8, <4>1
      <3>3. QED
        BY <3>1, <3>2
    <2>10. 0 + Pending(k)' < (0 + 1) * p
      BY <2>3, <2>4, <2>9
    <2>11. QED
      BY <2>1, <2>3, <2>6, <2>10 DEF Bounded
  <1>16. KeyInv(k)'
    <2>1. Cardinality(InFlight(k)') <= parallel'[k]
      BY <1>1, <1>11, <1>12
    <2>2. ASSUME NEW i \in 1..(Len(recent') + 1)
          PROVE  Bounded(k, i)'
      <3>1. i \in 1..(n + 1) \/ i = n + 2
        BY <1>1, <1>3
      <3>2. CASE i = n + 2
        BY <1>15, <3>2
      <3>3. QED
        BY <1>14, <3>1, <3>2
    <2>3. QED
      BY <2>1, <2>2 DEF KeyInv
  <1>17. QED
    BY <1>0, <1>3, <1>9, <1>16

LEMMA FailedKeeps ==
    ASSUME LimitInv, NEW r \in Requests, login_failed(r)
    PROVE  LimitInv'
  <1>1. flying' \in [Requests -> SUBSET Keys] /\ parallel' \in [Keys -> Nat \ {0}]
    BY DEF login_failed, LimitInv, LimitTypeOK
  <1>2. recent' \in Seq(Try)
    <2>1. [by |-> flying[r], stored |-> {j \in flying[r] : ~Full(j)}] \in Try
      BY DEF LimitInv, LimitTypeOK, Try
    <2>2. QED
      BY <2>1 DEF login_failed, LimitInv, LimitTypeOK
  <1>3. \A k \in Keys : KeyInv(k)' /\ Cardinality(Stored(k)') <= LoginFailures
    BY FailedTry
  <1>4. QED
    BY <1>1, <1>2, <1>3 DEF LimitInv, LimitTypeOK

\* What is left once the oldest try has expired was the same without it.
LEMMA ExpiryKeeps ==
    ASSUME LimitInv, FailureExpires
    PROVE  LimitInv'
  <1> DEFINE n == Len(recent)
  <1>1. recent \in Seq(Try) /\ n \in Nat /\ n >= 1
    BY DEF FailureExpires, LimitInv, LimitTypeOK
  <1>2. /\ recent' \in Seq(Try) /\ Len(recent') = n - 1 /\ flying' = flying /\ parallel' = parallel
        /\ \A j \in 1..(n - 1) : recent'[j] = recent[j + 1]
    BY <1>1 DEF FailureExpires
  <1> HIDE DEF n
  <1>3. ASSUME NEW k \in Keys, NEW i \in 1..n
        PROVE  /\ Cardinality(TriesFrom(k, i)') = Cardinality(TriesFrom(k, i + 1))
               /\ Cardinality(StoredFrom(k, i)') = Cardinality(StoredFrom(k, i + 1))
    <2>0. i \in Nat /\ i + 1 \in Nat
      BY <1>1
    <2>1. \A j \in Nat : j \in i..(n - 1) <=> j + 1 \in (i + 1)..n
      BY <1>1
    <2>2. \A j \in i..(n - 1) : recent'[j] = recent[j + 1]
      BY <1>1, <1>2
    <2>3. Len(recent) = n
      BY DEF n
    <2>4. \A j \in Nat : j \in TriesFrom(k, i)' <=> j + 1 \in TriesFrom(k, i + 1)
      BY <1>2, <2>1, <2>2, <2>3 DEF TriesFrom
    <2>5. \A j \in Nat : j \in StoredFrom(k, i)' <=> j + 1 \in StoredFrom(k, i + 1)
      BY <1>2, <2>1, <2>2, <2>3 DEF StoredFrom
    <2>6. /\ TriesFrom(k, i)' \in SUBSET Nat /\ StoredFrom(k, i)' \in SUBSET Nat
          /\ TriesFrom(k, i + 1) \in SUBSET Nat /\ StoredFrom(k, i + 1) \in SUBSET Nat
          /\ 0 \notin TriesFrom(k, i + 1) /\ 0 \notin StoredFrom(k, i + 1)
      BY <1>1, <1>2, <2>0, <2>3 DEF TriesFrom, StoredFrom
    <2>7. IsFiniteSet(TriesFrom(k, i + 1)) /\ IsFiniteSet(StoredFrom(k, i + 1))
      BY <2>0, FromFinite DEF LimitInv
    <2>8. QED
      BY <2>4, <2>5, <2>6, <2>7, Shifted
  <1>4. ASSUME NEW k \in Keys
        PROVE  KeyInv(k)' /\ Cardinality(Stored(k)') <= LoginFailures
    <2>1. Cardinality(Stored(k)') <= Cardinality(Stored(k)) /\ Cardinality(Stored(k)) \in Nat /\ Cardinality(Stored(k)') \in Nat
      <3>1. Stored(k)' = StoredFrom(k, 1)'
        <4>1. DOMAIN recent' = 1..Len(recent')
          BY <1>2
        <4>2. QED
          BY <4>1 DEF Stored, StoredFrom
      <3>2. StoredFrom(k, 2) \subseteq StoredFrom(k, 1)
        BY <1>1 DEF StoredFrom, n
      <3>3. Stored(k) = StoredFrom(k, 1) /\ IsFiniteSet(Stored(k)) /\ Cardinality(Stored(k)) \in Nat
        BY FromOne DEF LimitInv
      <3>4. Cardinality(StoredFrom(k, 2)) <= Cardinality(StoredFrom(k, 1)) /\ Cardinality(StoredFrom(k, 2)) \in Nat
        BY <3>2, <3>3, FS_Subset, FS_CardinalityType
      <3>5. Cardinality(StoredFrom(k, 1)') = Cardinality(StoredFrom(k, 2))
        <4>1. 1 \in 1..n /\ 1 + 1 = 2
          BY <1>1
        <4>2. QED
          BY <1>3, <4>1
      <3>6. QED
        BY <3>1, <3>3, <3>4, <3>5
    <2>2. Cardinality(Stored(k)') <= LoginFailures
      BY <2>1, LimitAssumption DEF LimitInv, LimitTypeOK
    <2>3. InFlight(k)' = InFlight(k) /\ (Full(k)' => Full(k))
      BY <1>2, <2>1, LimitAssumption DEF InFlight, Full
    <2>4. Pending(k)' <= Pending(k) /\ Pending(k) \in Nat /\ Pending(k)' \in Nat
      BY <2>3, InFlightFinite DEF Pending
    <2>5. ASSUME NEW i \in 1..n
          PROVE  Bounded(k, i)'
      <3>1. i + 1 \in 1..(Len(recent) + 1) /\ i + 1 \in Nat
        BY <1>1 DEF n
      <3>2. PICK t \in Nat, s \in Nat : t = Cardinality(TriesFrom(k, i + 1)) /\ s = Cardinality(StoredFrom(k, i + 1))
        BY <3>1, FromFinite DEF LimitInv
      <3>3. t + Pending(k) < (s + 1) * parallel[k]
        BY <3>1, <3>2 DEF LimitInv, KeyInv, Bounded
      <3>4. (s + 1) * parallel[k] \in Nat
        BY DEF LimitInv, LimitTypeOK
      <3>5. t + Pending(k)' < (s + 1) * parallel[k]
        BY <2>4, <3>3, <3>4
      <3>6. QED
        BY <1>2, <1>3, <3>2, <3>5 DEF Bounded
    <2>6. Cardinality(InFlight(k)') <= parallel'[k]
      BY <1>2, <2>3 DEF LimitInv, KeyInv
    <2>7. \A i \in 1..(Len(recent') + 1) : i \in 1..n
      BY <1>1, <1>2
    <2>8. QED
      BY <2>2, <2>5, <2>6, <2>7 DEF KeyInv
  <1>5. QED
    BY <1>2, <1>4 DEF LimitInv, LimitTypeOK

LEMMA LostKeeps ==
    ASSUME LimiterLost
    PROVE  LimitInv'
  <1>1. recent' = <<>> /\ Len(recent') = 0 /\ DOMAIN recent' = {}
    BY DEF LimiterLost
  <1>2. ASSUME NEW k \in Keys
        PROVE  KeyInv(k)' /\ Cardinality(Stored(k)') <= LoginFailures
    <2>1. InFlight(k)' = {} /\ Stored(k)' = {} /\ parallel'[k] = 1
      BY <1>1 DEF LimiterLost, InFlight, Stored
    <2>2. Cardinality(InFlight(k)') = 0 /\ Cardinality(Stored(k)') = 0
      BY <2>1, FS_EmptySet
    <2>3. Pending(k)' = 0
      BY <2>2 DEF Pending
    <2>4. ASSUME NEW i \in 1..(Len(recent') + 1)
          PROVE  Bounded(k, i)'
      <3>1. i = 1
        BY <1>1
      <3>2. TriesFrom(k, i)' = {} /\ StoredFrom(k, i)' = {}
        BY <1>1, <3>1 DEF TriesFrom, StoredFrom
      <3>3. Cardinality(TriesFrom(k, i)') = 0 /\ Cardinality(StoredFrom(k, i)') = 0
        BY <3>2, FS_EmptySet
      <3>4. QED
        BY <2>1, <2>3, <3>3 DEF Bounded
    <2>5. QED
      BY <2>1, <2>2, <2>4, LimitAssumption DEF KeyInv
  <1>3. LimitTypeOK'
    BY <1>1, <1>2 DEF LimiterLost, LimitTypeOK
  <1>4. QED
    BY <1>2, <1>3 DEF LimitInv

LEMMA StepLimit == LimitInv /\ [LimitNext]_limiter => LimitInv'
  <1> SUFFICES ASSUME LimitInv, [LimitNext]_limiter PROVE LimitInv'
    OBVIOUS
  <1>1. CASE UNCHANGED limiter
    BY <1>1 DEF limiter, LimitInv, LimitTypeOK, KeyInv, Bounded, Pending, TriesFrom, StoredFrom, Full, Stored, InFlight
  <1>2. CASE LimitNext
    BY <1>2, StartsKeeps, FailedKeeps, EndsKeeps, ExpiryKeeps, LostKeeps DEF LimitNext
  <1>3. QED
    BY <1>1, <1>2

\* With all of the window: the counter holds the limit at most.
LEMMA LimitBounds == LimitInv => GuessesBounded
  <1> SUFFICES ASSUME LimitInv, NEW k \in Keys
               PROVE  Cardinality(Tries(k)) < (LoginFailures + 1) * parallel[k]
    BY DEF GuessesBounded
  <1>1. PICK t \in Nat, s \in Nat, p \in Nat :
          t = Cardinality(TriesFrom(k, 1)) /\ s = Cardinality(StoredFrom(k, 1)) /\ p = parallel[k]
    BY FromFinite DEF LimitInv, LimitTypeOK
  <1>2. 1 \in 1..(Len(recent) + 1) /\ Pending(k) \in Nat
    BY InFlightFinite DEF LimitInv, LimitTypeOK, Pending
  <1>3. t + Pending(k) < (s + 1) * p
    BY <1>1, <1>2 DEF LimitInv, KeyInv, Bounded
  <1>4. s <= LoginFailures /\ LoginFailures \in Nat
    BY <1>1, FromOne, LimitAssumption DEF LimitInv, LimitTypeOK
  <1>5. (s + 1) * p <= (LoginFailures + 1) * p
    BY <1>4, Scale
  <1>6. (s + 1) * p \in Nat /\ (LoginFailures + 1) * p \in Nat
    BY <1>4
  <1>7. t < (LoginFailures + 1) * p
    BY <1>2, <1>3, <1>5, <1>6
  <1>8. QED
    BY <1>1, <1>7, FromOne DEF LimitInv

\* However much of the window has expired, the bound holds for the rest of it.
THEOREM LimitInvariant == LimitSpec => []LimitInv
  BY LimitInitially, StepLimit, PTL DEF LimitSpec

\* login_blocked and login_failed (rate_limit.py): no counter passes the limit.
THEOREM LimitTypes == LimitSpec => []LimitTypeOK
  BY LimitInvariant, PTL DEF LimitInv

\* require_agent (auth.py): whatever expires in between, an address and a name
\* try fewer wrong passwords within one window than the limit and one, times
\* the logins that were under way at once.
THEOREM GuessesInvariant == LimitSpec => []GuessesBounded
  BY LimitInvariant, LimitBounds, PTL

---------------------------------------------------------------------------
(* The accounts: what the invariant adds                                   *)

Late == {"admitted", "hashing", "counting", "writing", "rehashing"}
Loaded(r) == at[r] \in {"counting", "writing"}

\* A process that is down has no request under way.
Quiet == server = "down" => \A r \in Requests : at[r] \notin Open

\* Whoever is past its login was an admin of a table that is not empty.
Known ==
    \A r \in Requests :
        /\ verdict[r] \in {"admin", "conseiller"} => rows # {}
        /\ at[r] \in Late => verdict[r] = "admin"

\* What a request that changes is_active has read.
Aimed ==
    \A r \in Requests :
        /\ Loaded(r) => task[r].target \in rows /\ loaded[r] \in {"on", "off"} /\ task[r].active \in {"on", "off"}
        /\ at[r] = "counting" => task[r].active = "off" /\ loaded[r] = "on" /\ task[r].target \in admins
        /\ at[r] = "rehashing" => task[r].target \in rows

\* Nobody else changed an account: the loaded value is still the value.
Fresh ==
    \A r \in Requests \ crossed : Loaded(r) => (loaded[r] = "on" <=> task[r].target \in active)

\* It has counted another active admin, who is still one.
Counted ==
    \A r \in Requests \ crossed :
        at[r] = "writing" /\ task[r].active = "off" /\ loaded[r] = "on" /\ task[r].target \in admins
            => ActiveAdmins \ {task[r].target} # {}

AccountInv == TypeOK /\ LimitInv /\ Quiet /\ Known /\ Aimed /\ Fresh /\ Counted /\ LastAdminStays

\* A login that was never right is not right now.
Unfit == \A r \in unfit : ~Right(r)

---------------------------------------------------------------------------
(* Types                                                                   *)

\* A step of the service is a step of the limit of its logins, or none.
LEMMA LimitStep == [Next]_vars => [LimitNext]_limiter
  <1> SUFFICES ASSUME [Next]_vars, ~UNCHANGED limiter PROVE LimitNext
    OBVIOUS
  <1>1. Step
    BY DEF Next, vars, limiter
  <1>2. \/ Stop \/ Expire
        \/ \E r \in Requests :
             \/ \E ip \in Addresses, user \in Accounts, guess \in Passwords : Arrive(r, ip, user, guess)
             \/ Refuse(r) \/ Admit(r) \/ Ends(r)
    BY <1>1 DEF Step, Start, ReadAccount, CreateLoad, SetPasswordLoad, SetActiveLoad, Loads, SetPasswordCommit,
        CreateCommit, CountAdmins, SetActiveCommit
  <1>3. QED
    BY <1>2 DEF Stop, Expire, Arrive, Refuse, Admit, Ends, LimitNext

LEMMA InitType == Init => TypeOK
  <1> SUFFICES ASSUME Init PROVE TypeOK
    OBVIOUS
  <1> USE AccountAssumption, LimitAssumption
  <1>1. login \in [Requests -> [ip : Addresses, user : Accounts, guess : Passwords]]
    BY DEF Init
  <1>2. task \in [Requests -> [target : Accounts, active : {"on", "off", "kept"}]]
    BY DEF Init
  <1>3. QED
    BY <1>1, <1>2, LimitInitially DEF Init, TypeOK, LimitInv

LEMMA ArriveType ==
    ASSUME TypeOK, NEW r \in Requests, NEW ip \in Addresses, NEW user \in Accounts,
           NEW guess \in Passwords, Arrive(r, ip, user, guess), Remember, LimitTypeOK'
    PROVE  TypeOK'
  <1>1. login' \in [Requests -> [ip : Addresses, user : Accounts, guess : Passwords]]
    BY DEF TypeOK, Arrive
  <1>2. QED
    BY <1>1 DEF TypeOK, Arrive, Remember, Open, account

LEMMA LoadsType ==
    ASSUME TypeOK, NEW r \in Requests, NEW a \in Accounts, NEW value \in {"on", "off", "kept"},
           NEW place \in Open, Loads(r, a, value, place), Remember, LimitTypeOK'
    PROVE  TypeOK'
  <1>1. task' \in [Requests -> [target : Accounts, active : {"on", "off", "kept"}]]
    BY DEF TypeOK, Loads
  <1>2. loaded' \in [Requests -> {"on", "off", "kept"}]
    BY DEF TypeOK, Loads
  <1>3. QED
    BY <1>1, <1>2 DEF TypeOK, Loads, Remember, account

LEMMA StepType == TypeOK /\ LimitInv /\ Aimed /\ [Next]_vars => TypeOK' /\ LimitInv'
  <1> SUFFICES ASSUME TypeOK, LimitInv, Aimed, [Next]_vars PROVE TypeOK' /\ LimitInv'
    OBVIOUS
  <1>0. LimitInv' /\ LimitTypeOK'
    BY LimitStep, StepLimit DEF LimitInv
  <1> USE AccountAssumption, LimitAssumption
  <1>1. CASE UNCHANGED vars
    BY <1>0, <1>1 DEF TypeOK, vars, account, request
  <1>2. CASE Start /\ Remember
    BY <1>0, <1>2 DEF TypeOK, Start, Remember, account, request
  <1>3. CASE Stop /\ Remember
    BY <1>0, <1>3 DEF TypeOK, Stop, Remember, account, request
  <1>4. CASE Expire /\ Remember
    BY <1>0, <1>4 DEF TypeOK, Expire, Remember, account, request
  <1>5. ASSUME NEW r \in Requests, ReadAccount(r), Remember
        PROVE  TypeOK'
    BY <1>0, <1>5 DEF TypeOK, ReadAccount, Remember, Verdict, Open, account, request
  <1>6. ASSUME NEW r \in Requests, Refuse(r), Remember
        PROVE  TypeOK'
    BY <1>0, <1>6 DEF TypeOK, Refuse, Remember, account, request
  <1>7. ASSUME NEW r \in Requests, Admit(r) \/ CountAdmins(r) \/ Ends(r), Remember
        PROVE  TypeOK'
    BY <1>0, <1>7 DEF TypeOK, Admit, CountAdmins, Ends, Open, Remember, account, request
  <1>8. ASSUME NEW r \in Requests, NEW a \in Accounts, CreateLoad(r, a) \/ SetPasswordLoad(r, a), Remember
        PROVE  TypeOK'
    BY <1>0, <1>8, LoadsType DEF CreateLoad, SetPasswordLoad, Open
  <1>9. ASSUME NEW r \in Requests, NEW a \in Accounts, NEW value \in {"on", "off"},
               SetActiveLoad(r, a, value), Remember
        PROVE  TypeOK'
    BY <1>0, <1>9, LoadsType DEF SetActiveLoad, Open
  <1>10. ASSUME NEW r \in Requests, NEW p \in Passwords, NEW admin \in BOOLEAN,
                CreateCommit(r, admin, p), Remember
         PROVE  TypeOK'
    BY <1>0, <1>10 DEF TypeOK, CreateCommit, Remember, request
  <1>11. ASSUME NEW r \in Requests, NEW p \in Passwords, SetPasswordCommit(r, p), Remember
         PROVE  TypeOK'
    BY <1>0, <1>11 DEF TypeOK, SetPasswordCommit, Remember, request
  <1>12. ASSUME NEW r \in Requests, SetActiveCommit(r), Remember
         PROVE  TypeOK'
    BY <1>0, <1>12 DEF TypeOK, SetActiveCommit, Crosses, Remember, request, Aimed, Loaded
  <1>13. QED
    BY <1>0, <1>1, <1>2, <1>3, <1>4, <1>5, <1>6, <1>7, <1>8, <1>9, <1>10, <1>11, <1>12, ArriveType
    DEF Next, Step

---------------------------------------------------------------------------
(* The last admin                                                          *)

LEMMA InitAccount == Init => AccountInv
  BY InitType, LimitInitially DEF Init, AccountInv, Quiet, Known, Aimed, Fresh, Counted, LastAdminStays, Loaded, Late, Open

\* A step that changes no account and starts no write.
Calm ==
    /\ UNCHANGED <<rows, admins, active, task, loaded, crossed>>
    /\ \A q \in Requests : \/ at'[q] \in {at[q], "done"}
                           \/ at[q] # "done" /\ at'[q] \in {"reading", "checking", "admitted"}

LEMMA CalmStep ==
    ASSUME TypeOK, Aimed, Fresh, Counted, LastAdminStays, Calm
    PROVE  Aimed' /\ Fresh' /\ Counted' /\ LastAdminStays'
  <1>1. Aimed'
    BY DEF TypeOK, Calm, Aimed, Loaded
  <1>2. Fresh'
    BY DEF TypeOK, Calm, Fresh, Loaded
  <1>3. Counted'
    BY DEF TypeOK, Calm, Counted, ActiveAdmins
  <1>4. LastAdminStays'
    BY DEF TypeOK, Calm, LastAdminStays, ActiveAdmins
  <1>5. QED
    BY <1>1, <1>2, <1>3, <1>4

LEMMA CalmActions ==
    ASSUME TypeOK, Quiet, Known,
           \/ Stop
           \/ Expire
           \/ \E r \in Requests :
                \/ \E ip \in Addresses, user \in Accounts, guess \in Passwords : Arrive(r, ip, user, guess)
                \/ ReadAccount(r) \/ Refuse(r) \/ Admit(r) \/ Ends(r)
    PROVE  Calm /\ Quiet' /\ Known'
  <1> USE DEF TypeOK, Calm, Quiet, Known, Open, Late, account, request
  <1>1. CASE Stop
    BY <1>1 DEF Stop
  <1>2. CASE Expire
    BY <1>2 DEF Expire
  <1>3. ASSUME NEW r \in Requests, NEW ip \in Addresses, NEW user \in Accounts, NEW guess \in Passwords,
               Arrive(r, ip, user, guess)
        PROVE  Calm /\ Quiet' /\ Known'
    BY <1>3 DEF Arrive
  <1>4. ASSUME NEW r \in Requests, ReadAccount(r)
        PROVE  Calm /\ Quiet' /\ Known'
    BY <1>4 DEF ReadAccount, Verdict
  <1>5. ASSUME NEW r \in Requests, Refuse(r)
        PROVE  Calm /\ Quiet' /\ Known'
    BY <1>5 DEF Refuse
  <1>6. ASSUME NEW r \in Requests, Admit(r) \/ Ends(r)
        PROVE  Calm /\ Quiet' /\ Known'
    BY <1>6 DEF Admit, Ends
  <1>7. QED
    BY <1>1, <1>2, <1>3, <1>4, <1>5, <1>6

\* A request that loads its account starts afresh.
LEMMA LoadsStep ==
    ASSUME AccountInv, NEW r \in Requests, NEW a \in Accounts, NEW value \in {"on", "off", "kept"},
           NEW place \in Open, Loads(r, a, value, place),
           \/ place = "hashing"
           \/ place = "rehashing" /\ a \in rows
           \/ a \in rows /\ value # "kept" /\ place = IF value = "off" /\ a \in ActiveAdmins THEN "counting" ELSE "writing"
    PROVE  Quiet' /\ Known' /\ Aimed' /\ Fresh' /\ Counted' /\ LastAdminStays'
  <1> USE DEF AccountInv, TypeOK, Loads, account
  <1>1. Quiet' /\ Known'
    BY DEF Quiet, Known, Late, Open
  <1>2. Aimed'
    BY DEF Aimed, Loaded, ActiveAdmins
  <1>3. Fresh'
    BY DEF Fresh, Loaded
  <1>4. Counted'
    BY DEF Counted, ActiveAdmins
  <1>5. LastAdminStays'
    BY DEF LastAdminStays, ActiveAdmins
  <1>6. QED
    BY <1>1, <1>2, <1>3, <1>4, <1>5

\* More than one admin: another one than the target.
LEMMA AnotherAdmin ==
    ASSUME TypeOK, NEW a, Cardinality(ActiveAdmins) > 1
    PROVE  ActiveAdmins \ {a} # {}
  <1> SUFFICES ASSUME ActiveAdmins \ {a} = {} PROVE FALSE
    OBVIOUS
  <1>1. ActiveAdmins \subseteq {a}
    OBVIOUS
  <1>2. IsFiniteSet({a}) /\ Cardinality({a}) = 1
    BY FS_Singleton
  <1>3. Cardinality(ActiveAdmins) <= 1
    BY <1>1, <1>2, FS_Subset
  <1>4. Cardinality(ActiveAdmins) \in Nat
    BY <1>1, <1>2, FS_Subset, FS_CardinalityType
  <1>5. QED
    BY <1>3, <1>4

LEMMA CountStep ==
    ASSUME AccountInv, NEW r \in Requests, CountAdmins(r)
    PROVE  Quiet' /\ Known' /\ Aimed' /\ Fresh' /\ Counted' /\ LastAdminStays'
  <1> USE DEF AccountInv, TypeOK, CountAdmins, account, request
  <1>1. Quiet' /\ Known'
    BY DEF Quiet, Known, Late, Open
  <1>2. Aimed'
    BY DEF Aimed, Loaded
  <1>3. Fresh'
    BY DEF Fresh, Loaded
  <1>4. Counted'
    <2>1. at'[r] = "writing" => Cardinality(ActiveAdmins) > 1
      <3>1. Cardinality(ActiveAdmins) \in Nat
        BY AccountAssumption, FS_Subset, FS_CardinalityType DEF ActiveAdmins
      <3>2. QED
        BY <3>1
    <2>2. at'[r] = "writing" => ActiveAdmins \ {task[r].target} # {}
      BY <2>1, AnotherAdmin
    <2>3. QED
      BY <2>2 DEF Counted, ActiveAdmins
  <1>5. LastAdminStays'
    BY DEF LastAdminStays, ActiveAdmins
  <1>6. QED
    BY <1>1, <1>2, <1>3, <1>4, <1>5

\* A new account is nobody's target.
LEMMA CreateStep ==
    ASSUME AccountInv, NEW r \in Requests, NEW p \in Passwords, NEW admin \in BOOLEAN, CreateCommit(r, admin, p)
    PROVE  Quiet' /\ Known' /\ Aimed' /\ Fresh' /\ Counted' /\ LastAdminStays'
  <1> USE DEF AccountInv, TypeOK, CreateCommit, request
  <1>0. rows \subseteq rows' /\ admins \subseteq admins' /\ active \subseteq active' /\ rows # {}
    BY DEF Known, Late
  <1>1. Quiet' /\ Known'
    BY <1>0 DEF Quiet, Known, Late, Open
  <1>2. Aimed'
    BY <1>0 DEF Aimed, Loaded
  <1>3. Fresh'
    BY DEF Fresh, Aimed, Loaded
  <1>4. Counted'
    BY DEF Counted, ActiveAdmins, Aimed, Loaded
  <1>5. LastAdminStays'
    BY <1>0 DEF LastAdminStays, ActiveAdmins
  <1>6. QED
    BY <1>1, <1>2, <1>3, <1>4, <1>5

LEMMA StartStep ==
    ASSUME AccountInv, Start
    PROVE  Quiet' /\ Known' /\ Aimed' /\ Fresh' /\ Counted' /\ LastAdminStays'
  <1>1. CASE UNCHANGED account
    <2>1. Calm
      BY <1>1 DEF Start, Calm, account, request
    <2>2. QED
      BY <1>1, <2>1, CalmStep DEF AccountInv, Start, Quiet, Known, account, request
  <1>2. CASE rows = {} /\ ~UNCHANGED account
    <2>1. \A q \in Requests : at'[q] \notin Open /\ verdict'[q] \notin {"admin", "conseiller"}
      BY <1>2 DEF AccountInv, Start, Quiet, Known, request
    <2>2. Quiet' /\ Known' /\ Aimed' /\ Fresh' /\ Counted'
      BY <2>1 DEF Quiet, Known, Aimed, Fresh, Counted, Loaded, Late, Open
    <2>3. LastAdminStays'
      BY <1>2 DEF Start, LastAdminStays, ActiveAdmins, account
    <2>4. QED
      BY <2>2, <2>3
  <1>3. QED
    BY <1>1, <1>2 DEF Start

\* The writer changes its target alone, and crosses whoever loaded an account.
LEMMA WriteStep ==
    ASSUME AccountInv, NEW r \in Requests, SetActiveCommit(r)
    PROVE  Quiet' /\ Known' /\ Aimed' /\ Fresh' /\ Counted' /\ LastAdminStays'
  <1> USE DEF AccountInv, TypeOK, SetActiveCommit, Crosses, request
  <1>1. Quiet' /\ Known'
    BY DEF Quiet, Known, Late, Open
  <1>2. Aimed'
    BY DEF Aimed, Loaded
  <1>3. Fresh'
    BY DEF Fresh, Loaded
  <1>4. Counted'
    BY DEF Counted, Loaded, ActiveAdmins
  <1>5. LastAdminStays'
    <2>1. crossed \subseteq crossed' /\ at'[r] = "done" /\ \A q \in Requests : at[q] = "done" => at'[q] = "done"
      OBVIOUS
    <2>2. CASE \E q \in crossed : at[q] = "done" /\ task[q].active = "off" /\ task[q].target \in admins
      BY <2>1, <2>2 DEF LastAdminStays
    <2>3. CASE rows = {} \/ ActiveAdmins' # {}
      BY <2>3 DEF LastAdminStays
    <2>4. CASE ActiveAdmins # {} /\ ActiveAdmins' = {}
      <3>1. active' = active \ {task[r].target} /\ task[r].active = "off" /\ loaded[r] = "on"
        BY <2>4 DEF Aimed, Loaded, ActiveAdmins
      <3>2. task[r].target \in admins
        BY <2>4, <3>1 DEF ActiveAdmins
      <3>3. r \in crossed
        BY <2>4, <3>1, <3>2 DEF Counted, ActiveAdmins
      <3>4. QED
        BY <2>1, <3>1, <3>2, <3>3 DEF LastAdminStays
    <2>5. QED
      BY <2>2, <2>3, <2>4 DEF LastAdminStays
  <1>6. QED
    BY <1>1, <1>2, <1>3, <1>4, <1>5

LEMMA PasswordStep ==
    ASSUME AccountInv, NEW r \in Requests, NEW p \in Passwords, SetPasswordCommit(r, p)
    PROVE  Quiet' /\ Known' /\ Aimed' /\ Fresh' /\ Counted' /\ LastAdminStays'
  <1>1. Calm
    BY DEF AccountInv, TypeOK, SetPasswordCommit, Calm, account, request
  <1>2. Quiet' /\ Known'
    BY DEF AccountInv, TypeOK, SetPasswordCommit, Quiet, Known, Late, Open, request
  <1>3. QED
    BY <1>1, <1>2, CalmStep DEF AccountInv

LEMMA StepAccount == AccountInv /\ [Next]_vars => AccountInv'
  <1> SUFFICES ASSUME AccountInv, [Next]_vars PROVE AccountInv'
    OBVIOUS
  <1> DEFINE Rest == Quiet' /\ Known' /\ Aimed' /\ Fresh' /\ Counted' /\ LastAdminStays'
  <1>1. TypeOK' /\ LimitInv'
    BY StepType DEF AccountInv
  <1>2. SUFFICES Rest
    BY <1>1 DEF AccountInv
  <1>3. CASE UNCHANGED vars
    BY <1>3 DEF AccountInv, Quiet, Known, Aimed, Fresh, Counted, LastAdminStays, ActiveAdmins, Loaded,
        vars, account, request
  <1>4. CASE \/ Stop
             \/ Expire
             \/ \E r \in Requests :
                  \/ \E ip \in Addresses, user \in Accounts, guess \in Passwords : Arrive(r, ip, user, guess)
                  \/ ReadAccount(r) \/ Refuse(r) \/ Admit(r) \/ Ends(r)
    BY <1>4, CalmStep, CalmActions DEF AccountInv
  <1>5. ASSUME NEW r \in Requests, NEW a \in Accounts, CreateLoad(r, a) \/ SetPasswordLoad(r, a)
        PROVE  Rest
    BY <1>5, LoadsStep DEF CreateLoad, SetPasswordLoad, Open
  <1>6. ASSUME NEW r \in Requests, NEW a \in Accounts, NEW value \in {"on", "off"}, SetActiveLoad(r, a, value)
        PROVE  Rest
    BY <1>6, LoadsStep DEF SetActiveLoad, Open
  <1>7. ASSUME NEW r \in Requests, CountAdmins(r) \/ SetActiveCommit(r)
        PROVE  Rest
    BY <1>7, CountStep, WriteStep
  <1>8. ASSUME NEW r \in Requests, NEW p \in Passwords,
               SetPasswordCommit(r, p) \/ \E admin \in BOOLEAN : CreateCommit(r, admin, p)
        PROVE  Rest
    BY <1>8, PasswordStep, CreateStep
  <1>9. CASE Start
    BY <1>9, StartStep
  <1>10. QED
    BY <1>3, <1>4, <1>5, <1>6, <1>7, <1>8, <1>9 DEF Next, Step

\* Every login of a request is one that LoginLimit knows: what it promises
\* holds of the service too.
THEOREM RequestsLimited == Spec => LimitSpec
  <1>1. Init => LimitInit
    BY DEF Init
  <1>2. QED
    BY <1>1, LimitStep, PTL DEF Spec, LimitSpec

\* The invariant above holds in every state.
THEOREM AccountInvariant == Spec => []AccountInv
  BY InitAccount, StepAccount, PTL DEF Spec

\* The accounts, the requests and the counters keep their shape: an account
\* that is active or an admin has a row, and no counter passes the limit.
THEOREM TypeInvariant == Spec => []TypeOK
  BY AccountInvariant, PTL DEF AccountInv

\* _set_active (agents.py): as long as no request changes an account between
\* the load and the commit of a deactivation, an active admin remains.
THEOREM LastAdminInvariant == Spec => []LastAdminStays
  BY AccountInvariant, PTL DEF AccountInv

\* deactivate_agent, activate_agent: the row says what was acknowledged,
\* unless another request changed an account in between.
THEOREM AcknowledgedStep == Spec => AcknowledgedTakesEffect
  <1>1. AccountInv /\ [Next]_vars =>
          [\A r \in Requests \ crossed : SetActiveCommit(r)
             => (task[r].target \in active' <=> task[r].active = "on")]_vars
    BY DEF AccountInv, TypeOK, Aimed, Fresh, Loaded, SetActiveCommit
  <1>2. QED
    BY <1>1, AccountInvariant, PTL DEF Spec, AcknowledgedTakesEffect

---------------------------------------------------------------------------
(* The login                                                               *)

\* How a request proceeds until it is admitted.
Proceeds(r) ==
    /\ at[r] = "new" => at'[r] \in {"new", "reading", "done"}
    /\ at[r] = "reading" => /\ login'[r] = login[r]
                            /\ \/ at'[r] \in {"reading", "done"}
                               \/ at'[r] = "checking" /\ verdict'[r] = Verdict(login[r].user, login[r].guess)
    /\ at[r] = "checking" => /\ verdict'[r] = verdict[r]
                             /\ at'[r] \in {"checking", "done"} \/ verdict[r] = "admin"
    /\ at[r] = "done" => at'[r] = "done"

LEMMA StepProceeds ==
    ASSUME TypeOK, Step, NEW q \in Requests
    PROVE  Proceeds(q)
  <1> USE DEF TypeOK, Proceeds, request, Open
  <1>1. CASE Start \/ Stop \/ Expire
    BY <1>1 DEF Start, Stop, Expire
  <1>2. ASSUME NEW r \in Requests, ReadAccount(r) \/ Refuse(r) \/ Admit(r) \/ Ends(r) \/ CountAdmins(r)
        PROVE  Proceeds(q)
    BY <1>2 DEF ReadAccount, Refuse, Admit, Ends, CountAdmins
  <1>3. ASSUME NEW r \in Requests, NEW ip \in Addresses, NEW user \in Accounts, NEW guess \in Passwords,
               Arrive(r, ip, user, guess)
        PROVE  Proceeds(q)
    BY <1>3 DEF Arrive
  <1>4. ASSUME NEW r \in Requests, NEW a \in Accounts, NEW value, NEW place, Loads(r, a, value, place)
        PROVE  Proceeds(q)
    BY <1>4 DEF Loads
  <1>5. ASSUME NEW r \in Requests, NEW p \in Passwords,
               SetActiveCommit(r) \/ SetPasswordCommit(r, p) \/ \E admin \in BOOLEAN : CreateCommit(r, admin, p)
        PROVE  Proceeds(q)
    BY <1>5 DEF SetActiveCommit, SetPasswordCommit, CreateCommit
  <1>6. ASSUME NEW r \in Requests, SetActiveCommit(r)
        PROVE  Proceeds(q)
    BY <1>6 DEF SetActiveCommit
  <1>7. QED
    BY <1>1, <1>2, <1>3, <1>4, <1>5, <1>6 DEF Step, CreateLoad, SetPasswordLoad, SetActiveLoad

LEMMA StepLogin == TypeOK /\ Unfit /\ AdmittedWasRight /\ [Next]_vars => Unfit' /\ AdmittedWasRight'
  <1> SUFFICES ASSUME TypeOK, Unfit, AdmittedWasRight, [Next]_vars PROVE Unfit' /\ AdmittedWasRight'
    OBVIOUS
  <1>1. CASE UNCHANGED vars
    BY <1>1 DEF Unfit, AdmittedWasRight, Right, ActiveAdmins, vars, account, request
  <1>2. CASE Next
    <2>1. Unfit'
      BY <1>2 DEF Next, Remember, Unfit
    <2>2. ASSUME NEW q \in unfit'
          PROVE  \/ at'[q] \in {"new", "reading", "done"}
                 \/ at'[q] = "checking" /\ verdict'[q] # "admin"
      <3>1. q \in Requests /\ Proceeds(q) /\ (q \in unfit \/ at[q] = "new")
        BY <1>2, StepProceeds DEF Next, Remember
      <3>2. CASE at[q] = "new" \/ at[q] = "done"
        BY <3>1, <3>2 DEF Proceeds
      <3>3. CASE q \in unfit /\ at[q] = "reading"
        <4>1. Verdict(login[q].user, login[q].guess) # "admin"
          BY <3>3 DEF Unfit, Right, ActiveAdmins, Verdict
        <4>2. QED
          BY <3>1, <3>3, <4>1 DEF Proceeds
      <3>4. CASE q \in unfit /\ at[q] = "checking"
        BY <3>1, <3>4 DEF Proceeds, AdmittedWasRight
      <3>5. QED
        BY <3>1, <3>2, <3>3, <3>4 DEF AdmittedWasRight
    <2>3. QED
      BY <2>1, <2>2 DEF AdmittedWasRight
  <1>3. QED
    BY <1>1, <1>2

\* require_agent and authenticate (auth.py): a password that was never right
\* between the arrival of its request and now opens nothing.
THEOREM AdmittedInvariant == Spec => []AdmittedWasRight
  <1>1. Init => Unfit /\ AdmittedWasRight
    BY DEF Init, Unfit, AdmittedWasRight
  <1>2. QED
    BY <1>1, StepLogin, TypeInvariant, PTL DEF Spec

=============================================================================
