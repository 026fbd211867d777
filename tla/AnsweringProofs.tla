-------------------------- MODULE AnsweringProofs --------------------------
(***************************************************************************)
(* Retrieval, the query behind a follow-up and the language of an answer,  *)
(* for any knowledge base, texts and bounds.                               *)
(*                                                                         *)
(* The nearest relevant chunk is a candidate of the reranker: a chunk that *)
(* only BM25 found at rank r scores 1 / (K + r), no more than the first of *)
(* the nearest ones, which is inserted before it.  So only chunks of the   *)
(* list of the nearest ones may come before the first of them              *)
(* (Overtaking): fewer than PerList, which is no more than Candidates.     *)
(*                                                                         *)
(* The fused list is a strict total order of the chunks of both lists      *)
(* (BeforeIsOrder), so the cut after n keeps exactly the n first of the    *)
(* usable ones, or all of them (KeptIsFirst): the chunks that reach the    *)
(* LLM are relevant and no more than TopK.                                 *)
(*                                                                         *)
(* The query and the language: both are taken from the last message with   *)
(* some property, which exists as soon as one has it.                      *)
(***************************************************************************)
EXTENDS Answering, FiniteSetTheorems, WellFoundedInduction, TLAPS

\* A fraction with a longer denominator is a smaller one.
LEMMA Product ==
    ASSUME NEW a \in Nat, NEW b \in Nat, NEW c \in Nat, a >= 1, c >= a
    PROVE  (a + b) * c > a * b
  <1>1. PICK e \in Nat : c = a + e
    <2>1. c - a \in Nat /\ c = a + (c - a)
      OBVIOUS
    <2>2. QED
      BY <2>1
  <1>2. (a + b) * (a + e) = a * b + a * a + (a * e + b * e)
    OBVIOUS
  <1>3. a * a >= 1 /\ a * e >= 0 /\ b * e >= 0 /\ a * b \in Nat /\ a * a \in Nat /\ a * e \in Nat /\ b * e \in Nat
    <2>1. a * b \in Nat /\ a * a \in Nat /\ a * e \in Nat /\ b * e \in Nat
      OBVIOUS
    <2>2. a * a >= 1
      OBVIOUS
    <2>3. QED
      BY <2>1, <2>2
  <1>4. QED
    BY <1>1, <1>2, <1>3

LEMMA RankInList ==
    ASSUME NEW S, NEW s \in Seq(S), NEW d \in Elements(s)
    PROVE  Rank(s, d) \in 1..Len(s) /\ s[Rank(s, d)] = d
  BY DEF Rank, Elements

LEMMA FirstRank ==
    ASSUME NEW S, NEW s \in Seq(S), Distinct(s), s # <<>>
    PROVE  s[1] \in Elements(s) /\ Rank(s, s[1]) = 1
  <1>1. 1 \in DOMAIN s /\ s[1] \in Elements(s)
    BY DEF Elements
  <1>2. Rank(s, s[1]) \in DOMAIN s /\ s[Rank(s, s[1])] = s[1]
    BY <1>1, RankInList
  <1>3. QED
    BY <1>1, <1>2 DEF Distinct

\* As many elements as places, at most.
LEMMA ElementsFinite ==
    ASSUME NEW S, NEW s \in Seq(S)
    PROVE  IsFiniteSet(Elements(s)) /\ Cardinality(Elements(s)) <= Len(s)
  <1>0. Len(s) \in Nat /\ 1..Len(s) = DOMAIN s
    OBVIOUS
  <1>1. IsFiniteSet(1..Len(s)) /\ Cardinality(1..Len(s)) = Len(s)
    BY <1>0, FS_Interval
  <1>2. s \in Surjection(1..Len(s), Elements(s))
    BY <1>0 DEF Surjection, Elements
  <1>3. QED
    BY <1>0, <1>1, <1>2, FS_Surjection

\* Only a chunk of the same list comes before the first of the nearest ones.
LEMMA Overtaking ==
    ASSUME NEW S, NEW near \in Seq(S), NEW sparse \in Seq(S), Distinct(near), near # <<>>,
           NEW e \in Fused(near, sparse), Before(near, sparse, e, near[1])
    PROVE  e \in Elements(near) \ {near[1]}
  <1> DEFINE d == near[1]
             here == Numerator(near, sparse, e) * Denominator(near, sparse, d)
             there == Numerator(near, sparse, d) * Denominator(near, sparse, e)
  <1>1. K \in Nat /\ K >= 1
    BY RankAssumption
  <1>2. d \in Elements(near) /\ Rank(near, d) = 1 /\ Weight(near, d) = K + 1
    BY FirstRank DEF Weight
  <1>3. ASSUME e = d
        PROVE  FALSE
    <2>1. d \in Elements(sparse) => Weight(sparse, d) \in Nat
      BY <1>1, RankInList DEF Weight
    <2>2. Numerator(near, sparse, d) \in Nat /\ Denominator(near, sparse, d) \in Nat
      BY <1>1, <1>2, <2>1 DEF Numerator, Denominator
    <2>3. here = there /\ here \in Nat /\ Place(near, sparse, d) = 1
      BY <1>2, <1>3, <2>2 DEF Place
    <2> HIDE DEF here, there
    <2>4. here > there \/ (here = there /\ Place(near, sparse, e) < Place(near, sparse, d))
      BY DEF Before, here, there
    <2>5. QED
      BY <1>3, <2>3, <2>4
  <1>4. ASSUME e \notin Elements(near)
        PROVE  FALSE
    <2>1. e \in Elements(sparse) /\ Rank(sparse, e) \in 1..Len(sparse)
      BY <1>4, RankInList DEF Fused
    <2>2. PICK w \in Nat : w = Weight(sparse, e) /\ w >= K + 1
      BY <1>1, <2>1 DEF Weight
    <2>3. Numerator(near, sparse, e) = 1 /\ Denominator(near, sparse, e) = w
      BY <1>4, <2>1, <2>2 DEF Numerator, Denominator
    <2>4. Place(near, sparse, d) = 1 /\ Place(near, sparse, e) >= 1
      BY <1>2, <1>4, <2>1 DEF Place
    <2>5. CASE d \notin Elements(sparse)
      <3>1. Numerator(near, sparse, d) = 1 /\ Denominator(near, sparse, d) = K + 1
        BY <1>2, <2>5 DEF Numerator, Denominator
      <3>2. here = K + 1 /\ there = w
        BY <1>1, <2>2, <2>3, <3>1
      <3> HIDE DEF here, there
      <3>3. here > there \/ (here = there /\ Place(near, sparse, e) < Place(near, sparse, d))
        BY DEF Before, here, there
      <3>4. Place(near, sparse, e) \in Nat
        BY <1>4, <2>1 DEF Place
      <3>5. QED
        BY <1>1, <2>2, <2>4, <3>2, <3>3, <3>4
    <2>6. CASE d \in Elements(sparse)
      <3>1. PICK v \in Nat : v = Weight(sparse, d)
        BY <1>1, <2>6, RankInList DEF Weight
      <3>2. Numerator(near, sparse, d) = (K + 1) + v /\ Denominator(near, sparse, d) = (K + 1) * v
        BY <1>2, <2>6, <3>1 DEF Numerator, Denominator
      <3>3. here = (K + 1) * v /\ there = ((K + 1) + v) * w
        BY <1>1, <2>3, <3>1, <3>2
      <3>4. there > here
        <4>1. K + 1 \in Nat /\ K + 1 >= 1
          BY <1>1
        <4>2. ((K + 1) + v) * w > (K + 1) * v
          BY <4>1, <2>2, <3>1, Product
        <4>3. QED
          BY <3>3, <4>2
      <3>5. (K + 1) * v \in Nat /\ ((K + 1) + v) * w \in Nat
        BY <1>1, <2>2, <3>1
      <3> HIDE DEF here, there
      <3>6. here > there \/ here = there
        BY DEF Before, here, there
      <3>7. QED
        BY <3>3, <3>4, <3>5, <3>6
    <2>7. QED
      BY <2>5, <2>6
  <1>5. QED
    BY <1>3, <1>4

\* search (hybrid_retriever.py): with room for as many hits as there are
\* nearest chunks, the nearest of them is kept if it is usable.
LEMMA NearestKept ==
    ASSUME NEW S, NEW near \in Seq(S), NEW sparse \in Seq(S), Distinct(near), near # <<>>,
           NEW usable, near[1] \in usable, NEW n \in Nat, Len(near) <= n
    PROVE  near[1] \in Kept(near, sparse, usable, n)
  <1> DEFINE d == near[1]
             good == Fused(near, sparse) \cap usable
             P == {e \in good : Before(near, sparse, e, d)}
  <1>1. d \in Elements(near)
    BY FirstRank
  <1>2. P \subseteq Elements(near) \ {d}
    BY Overtaking
  <1>3. IsFiniteSet(Elements(near)) /\ Cardinality(Elements(near)) <= Len(near)
    BY ElementsFinite
  <1>4. /\ IsFiniteSet(Elements(near) \ {d})
        /\ Cardinality(Elements(near) \ {d}) = Cardinality(Elements(near)) - 1
    BY <1>1, <1>3, FS_RemoveElement
  <1>5. Cardinality(P) <= Cardinality(Elements(near) \ {d}) /\ Cardinality(P) \in Nat
    BY <1>2, <1>4, FS_Subset, FS_CardinalityType
  <1>6. Cardinality(Elements(near)) \in Nat /\ Cardinality(Elements(near) \ {d}) \in Nat /\ Len(near) \in Nat
    BY <1>3, <1>4, FS_CardinalityType
  <1>7. d \in good
    BY <1>1 DEF Fused
  <1> HIDE DEF P
  <1>8. Cardinality(P) < n
    BY <1>3, <1>4, <1>5, <1>6
  <1>9. QED
    BY <1>7, <1>8 DEF Kept, P

\* A ranking of a finite set ranks each of its members.
LEMMA OrderRanks ==
    ASSUME NEW S, IsFiniteSet(S), NEW s \in Orders(S)
    PROVE  s \in Seq(S) /\ Distinct(s) /\ \A d \in S : Rank(s, d) \in Nat
  <1> DEFINE n == Cardinality(S)
  <1>1. n \in Nat
    BY FS_CardinalityType
  <1>2. s \in [1..n -> S] /\ Distinct(s) /\ DOMAIN s = 1..n
    BY DEF Orders
  <1>3. s \in Injection(1..n, S)
    BY <1>2 DEF Injection, IsInjective, Distinct
  <1>4. IsFiniteSet(1..n) /\ Cardinality(1..n) = n
    BY <1>1, FS_Interval
  <1>5. s \in Surjection(1..n, S)
    BY <1>3, <1>4, FS_Injection
  <1>6. s \in Seq(S)
    BY <1>1, <1>2
  <1>7. ASSUME NEW d \in S
        PROVE  Rank(s, d) \in Nat
    <2>1. \E i \in DOMAIN s : s[i] = d
      BY <1>2, <1>5 DEF Surjection
    <2>2. Rank(s, d) \in 1..n
      BY <1>2, <2>1 DEF Rank
    <2>3. QED
      BY <2>2
  <1>8. QED
    BY <1>2, <1>6, <1>7

\* The beginning of a ranking.
LEMMA FirstOf ==
    ASSUME NEW S, NEW s \in Seq(S), Distinct(s), NEW n \in Nat
    PROVE  First(s, n) \in Seq(S) /\ Distinct(First(s, n)) /\ Len(First(s, n)) <= n
  <1> DEFINE m == IF Len(s) < n THEN Len(s) ELSE n
  <1>1. m \in 0..Len(s) /\ m <= n
    OBVIOUS
  <1>2. /\ SubSeq(s, 1, m) \in Seq(S) /\ Len(SubSeq(s, 1, m)) = m
        /\ \A i \in 1..m : SubSeq(s, 1, m)[i] = s[i]
    BY <1>1
  <1>3. DOMAIN SubSeq(s, 1, m) = 1..m /\ 1..m \subseteq DOMAIN s
    BY <1>1, <1>2
  <1>4. QED
    BY <1>1, <1>2, <1>3 DEF First, Distinct

---------------------------------------------------------------------------
(* The fused list                                                          *)

LEMMA Scale ==
    ASSUME NEW x \in Nat, NEW y \in Nat, NEW f \in Nat, f >= 1
    PROVE  /\ x * f \in Nat /\ y * f \in Nat
           /\ x >= y => x * f >= y * f
           /\ x > y => x * f > y * f
  <1>1. x * f \in Nat /\ y * f \in Nat
    OBVIOUS
  <1>2. ASSUME x >= y
        PROVE  x * f >= y * f /\ (x > y => x * f > y * f)
    <2>1. PICK k \in Nat : x = y + k
      <3>1. x - y \in Nat /\ x = y + (x - y)
        BY <1>2
      <3>2. QED
        BY <3>1
    <2>2. x * f = y * f + k * f
      BY <2>1
    <2>3. k * f \in Nat /\ (k >= 1 => k * f >= 1)
      OBVIOUS
    <2>4. QED
      BY <1>1, <2>1, <2>2, <2>3
  <1>3. QED
    BY <1>1, <1>2

\* One fraction is larger than another one, which is larger than a third.
LEMMA Fractions ==
    ASSUME NEW a \in Nat, NEW c \in Nat, NEW e \in Nat,
           NEW b \in Nat, NEW d \in Nat, NEW f \in Nat, b >= 1, d >= 1, f >= 1,
           a * d >= c * b, c * f >= e * d
    PROVE  /\ a * f >= e * b
           /\ a * d > c * b \/ c * f > e * d => a * f > e * b
  <1>1. a * d \in Nat /\ c * b \in Nat /\ c * f \in Nat /\ e * d \in Nat /\ a * f \in Nat /\ e * b \in Nat
    OBVIOUS
  <1>2. /\ (a * d) * f >= (c * b) * f /\ (a * d > c * b => (a * d) * f > (c * b) * f)
        /\ (c * f) * b >= (e * d) * b /\ (c * f > e * d => (c * f) * b > (e * d) * b)
    BY <1>1, Scale
  <1>3. /\ (a * d) * f = (a * f) * d /\ (c * b) * f = (c * f) * b /\ (e * d) * b = (e * b) * d
        /\ (a * f) * d \in Nat /\ (c * f) * b \in Nat /\ (e * b) * d \in Nat
    OBVIOUS
  <1>4. (a * f) * d >= (e * b) * d /\ (a * d > c * b \/ c * f > e * d => (a * f) * d > (e * b) * d)
    BY <1>2, <1>3
  <1>5. /\ a * f < e * b => (a * f) * d < (e * b) * d
        /\ a * f <= e * b => (a * f) * d <= (e * b) * d
    BY <1>1, Scale
  <1>6. PICK x \in Nat, y \in Nat, u \in Nat, v \in Nat :
          x = a * f /\ y = e * b /\ u = (a * f) * d /\ v = (e * b) * d
    BY <1>1, <1>3
  <1>7. u >= v /\ (x < y => u < v) /\ (x <= y => u <= v)
    BY <1>4, <1>5, <1>6
  <1>8. x >= y /\ (u > v => x > y)
    BY <1>6, <1>7
  <1>9. QED
    BY <1>4, <1>6, <1>8

\* A chunk of either list has a score and a place of its own.
LEMMA Scores ==
    ASSUME NEW S, NEW near \in Seq(S), NEW sparse \in Seq(S), NEW d \in Fused(near, sparse)
    PROVE  /\ Numerator(near, sparse, d) \in Nat
           /\ Denominator(near, sparse, d) \in Nat /\ Denominator(near, sparse, d) >= 1
           /\ Place(near, sparse, d) \in Nat
  <1>1. K \in Nat /\ K >= 1 /\ Len(near) \in Nat
    BY RankAssumption
  <1>2. d \in Elements(near) => Rank(near, d) \in Nat /\ Weight(near, d) \in Nat /\ Weight(near, d) >= 1
    BY <1>1, RankInList DEF Weight
  <1>3. d \in Elements(sparse) => Rank(sparse, d) \in Nat /\ Weight(sparse, d) \in Nat /\ Weight(sparse, d) >= 1
    BY <1>1, RankInList DEF Weight
  <1>4. d \in Elements(near) \/ d \in Elements(sparse)
    BY DEF Fused
  <1>5. Place(near, sparse, d) \in Nat
    BY <1>1, <1>2, <1>3, <1>4 DEF Place
  <1>6. CASE d \in Elements(near) /\ d \in Elements(sparse)
    <2>1. PICK v \in Nat, w \in Nat : v = Weight(near, d) /\ w = Weight(sparse, d) /\ v >= 1 /\ w >= 1
      BY <1>2, <1>3, <1>6
    <2>2. Numerator(near, sparse, d) = v + w /\ Denominator(near, sparse, d) = v * w
      BY <1>6, <2>1 DEF Numerator, Denominator
    <2>3. v * w \in Nat /\ v * w >= 1
      BY <2>1
    <2>4. QED
      BY <1>5, <2>1, <2>2, <2>3
  <1>7. CASE ~(d \in Elements(near) /\ d \in Elements(sparse))
    BY <1>2, <1>3, <1>4, <1>5, <1>7 DEF Numerator, Denominator
  <1>8. QED
    BY <1>6, <1>7

LEMMA PlacesDiffer ==
    ASSUME NEW S, NEW near \in Seq(S), NEW sparse \in Seq(S),
           NEW d \in Fused(near, sparse), NEW e \in Fused(near, sparse),
           Place(near, sparse, d) = Place(near, sparse, e)
    PROVE  d = e
  <1>1. Len(near) \in Nat
    OBVIOUS
  <1>2. ASSUME NEW c \in Fused(near, sparse)
        PROVE  \/ /\ c \in Elements(near) /\ Place(near, sparse, c) = Rank(near, c)
                  /\ Rank(near, c) \in 1..Len(near) /\ near[Rank(near, c)] = c
               \/ /\ c \notin Elements(near) /\ Place(near, sparse, c) = Len(near) + Rank(sparse, c)
                  /\ Rank(sparse, c) \in 1..Len(sparse) /\ sparse[Rank(sparse, c)] = c
    BY <1>2, RankInList DEF Fused, Place
  <1>3. CASE d \in Elements(near)
    BY <1>1, <1>2, <1>3
  <1>4. CASE d \notin Elements(near)
    <2>1. e \notin Elements(near)
      BY <1>1, <1>2, <1>4
    <2>2. Rank(sparse, d) = Rank(sparse, e)
      BY <1>1, <1>2, <1>4, <2>1
    <2>3. QED
      BY <1>2, <1>4, <2>1, <2>2
  <1>5. QED
    BY <1>3, <1>4

\* sorted(..., reverse=True) has one result: by score, then by insertion,
\* is a strict total order of the chunks of both lists.
LEMMA BeforeIsOrder ==
    ASSUME NEW S, NEW near \in Seq(S), NEW sparse \in Seq(S)
    PROVE  /\ \A d \in Fused(near, sparse) : ~Before(near, sparse, d, d)
           /\ \A d, e \in Fused(near, sparse) : d = e \/ Before(near, sparse, d, e) \/ Before(near, sparse, e, d)
           /\ \A c, d, e \in Fused(near, sparse) :
                Before(near, sparse, c, d) /\ Before(near, sparse, d, e) => Before(near, sparse, c, e)
  <1> DEFINE N(d) == Numerator(near, sparse, d)
             D(d) == Denominator(near, sparse, d)
             P(d) == Place(near, sparse, d)
             F == Fused(near, sparse)
  <1>1. \A d \in F : N(d) \in Nat /\ D(d) \in Nat /\ D(d) >= 1 /\ P(d) \in Nat
    BY Scores
  <1>2. \A d, e \in F : P(d) = P(e) => d = e
    BY PlacesDiffer
  <1>3. \A d, e : Before(near, sparse, d, e) <=>
          N(d) * D(e) > N(e) * D(d) \/ (N(d) * D(e) = N(e) * D(d) /\ P(d) < P(e))
    BY DEF Before
  <1> HIDE DEF N, D, P, F
  <1>4. ASSUME NEW d \in F
        PROVE  ~Before(near, sparse, d, d)
    <2>1. N(d) * D(d) \in Nat /\ P(d) \in Nat
      BY <1>1
    <2>2. QED
      BY <1>3, <2>1
  <1>5. ASSUME NEW d \in F, NEW e \in F
        PROVE  d = e \/ Before(near, sparse, d, e) \/ Before(near, sparse, e, d)
    <2>1. N(d) * D(e) \in Nat /\ N(e) * D(d) \in Nat /\ P(d) \in Nat /\ P(e) \in Nat
      BY <1>1
    <2>2. PICK x \in Nat, y \in Nat : x = N(d) * D(e) /\ y = N(e) * D(d)
      BY <2>1
    <2>3. x > y \/ y > x \/ (x = y /\ (P(d) < P(e) \/ P(e) < P(d) \/ P(d) = P(e)))
      BY <2>1
    <2>4. QED
      BY <1>2, <1>3, <2>2, <2>3
  <1>6. ASSUME NEW c \in F, NEW d \in F, NEW e \in F,
               Before(near, sparse, c, d), Before(near, sparse, d, e)
        PROVE  Before(near, sparse, c, e)
    <2>1. /\ N(c) \in Nat /\ N(d) \in Nat /\ N(e) \in Nat /\ D(c) \in Nat /\ D(d) \in Nat /\ D(e) \in Nat
          /\ D(c) >= 1 /\ D(d) >= 1 /\ D(e) >= 1 /\ P(c) \in Nat /\ P(d) \in Nat /\ P(e) \in Nat
      BY <1>1
    <2>2. /\ N(c) * D(d) \in Nat /\ N(d) * D(c) \in Nat /\ N(d) * D(e) \in Nat /\ N(e) * D(d) \in Nat
          /\ N(c) * D(e) \in Nat /\ N(e) * D(c) \in Nat
      BY <2>1
    <2>3. PICK s \in Nat, t \in Nat, u \in Nat, v \in Nat, x \in Nat, y \in Nat :
            /\ s = N(c) * D(d) /\ t = N(d) * D(c) /\ u = N(d) * D(e) /\ v = N(e) * D(d)
            /\ x = N(c) * D(e) /\ y = N(e) * D(c)
      BY <2>2
    <2>4. (s > t \/ (s = t /\ P(c) < P(d))) /\ (u > v \/ (u = v /\ P(d) < P(e)))
      BY <1>3, <1>6, <2>3
    <2>5. s >= t /\ u >= v
      BY <2>4
    <2>6. x >= y /\ (s > t \/ u > v => x > y)
      BY <2>1, <2>3, <2>5, Fractions
    <2>7. x > y \/ (x = y /\ P(c) < P(e))
      BY <2>1, <2>4, <2>6
    <2>8. QED
      BY <1>3, <2>3, <2>7
  <1>7. QED
    BY <1>4, <1>5, <1>6 DEF F

LEMMA Below ==
    ASSUME NEW n \in Nat
    PROVE  IsFiniteSet(0..(n - 1)) /\ Cardinality(0..(n - 1)) = n
  <1>1. 0 \in Int /\ n - 1 \in Int
    OBVIOUS
  <1>2. /\ IsFiniteSet(0..(n - 1))
        /\ Cardinality(0..(n - 1)) = IF 0 > n - 1 THEN 0 ELSE (n - 1) - 0 + 1
    BY <1>1, FS_Interval
  <1>3. (IF 0 > n - 1 THEN 0 ELSE (n - 1) - 0 + 1) = n
    OBVIOUS
  <1>4. QED
    BY <1>2, <1>3

\* A strict total order of G, and the ones with fewer than n before them.
Ordered(G, R) ==
    /\ \A d \in G : <<d, d>> \notin R
    /\ \A d, e \in G : d = e \/ <<d, e>> \in R \/ <<e, d>> \in R
    /\ \A c, d, e \in G : <<c, d>> \in R /\ <<d, e>> \in R => <<c, e>> \in R

Leaders(G, R, n) == {d \in G : Cardinality({e \in G : <<e, d>> \in R}) < n}

\* In a strict total order of a finite set, each place from 0 on is that of
\* one member: the ones with fewer than n before them are the n first.
LEMMA FirstOnes ==
    ASSUME NEW G, IsFiniteSet(G), NEW R, Ordered(G, R), NEW n \in Nat
    PROVE  /\ IsFiniteSet(Leaders(G, R, n))
           /\ Cardinality(Leaders(G, R, n)) = IF Cardinality(G) < n THEN Cardinality(G) ELSE n
           /\ \A d \in Leaders(G, R, n), e \in G \ Leaders(G, R, n) : <<d, e>> \in R
  <1>0. PICK first : first = Leaders(G, R, n)
    OBVIOUS
  <1> USE DEF Ordered
  <1> DEFINE B(d) == {e \in G : <<e, d>> \in R}
             m == Cardinality(G)
             place == [d \in G |-> Cardinality(B(d))]
  <1>1. m \in Nat
    BY FS_CardinalityType
  <1>2. ASSUME NEW d \in G
        PROVE  IsFiniteSet(B(d)) /\ Cardinality(B(d)) \in Nat
    <2>1. B(d) \subseteq G
      OBVIOUS
    <2>2. QED
      BY <2>1, FS_Subset, FS_CardinalityType
  <1>3. ASSUME NEW d \in G, NEW e \in G, <<d, e>> \in R
        PROVE  Cardinality(B(d)) < Cardinality(B(e))
    <2>1. B(d) \subseteq B(e) /\ d \in B(e) /\ d \notin B(d)
      BY <1>3
    <2>2. IsFiniteSet(B(e)) /\ Cardinality(B(d)) \in Nat /\ Cardinality(B(e)) \in Nat
      BY <1>2
    <2> HIDE DEF B
    <2>3. Cardinality(B(d)) <= Cardinality(B(e)) /\ Cardinality(B(d)) # Cardinality(B(e))
      BY <2>1, <2>2, FS_Subset
    <2>4. QED
      BY <2>2, <2>3
  <1>4. ASSUME NEW d \in G
        PROVE  Cardinality(B(d)) < m
    <2>1. B(d) \subseteq G /\ d \notin B(d)
      OBVIOUS
    <2>2. Cardinality(B(d)) \in Nat
      BY <1>2
    <2> HIDE DEF B
    <2>3. Cardinality(B(d)) <= m /\ Cardinality(B(d)) # m
      BY <2>1, FS_Subset
    <2>4. QED
      BY <1>1, <2>2, <2>3
  <1> HIDE DEF B
  <1>5. first = {d \in G : Cardinality(B(d)) < n}
    BY <1>0 DEF B, Leaders
  <1>6. place \in Injection(G, 0..(m - 1))
    <2>1. \A d \in G : place[d] = Cardinality(B(d)) /\ place[d] \in 0..(m - 1)
      BY <1>1, <1>2, <1>4
    <2>2. ASSUME NEW d \in G, NEW e \in G, place[d] = place[e]
          PROVE  d = e
      <3>1. Cardinality(B(d)) = Cardinality(B(e)) /\ Cardinality(B(d)) \in Nat
        BY <1>2, <2>2
      <3>2. <<d, e>> \notin R /\ <<e, d>> \notin R
        BY <1>3, <3>1
      <3>3. QED
        BY <3>2
    <2>3. place \in [G -> 0..(m - 1)]
      BY <2>1
    <2>4. QED
      BY <2>2, <2>3 DEF Injection, IsInjective
  <1>7. IsFiniteSet(0..(m - 1)) /\ Cardinality(0..(m - 1)) = m
    BY <1>1, Below
  <1>8. place \in Surjection(G, 0..(m - 1))
    BY <1>6, <1>7, FS_Injection
  <1> DEFINE k == IF m < n THEN m ELSE n
             among == [d \in first |-> place[d]]
  <1>9. k \in Nat /\ k <= m /\ k <= n
    BY <1>1
  <1>10. among \in Injection(first, 0..(k - 1))
    <2>1. ASSUME NEW d \in first
          PROVE  d \in G /\ place[d] \in 0..(k - 1) /\ among[d] = place[d]
      <3>1. d \in G /\ Cardinality(B(d)) < n /\ Cardinality(B(d)) \in Nat /\ Cardinality(B(d)) < m
        BY <1>2, <1>4, <1>5
      <3>2. QED
        BY <1>1, <3>1
    <2>2. among \in [first -> 0..(k - 1)]
      <3> HIDE DEF k, place
      <3>1. QED
        BY <2>1
    <2>3. \A d, e \in first : among[d] = among[e] => d = e
      <3> HIDE DEF k, place, among
      <3>1. QED
        BY <1>6, <2>1 DEF Injection, IsInjective
    <2>4. QED
      BY <2>2, <2>3 DEF Injection, IsInjective
  <1>11. \A i \in 0..(k - 1) : \E d \in first : among[d] = i
    <2>1. SUFFICES ASSUME NEW i \in 0..(k - 1) PROVE \E d \in first : among[d] = i
      OBVIOUS
    <2>2. i \in 0..(m - 1) /\ i < n
      BY <1>1, <1>9
    <2>3. PICK d \in G : place[d] = i
      <3> HIDE DEF k, place, among
      <3>1. QED
        BY <1>8, <2>2 DEF Surjection
    <2>4. d \in first
      BY <1>5, <2>2, <2>3
    <2>5. QED
      BY <2>3, <2>4
  <1>12. IsFiniteSet(0..(k - 1)) /\ Cardinality(0..(k - 1)) = k
    BY <1>9, Below
  <1> HIDE DEF k, place, among
  <1>13. among \in Surjection(first, 0..(k - 1))
    BY <1>10, <1>11 DEF Surjection, Injection
  <1>14. IsFiniteSet(first) /\ Cardinality(first) = k
    BY <1>10, <1>12, <1>13, FS_Injection
  <1>15. ASSUME NEW d \in first, NEW e \in G \ first
         PROVE  <<d, e>> \in R
    <2>1. d \in G /\ d # e /\ Cardinality(B(d)) < n /\ ~(Cardinality(B(e)) < n)
      BY <1>5
    <2>2. Cardinality(B(d)) \in Nat /\ Cardinality(B(e)) \in Nat
      BY <1>2, <2>1
    <2>3. <<e, d>> \notin R
      BY <1>3, <2>1, <2>2
    <2>4. QED
      BY <2>1, <2>3
  <1>16. QED
    BY <1>0, <1>14, <1>15 DEF k

\* search: as many of the good chunks as there is room for, and those that
\* come first in the fused list.
LEMMA KeptIsFirst ==
    ASSUME NEW S, NEW near \in Seq(S), NEW sparse \in Seq(S), NEW usable, NEW n \in Nat,
           NEW good, good = Fused(near, sparse) \cap usable
    PROVE  /\ Kept(near, sparse, usable, n) \subseteq good
           /\ IsFiniteSet(good) /\ IsFiniteSet(Kept(near, sparse, usable, n))
           /\ Cardinality(Kept(near, sparse, usable, n)) = IF Cardinality(good) < n THEN Cardinality(good) ELSE n
           /\ \A d \in Kept(near, sparse, usable, n), e \in good \ Kept(near, sparse, usable, n) :
                Before(near, sparse, d, e)
  <1> DEFINE R == {p \in good \X good : Before(near, sparse, p[1], p[2])}
             first == Kept(near, sparse, usable, n)
  <1>1. IsFiniteSet(good)
    <2>1. IsFiniteSet(Fused(near, sparse))
      BY ElementsFinite, FS_Union DEF Fused
    <2>2. QED
      BY <2>1, FS_Subset
  <1>2. \A d, e \in good : <<d, e>> \in R <=> Before(near, sparse, d, e)
    OBVIOUS
  <1>3. first = {d \in good : Cardinality({e \in good : Before(near, sparse, e, d)}) < n}
    BY DEF Kept
  <1> HIDE DEF R, first
  <1>4. first = Leaders(good, R, n)
    <2>1. ASSUME NEW d \in good
          PROVE  {e \in good : <<e, d>> \in R} = {e \in good : Before(near, sparse, e, d)}
      BY <1>2
    <2>2. QED
      BY <1>3, <2>1 DEF Leaders
  <1>5. good \subseteq Fused(near, sparse)
    OBVIOUS
  <1>6. /\ \A d \in good : ~Before(near, sparse, d, d)
        /\ \A d, e \in good : d = e \/ Before(near, sparse, d, e) \/ Before(near, sparse, e, d)
        /\ \A c, d, e \in good : Before(near, sparse, c, d) /\ Before(near, sparse, d, e) => Before(near, sparse, c, e)
    BY <1>5, BeforeIsOrder
  <1>7. Ordered(good, R)
    BY <1>2, <1>6 DEF Ordered
  <1>8. /\ IsFiniteSet(first)
        /\ Cardinality(first) = IF Cardinality(good) < n THEN Cardinality(good) ELSE n
        /\ \A d \in first, e \in good \ first : <<d, e>> \in R
    BY <1>1, <1>4, <1>7, FirstOnes
  <1>9. first \subseteq good
    BY <1>3
  <1>10. QED
    BY <1>1, <1>2, <1>8, <1>9 DEF first

---------------------------------------------------------------------------
(* The search                                                              *)

\* The collection and the index hold chunks of the knowledge base.
KbOK ==
    /\ base \subseteq Docs
    /\ index = NoIndex \/ index \subseteq Docs
    /\ at = "ranking" => index \subseteq Docs

LEMMA StepKb == KbOK /\ [Next]_vars => KbOK'
  <1> SUFFICES ASSUME KbOK, [Next]_vars PROVE KbOK'
    OBVIOUS
  <1> USE DEF KbOK, kb, message, ranking
  <1>1. CASE UNCHANGED vars
    BY <1>1 DEF vars
  <1>2. CASE Preload \/ GetIndex
    BY <1>2 DEF Preload, GetIndex
  <1>3. ASSUME NEW docs \in SUBSET Docs, NEW reset \in BOOLEAN, Ingest(docs, reset)
        PROVE  KbOK'
    BY <1>3 DEF Ingest
  <1>4. CASE ByRule \/ Understand \/ Start \/ SearchFails
    BY <1>4 DEF ByRule, Understand, Start, SearchFails, Raise
  <1>5. CASE SearchBasic \/ Search \/ Rerank \/ Unsure
    BY <1>5 DEF SearchBasic, Search, Rerank, Unsure, Replies
  <1>6. ASSUME NEW outcome \in {"answer", "status", "unreachable"}, Ask(outcome)
        PROVE  KbOK'
    BY <1>6 DEF Ask, Replies, Raise
  <1>7. QED
    BY <1>1, <1>2, <1>3, <1>4, <1>5, <1>6 DEF Next

LEMMA SearchKeeps ==
    ASSUME KbOK, Search
    PROVE  NearestIsCandidate'
  <1> SUFFICES ASSUME at' = "reranking", dense' # <<>>, dense'[1] \in index,
                      ~(Rank(distance'.order, dense'[1]) > distance'.relevant)
               PROVE  dense'[1] \in hits'
    BY DEF NearestIsCandidate, Search, kb
  <1>1. PICK d \in Measures, near \in Orders(base) :
          /\ distance' = d /\ dense' = DenseRanking(near)
          /\ \E best \in Orders(Matching) :
               hits' = Kept(dense', First(best, PerList),
                            {h \in index : Rank(d.order, h) <= d.relevant}, CandidateCount)
    BY DEF Search
  <1>2. PICK best \in Orders(Matching) :
          hits' = Kept(dense', First(best, PerList),
                       {h \in index : Rank(d.order, h) <= d.relevant}, CandidateCount)
    BY <1>1
  <1>3. PICK order \in Orders(Docs), relevant \in 0..Cardinality(Docs) :
          order = d.order /\ relevant = d.relevant
    BY DEF Measures
  <1> DEFINE usable == {h \in index : Rank(order, h) <= relevant}
             sparse == First(best, PerList)
  <1>4. PerList \in Nat /\ CandidateCount \in Nat /\ PerList <= CandidateCount
    <2>1. mode = "advanced"
      BY DEF Search
    <2>2. QED
      BY <2>1, RankAssumption, TopAssumption DEF CandidateCount
  <1>5. dense' \in Seq(base) /\ Distinct(dense') /\ Len(dense') <= PerList
    <2>1. IsFiniteSet(base)
      BY DocAssumption, FS_Subset DEF KbOK
    <2>2. QED
      BY <1>1, <1>4, <2>1, OrderRanks, FirstOf DEF DenseRanking
  <1>6. dense' \in Seq(Docs) /\ dense'[1] \in Docs
    BY <1>5 DEF KbOK
  <1>7. Rank(order, dense'[1]) \in Nat /\ relevant \in Nat
    BY <1>6, DocAssumption, FS_CardinalityType, OrderRanks
  <1>8. dense'[1] \in usable
    BY <1>1, <1>3, <1>7
  <1>9. sparse \in Seq(Docs)
    <2>1. Matching \subseteq Docs /\ IsFiniteSet(Matching)
      BY DocAssumption, FS_Subset DEF KbOK, Search, Matching
    <2>2. best \in Seq(Matching) /\ Distinct(best)
      BY <2>1, OrderRanks
    <2>3. sparse \in Seq(Matching)
      BY <1>4, <2>2, FirstOf
    <2>4. QED
      BY <2>1, <2>3
  <1>10. Len(dense') <= CandidateCount
    BY <1>4, <1>5
  <1>11. PICK front : front = dense'
    OBVIOUS
  <1>12. front[1] \in Kept(front, sparse, usable, CandidateCount)
    BY <1>4, <1>5, <1>6, <1>8, <1>9, <1>10, <1>11, NearestKept
  <1>13. QED
    BY <1>2, <1>3, <1>11, <1>12

LEMMA StepNearest == KbOK /\ NearestIsCandidate /\ [Next]_vars => NearestIsCandidate'
  <1> SUFFICES ASSUME KbOK, NearestIsCandidate, [Next]_vars PROVE NearestIsCandidate'
    OBVIOUS
  <1>1. CASE UNCHANGED vars
    BY <1>1 DEF NearestIsCandidate, vars, kb, ranking
  <1>2. CASE at' # "reranking"
    BY <1>2 DEF NearestIsCandidate
  <1>3. CASE Search
    BY <1>3, SearchKeeps
  <1>4. QED
    BY <1>1, <1>2, <1>3
    DEF Next, Preload, ByRule, Understand, Start, SearchFails, Raise, GetIndex, SearchBasic, Rerank, Unsure, Replies, Ingest, Ask

\* search, CANDIDATES_PER_LIST, RERANK_CANDIDATES: the nearest relevant chunk
\* that the index knows is a candidate of the reranker.
THEOREM NearestInvariant == Spec => []NearestIsCandidate
  <1>1. Init => KbOK /\ NearestIsCandidate
    BY DEF Init, KbOK, NearestIsCandidate
  <1>2. QED
    BY <1>1, StepKb, StepNearest, PTL DEF Spec

\* What the models of the LLM may be given: chunks of the knowledge base that
\* are relevant, and no more of them than there is room for.
HitsFit ==
    at \in {"reranking", "found"} =>
        /\ hits \subseteq Docs
        /\ Cardinality(hits) <= IF at = "found" THEN TopK ELSE CandidateCount
        /\ \A h \in hits : Rank(distance.order, h) <= distance.relevant

\* Only the hybrid search and the reranker's get that far.
ModeOK == mode \in {"basic", "hybrid", "advanced"} /\ (at = "ranking" => mode # "basic")

LEMMA SearchFits ==
    ASSUME KbOK, ModeOK, Search
    PROVE  HitsFit'
  <1>1. PICK d \in Measures, near \in Orders(base) :
          /\ distance' = d /\ dense' = DenseRanking(near)
          /\ \E best \in Orders(Matching) :
               hits' = Kept(dense', First(best, PerList),
                            {h \in index : Rank(d.order, h) <= d.relevant}, CandidateCount)
    BY DEF Search
  <1>2. PICK best \in Orders(Matching) :
          hits' = Kept(dense', First(best, PerList),
                       {h \in index : Rank(d.order, h) <= d.relevant}, CandidateCount)
    BY <1>1
  <1>3. at = "ranking" /\ index \subseteq Docs /\ base \subseteq Docs /\ mode' = mode
    BY DEF Search, KbOK, kb
  <1>4. PICK usable, sparse, front, n :
          /\ usable = {h \in index : Rank(d.order, h) <= d.relevant}
          /\ sparse = First(best, PerList) /\ front = dense' /\ n = CandidateCount
    OBVIOUS
  <1>5. PerList \in Nat /\ n \in Nat
    BY <1>4, RankAssumption, TopAssumption DEF CandidateCount
  <1>6. front \in Seq(Docs)
    <2>1. IsFiniteSet(base)
      BY <1>3, DocAssumption, FS_Subset
    <2>2. near \in Seq(base) /\ Distinct(near)
      BY <2>1, OrderRanks
    <2>3. First(near, PerList) \in Seq(base)
      BY <1>5, <2>2, FirstOf
    <2>4. QED
      BY <1>1, <1>3, <1>4, <2>3 DEF DenseRanking
  <1>7. sparse \in Seq(Docs)
    <2>1. Matching \subseteq Docs /\ IsFiniteSet(Matching)
      BY <1>3, DocAssumption, FS_Subset DEF Matching
    <2>2. best \in Seq(Matching) /\ Distinct(best)
      BY <2>1, OrderRanks
    <2>3. sparse \in Seq(Matching)
      BY <1>4, <1>5, <2>2, FirstOf
    <2>4. QED
      BY <2>1, <2>3
  <1>8. PICK good : good = Fused(front, sparse) \cap usable
    OBVIOUS
  <1>9. /\ Kept(front, sparse, usable, n) \subseteq good /\ IsFiniteSet(good)
        /\ Cardinality(Kept(front, sparse, usable, n)) = IF Cardinality(good) < n THEN Cardinality(good) ELSE n
    BY <1>5, <1>6, <1>7, <1>8, KeptIsFirst
  <1>10. hits' = Kept(front, sparse, usable, n)
    BY <1>2, <1>4
  <1>11. hits' \subseteq usable /\ Cardinality(hits') <= n
    <2>1. Cardinality(good) \in Nat
      BY <1>9, FS_CardinalityType
    <2>2. QED
      BY <1>5, <1>8, <1>9, <1>10, <2>1
  <1>12. CandidateCount' = CandidateCount
    BY <1>3 DEF CandidateCount
  <1>13. at' = "found" => n <= TopK
    <2>1. at' = "found" => mode = "hybrid"
      BY <1>3 DEF Search, ModeOK
    <2>2. mode = "hybrid" => CandidateCount = TopK
      BY DEF CandidateCount
    <2>3. QED
      BY <1>4, <1>5, <2>1, <2>2
  <1>14. hits' \subseteq Docs /\ \A h \in hits' : Rank(distance'.order, h) <= distance'.relevant
    BY <1>1, <1>3, <1>4, <1>11
  <1>15. Cardinality(hits') <= (IF at' = "found" THEN TopK ELSE CandidateCount')
    <2>1. Cardinality(hits') \in Nat
      BY <1>9, <1>10, FS_Subset, FS_CardinalityType
    <2>2. TopK \in Nat
      BY TopAssumption
    <2>3. CASE at' = "found"
      BY <1>5, <1>11, <1>13, <2>1, <2>2, <2>3
    <2>4. CASE at' # "found"
      BY <1>4, <1>11, <1>12, <2>4
    <2>5. QED
      BY <2>3, <2>4
  <1>16. QED
    BY <1>14, <1>15 DEF HitsFit

LEMMA SearchBasicFits ==
    ASSUME KbOK, SearchBasic
    PROVE  HitsFit'
  <1>1. PICK d \in Measures, near \in Orders(base) :
          /\ distance' = d /\ dense' = First(near, TopK)
          /\ hits' = {h \in Elements(dense') : Rank(d.order, h) <= d.relevant}
    BY DEF SearchBasic
  <1>2. IsFiniteSet(base) /\ base \subseteq Docs /\ TopK \in Nat
    BY DocAssumption, TopAssumption, FS_Subset DEF KbOK
  <1>3. near \in Seq(base) /\ Distinct(near)
    BY <1>2, OrderRanks
  <1>4. PICK front : front = dense'
    OBVIOUS
  <1>5. front \in Seq(base) /\ Len(front) <= TopK
    BY <1>1, <1>2, <1>3, <1>4, FirstOf
  <1>6. IsFiniteSet(Elements(front)) /\ Cardinality(Elements(front)) <= Len(front) /\ Elements(front) \subseteq Docs
    <2>1. Elements(front) \subseteq base
      BY <1>5 DEF Elements
    <2>2. QED
      BY <1>2, <1>5, <2>1, ElementsFinite
  <1>7. hits' \subseteq Elements(front) /\ \A h \in hits' : Rank(distance'.order, h) <= distance'.relevant
    BY <1>1, <1>4
  <1>8. Cardinality(hits') <= TopK
    <2>1. /\ Cardinality(hits') \in Nat /\ Cardinality(Elements(front)) \in Nat /\ Len(front) \in Nat
          /\ Cardinality(hits') <= Cardinality(Elements(front))
      BY <1>5, <1>6, <1>7, FS_Subset, FS_CardinalityType
    <2>2. QED
      BY <1>2, <1>5, <1>6, <2>1
  <1>9. at' = "found"
    BY DEF SearchBasic
  <1>10. QED
    BY <1>6, <1>7, <1>8, <1>9 DEF HitsFit

LEMMA RerankFits ==
    ASSUME HitsFit, Rerank
    PROVE  HitsFit'
  <1>1. PICK best \in SUBSET hits :
          /\ Cardinality(best) = (IF Cardinality(hits) < TopK THEN Cardinality(hits) ELSE TopK)
          /\ hits' = best
    BY DEF Rerank
  <1>2. at' = "found" /\ distance' = distance
    BY DEF Rerank, ranking
  <1>3. hits \subseteq Docs /\ \A h \in hits : Rank(distance.order, h) <= distance.relevant
    BY DEF Rerank, HitsFit
  <1>4. Cardinality(hits) \in Nat /\ TopK \in Nat
    BY <1>3, DocAssumption, TopAssumption, FS_Subset, FS_CardinalityType
  <1>5. Cardinality(hits') <= TopK
    BY <1>1, <1>4
  <1>6. QED
    BY <1>1, <1>2, <1>3, <1>5 DEF HitsFit

LEMMA StepMode == ModeOK /\ [Next]_vars => ModeOK'
  <1> SUFFICES ASSUME ModeOK, [Next]_vars PROVE ModeOK'
    OBVIOUS
  <1>1. mode' = mode /\ (at' = "ranking" => at = "ranking" \/ mode # "basic")
    BY DEF Next, vars, kb, Preload, ByRule, Understand, Start, SearchFails, Raise, GetIndex, SearchBasic, Search,
           Rerank, Unsure, Replies, Ingest, Ask
  <1>2. QED
    BY <1>1 DEF ModeOK

LEMMA StepHits == KbOK /\ ModeOK /\ HitsFit /\ [Next]_vars => HitsFit'
  <1> SUFFICES ASSUME KbOK, ModeOK, HitsFit, [Next]_vars PROVE HitsFit'
    OBVIOUS
  <1>1. CASE at' = at /\ hits' = hits /\ distance' = distance /\ mode' = mode
    BY <1>1 DEF HitsFit, CandidateCount
  <1>2. CASE at' \notin {"reranking", "found"}
    BY <1>2 DEF HitsFit
  <1>3. CASE Search
    BY <1>3, SearchFits
  <1>4. CASE SearchBasic
    BY <1>4, SearchBasicFits
  <1>5. CASE Rerank
    BY <1>5, RerankFits
  <1>6. CASE UNCHANGED vars
    BY <1>1, <1>6 DEF vars, kb, ranking
  <1>7. ASSUME NEW docs \in SUBSET Docs, NEW reset \in BOOLEAN, Ingest(docs, reset)
        PROVE  HitsFit'
    BY <1>1, <1>7 DEF Ingest, ranking
  <1>8. ASSUME NEW outcome \in {"answer", "status", "unreachable"}, Ask(outcome)
        PROVE  HitsFit'
    BY <1>1, <1>2, <1>8 DEF Ask, Replies, Raise, ranking, kb
  <1>9. QED
    BY <1>2, <1>3, <1>4, <1>5, <1>6, <1>7, <1>8
    DEF Next, Preload, ByRule, Understand, Start, SearchFails, Raise, GetIndex, Unsure, Replies

\* search_basic, search, rerank, MAX_RELEVANT_DISTANCE, top_k: whatever the
\* mode and whatever is ingested meanwhile, the LLM is given at most TopK
\* chunks, each of them relevant.
THEOREM HitsInvariant == Spec => []HitsFit
  <1>1. Init => KbOK /\ ModeOK /\ HitsFit
    BY DEF Init, KbOK, ModeOK, HitsFit
  <1>2. QED
    BY <1>1, StepKb, StepMode, StepHits, PTL DEF Spec

---------------------------------------------------------------------------
(* The message                                                             *)

\* The earlier messages are a sequence, and the session keeps the end of it.
PastOK == past \in Seq(Texts) /\ since \in 1..(Len(past) + 1)

LEMMA InitPast == Init => PastOK
  <1> SUFFICES ASSUME Init PROVE PastOK
    OBVIOUS
  <1>1. PICK n \in 0..MaxPast : past \in [1..n -> Texts]
    BY DEF Init
  <1>2. n \in Nat /\ past \in Seq(Texts)
    BY <1>1
  <1>3. QED
    BY <1>2 DEF Init, PastOK

LEMMA StepPast == PastOK /\ [Next]_vars => PastOK'
  <1> SUFFICES ASSUME PastOK, [Next]_vars PROVE PastOK'
    OBVIOUS
  <1>1. CASE Start
    <2>1. past' = <<>> /\ since' = 1
      BY <1>1 DEF Start
    <2>2. <<>> \in Seq(Texts) /\ Len(<<>>) = 0
      OBVIOUS
    <2>3. QED
      BY <2>1, <2>2 DEF PastOK
  <1>2. CASE past' = past /\ since' = since
    BY <1>2 DEF PastOK
  <1>3. QED
    BY <1>1, <1>2
    DEF Next, vars, message, Preload, ByRule, Understand, SearchFails, Raise, GetIndex, SearchBasic, Search, Rerank,
        Unsure, Replies, Ingest, Ask

\* The messages from a to b, as a sequence of their own.
LEMMA Window ==
    ASSUME PastOK, NEW a \in 1..(Len(past) + 1), NEW b \in 0..Len(past), a <= b + 1
    PROVE  /\ Len(SubSeq(past, a, b)) = b - a + 1
           /\ DOMAIN SubSeq(past, a, b) = 1..(b - a + 1)
           /\ \A x \in 1..(b - a + 1) : SubSeq(past, a, b)[x] = past[a + x - 1]
  <1>1. past \in Seq(Texts) /\ Len(past) \in Nat
    BY DEF PastOK
  <1>2. a \in Nat /\ b \in Nat
    BY <1>1
  <1>3. QED
    BY <1>1, <1>2

\* What max(...) chooses in both rules: the last index of a set of them.
LEMMA LastOf ==
    ASSUME NEW n \in Nat, NEW I \in SUBSET (1..n), I # {}
    PROVE  \E i \in I : \A j \in I : j <= i
  <1> DEFINE D == {n - i : i \in I}
  <1>1. D # {} /\ \A d \in D : d \in Nat
    <2>1. \A i \in I : i \in 1..n
      OBVIOUS
    <2>2. \A i \in I : n - i \in Nat
      BY <2>1
    <2>3. \E i \in I : n - i \in D
      OBVIOUS
    <2>4. QED
      BY <2>2, <2>3
  <1>2. PICK d \in D : \A e \in D : d <= e
    <2>1. PICK S : S = D
      OBVIOUS
    <2> HIDE DEF D
    <2>2. S \in SUBSET Nat /\ S # {}
      BY <1>1, <2>1
    <2>3. \E d \in S : \A e \in S : d <= e
      <3>1. PICK R : R = OpToRel(<, Nat)
        OBVIOUS
      <3>2. IsWellFoundedOn(R, Nat)
        BY <3>1, NatLessThanWellFounded
      <3>3. PICK d \in S : \A e \in S : <<e, d>> \notin R
        BY <2>2, <3>2, WFMin
      <3>4. \A e \in Nat : e < d => <<e, d>> \in R
        BY <2>2, <3>1 DEF OpToRel
      <3>5. ASSUME NEW e \in S
            PROVE  d <= e
        <4>1. d \in Nat /\ e \in Nat /\ ~(e < d)
          BY <2>2, <3>3, <3>4
        <4>2. QED
          BY <4>1
      <3>6. QED
        BY <3>5
    <2>4. QED
      BY <2>1, <2>3
  <1>3. PICK i \in I : d = n - i
    BY <1>2
  <1>4. ASSUME NEW j \in I
        PROVE  j <= i
    <2>1. n - j \in D
      OBVIOUS
    <2>2. d <= n - j
      BY <1>2, <2>1
    <2>3. i \in Nat /\ j \in Nat
      OBVIOUS
    <2>4. QED
      BY <1>3, <2>2, <2>3
  <1>5. QED
    BY <1>4

\* _build_retrieval_query: a follow-up is preceded by the last message that
\* is none.
LEMMA SearchedBehind ==
    ASSUME NEW p, NEW n \in Nat, DOMAIN p = 1..n, NEW t
    PROVE  \/ /\ RetrievalQuery(p, t) = t
              /\ FollowUp(t) => \A i \in 1..n : FollowUp(p[i])
           \/ \E i \in 1..n :
                /\ RetrievalQuery(p, t) = p[i] \o t /\ ~FollowUp(p[i])
                /\ \A j \in (i + 1)..n : FollowUp(p[j])
  <1> DEFINE alone == {i \in DOMAIN p : ~FollowUp(p[i])}
  <1>1. CASE ~(FollowUp(t) /\ alone # {})
    BY <1>1 DEF RetrievalQuery
  <1>2. CASE FollowUp(t) /\ alone # {}
    <2> DEFINE k == CHOOSE i \in alone : \A j \in alone : j <= i
    <2>1. alone \in SUBSET (1..n)
      OBVIOUS
    <2>2. \E i \in alone : \A j \in alone : j <= i
      <3> HIDE DEF alone
      <3>1. QED
        BY <1>2, <2>1, LastOf
    <2>3. k \in alone /\ \A j \in alone : j <= k
      <3> HIDE DEF alone
      <3>1. QED
        BY <2>2
    <2>4. RetrievalQuery(p, t) = p[k] \o t
      BY <1>2 DEF RetrievalQuery
    <2>5. k \in 1..n /\ ~FollowUp(p[k])
      BY <2>1, <2>3
    <2>6. ASSUME NEW j \in (k + 1)..n
          PROVE  FollowUp(p[j])
      <3> HIDE DEF k
      <3>1. j \in DOMAIN p /\ ~(j <= k)
        BY <2>5
      <3>2. j \notin alone
        BY <2>3, <3>1
      <3>3. QED
        BY <3>1, <3>2
    <2> HIDE DEF k
    <2>7. QED
      BY <2>4, <2>5, <2>6
  <1>3. QED
    BY <1>1, <1>2

\* The same of the messages from a to b.
BehindOne(a, b, t, q) ==
    \E k \in a..b : q = past[k] \o t /\ ~FollowUp(past[k]) /\ \A j \in (k + 1)..b : FollowUp(past[j])

LEMMA SearchedWithin ==
    ASSUME PastOK, NEW a \in 1..(Len(past) + 1), NEW b \in 0..Len(past), a <= b + 1, NEW t, FollowUp(t)
    PROVE  \/ RetrievalQuery(SubSeq(past, a, b), t) = t /\ \A k \in a..b : FollowUp(past[k])
           \/ BehindOne(a, b, t, RetrievalQuery(SubSeq(past, a, b), t))
  <1> DEFINE n == b - a + 1
             q == RetrievalQuery(SubSeq(past, a, b), t)
  <1>0. Len(past) \in Nat
    BY DEF PastOK
  <1>1. n \in Nat /\ a \in Nat /\ b \in Nat
    BY <1>0
  <1>2. PICK p : p = SubSeq(past, a, b)
    OBVIOUS
  <1>3. DOMAIN p = 1..n /\ \A x \in 1..n : p[x] = past[a + x - 1]
    BY <1>2, Window
  <1>4. \A k \in a..b : k - a + 1 \in 1..n /\ p[k - a + 1] = past[k]
    <2> SUFFICES ASSUME NEW k \in a..b PROVE k - a + 1 \in 1..n /\ p[k - a + 1] = past[k]
      OBVIOUS
    <2>1. k - a + 1 \in 1..n /\ a + (k - a + 1) - 1 = k
      BY <1>1
    <2>2. QED
      BY <1>3, <2>1
  <1> HIDE DEF n
  <1>5. CASE q = t /\ \A i \in 1..n : FollowUp(p[i])
    <2>1. \A k \in a..b : FollowUp(past[k])
      BY <1>4, <1>5
    <2>2. QED
      BY <1>5, <2>1
  <1>6. ASSUME NEW i \in 1..n, q = p[i] \o t, ~FollowUp(p[i]), \A j \in (i + 1)..n : FollowUp(p[j])
        PROVE  BehindOne(a, b, t, q)
    <2>1. PICK k : k = a + i - 1
      OBVIOUS
    <2>2. k \in a..b /\ p[i] = past[k]
      BY <1>1, <1>3, <2>1 DEF n
    <2>3. ASSUME NEW j \in (k + 1)..b
          PROVE  FollowUp(past[j])
      <3>1. j \in a..b /\ j - a + 1 \in (i + 1)..n
        BY <1>1, <2>1, <2>2 DEF n
      <3>2. QED
        BY <1>4, <1>6, <3>1
    <2> HIDE DEF q
    <2>4. QED
      BY <1>6, <2>2, <2>3 DEF BehindOne
  <1>7. QED
    <2>1. \/ q = t /\ (FollowUp(t) => \A i \in 1..n : FollowUp(p[i]))
          \/ \E i \in 1..n : q = p[i] \o t /\ ~FollowUp(p[i]) /\ \A j \in (i + 1)..n : FollowUp(p[j])
      BY <1>1, <1>2, <1>3, SearchedBehind
    <2> HIDE DEF q
    <2>2. QED
      BY <2>1, <1>5, <1>6 DEF q

\* Two follow-ups in a row agree on the subject, or it was dropped in between.
LEMMA SameSubject ==
    ASSUME PastOK, FollowUp(text), NEW i \in DOMAIN past, NEW e \in 1..i, e <= since,
           \A j \in i..Len(past) : FollowUp(past[j]), NEW q, q = RetrievalQuery(Remembered, text)
    PROVE  \/ \E k \in since..(i - 1) : q = past[k] \o text /\ Searched(i, e) = past[k] \o past[i]
           \/ /\ q = text
              /\ \/ Searched(i, e) = past[i]
                 \/ \E k \in e..(since - 1) : Searched(i, e) = past[k] \o past[i]
  <1>1. Len(past) \in Nat /\ i \in 1..Len(past) /\ since \in 1..(Len(past) + 1) /\ FollowUp(past[i])
    BY DEF PastOK
  <1>2. PICK f : f = Searched(i, e)
    OBVIOUS
  <1>3. \/ q = text /\ \A k \in since..Len(past) : FollowUp(past[k])
        \/ BehindOne(since, Len(past), text, q)
    BY <1>1, SearchedWithin DEF Remembered
  <1>4. \/ f = past[i] /\ \A k \in e..(i - 1) : FollowUp(past[k])
        \/ BehindOne(e, i - 1, past[i], f)
    <2>1. e \in 1..(Len(past) + 1) /\ i - 1 \in 0..Len(past) /\ e <= (i - 1) + 1
      BY <1>1
    <2>2. QED
      BY <1>1, <1>2, <2>1, SearchedWithin DEF Searched
  <1>5. CASE q = text /\ \A k \in since..Len(past) : FollowUp(past[k])
    <2>1. CASE f = past[i]
      BY <1>2, <1>5, <2>1
    <2>2. ASSUME NEW l \in e..(i - 1), f = past[l] \o past[i], ~FollowUp(past[l])
          PROVE  l \in e..(since - 1)
      <3>1. l \notin since..Len(past)
        BY <1>5, <2>2
      <3>2. QED
        BY <1>1, <3>1
    <2>3. QED
      BY <1>2, <1>4, <1>5, <2>1, <2>2 DEF BehindOne
  <1>6. ASSUME NEW k \in since..Len(past), q = past[k] \o text, ~FollowUp(past[k]),
               \A j \in (k + 1)..Len(past) : FollowUp(past[j])
        PROVE  k \in since..(i - 1) /\ f = past[k] \o past[i]
    <2>1. k \notin i..Len(past)
      BY <1>6
    <2>2. k \in since..(i - 1) /\ k \in e..(i - 1)
      BY <1>1, <2>1
    <2>3. PICK l \in e..(i - 1) : /\ f = past[l] \o past[i] /\ ~FollowUp(past[l])
                                  /\ \A j \in (l + 1)..(i - 1) : FollowUp(past[j])
      BY <1>4, <1>6, <2>2 DEF BehindOne
    <2>4. ~(k < l) /\ ~(l < k)
      <3>1. k < l => l \in (k + 1)..Len(past)
        BY <1>1, <2>2
      <3>2. l < k => k \in (l + 1)..(i - 1)
        BY <1>1, <2>2
      <3>3. QED
        BY <1>6, <2>3, <3>1, <3>2
    <2>5. k = l
      BY <1>1, <2>2, <2>4
    <2>6. QED
      BY <2>2, <2>3, <2>5
  <1>7. QED
    BY <1>2, <1>3, <1>5, <1>6 DEF BehindOne

LEMMA StepSubject == PastOK /\ SubjectKept /\ [Next]_vars => SubjectKept'
  <1> SUFFICES ASSUME PastOK, SubjectKept, [Next]_vars PROVE SubjectKept'
    OBVIOUS
  <1>1. CASE UNCHANGED vars
    <2>1. at' = at /\ past' = past /\ since' = since /\ text' = text /\ query' = query
      BY <1>1 DEF vars, message
    <2>2. QED
      BY <2>1 DEF SubjectKept, Searched
  <1>2. CASE Understand
    <2>1. past' = past /\ since' = since /\ text' = text /\ query' = RetrievalQuery(Remembered, text)
      BY <1>2 DEF Understand, message
    <2>2. PICK q : q = RetrievalQuery(Remembered, text)
      OBVIOUS
    <2>3. ASSUME FollowUp(text), NEW i \in DOMAIN past, NEW e \in 1..i, e <= since,
                 \A j \in i..Len(past) : FollowUp(past[j])
          PROVE  \/ \E k \in since..(i - 1) : q = past[k] \o text /\ Searched(i, e) = past[k] \o past[i]
                 \/ /\ q = text
                    /\ \/ Searched(i, e) = past[i]
                       \/ \E k \in e..(since - 1) : Searched(i, e) = past[k] \o past[i]
      BY <2>2, <2>3, SameSubject
    <2>4. query' = q
      BY <2>1, <2>2
    <2>5. \A i, e : Searched(i, e)' = Searched(i, e)
      BY <2>1 DEF Searched
    <2>6. QED
      BY <2>1, <2>3, <2>4, <2>5 DEF SubjectKept
  <1>3. CASE at' # "understood"
    BY <1>3 DEF SubjectKept
  <1>4. QED
    BY <1>1, <1>2, <1>3
    DEF Next, Preload, ByRule, Start, SearchFails, Raise, GetIndex, SearchBasic, Search, Rerank, Unsure, Replies, Ingest, Ask

\* _build_retrieval_query: follow-ups in a row keep one subject, until the
\* session drops the message that carries it.
THEOREM SubjectInvariant == Spec => []SubjectKept
  <1>1. Init => SubjectKept
    BY DEF Init, SubjectKept
  <1>2. QED
    BY <1>1, InitPast, StepPast, StepSubject, PTL DEF Spec

\* _conversation_language: the last text decides, in its own language.
LEMMA LastTextDecides ==
    ASSUME NEW p, NEW n \in Nat, DOMAIN p = 1..n, OnlyNumber(text), NEW i \in 1..n, ~OnlyNumber(p[i]),
           \A j \in (i + 1)..n : OnlyNumber(p[j])
    PROVE  ConversationLanguage(p, text, guess) = detect_language(p[i], guess)
  <1> DEFINE texts == {j \in DOMAIN p : ~OnlyNumber(p[j])}
             k == CHOOSE j \in texts : \A l \in texts : l <= j
  <1>1. i \in texts /\ texts # {}
    OBVIOUS
  <1>2. texts \subseteq 1..n
    OBVIOUS
  <1>3. ASSUME NEW j \in texts
        PROVE  j <= i
    <2>1. j \in 1..n /\ ~OnlyNumber(p[j])
      BY <1>2
    <2>2. j \notin (i + 1)..n
      BY <2>1
    <2>3. QED
      BY <1>2, <2>1, <2>2
  <1>4. k = i
    <2>1. k \in texts /\ \A l \in texts : l <= k
      <3> HIDE DEF texts
      <3>1. QED
        BY <1>1, <1>3
    <2>2. k <= i /\ i <= k
      BY <1>1, <1>3, <2>1
    <2>3. k \in 1..n
      BY <1>2, <2>1
    <2> HIDE DEF k
    <2>4. QED
      BY <1>2, <2>2, <2>3
  <1>5. ConversationLanguage(p, text, guess) = detect_language(p[k], guess)
    BY <1>1 DEF ConversationLanguage
  <1>6. QED
    BY <1>4, <1>5

\* Such a text is answered in the language that is detected in it.
LEMMA OwnLanguage ==
    ASSUME NEW p, NEW t, NEW g, ~OnlyNumber(t), classify(t) # "small_talk"
    PROVE  ReplyLanguage(p, t, g) = detect_language(t, g)
  <1>1. CASE classify(t) = "order_tracking"
    <2>1. ReplyLanguage(p, t, g) = ConversationLanguage(p, t, g)
      BY <1>1 DEF ReplyLanguage
    <2>2. ConversationLanguage(p, t, g) = detect_language(t, g)
      BY DEF ConversationLanguage
    <2>3. QED
      BY <2>1, <2>2
  <1>2. CASE classify(t) # "order_tracking"
    BY <1>2 DEF ReplyLanguage
  <1>3. QED
    BY <1>1, <1>2

LEMMA RuleKeepsLanguage ==
    ASSUME PastOK, ByRule
    PROVE  LanguageKept'
  <1>1. past' = past /\ since' = since /\ text' = text /\ guess' = guess
    BY DEF ByRule, message
  <1>2. reply'.kind = classify(text) /\ reply'.language = ReplyLanguage(Remembered, text, guess)
    BY DEF ByRule
  <1> SUFFICES ASSUME classify(text) = "order_tracking", OnlyNumber(text), NEW i \in since..Len(past),
                      ~OnlyNumber(past[i]), classify(past[i]) # "small_talk",
                      \A j \in (i + 1)..Len(past) : OnlyNumber(past[j])
               PROVE  reply'.language = ReplyLanguage(SubSeq(past, 1, i - 1), past[i], guess)
    BY <1>1, <1>2 DEF LanguageKept
  <1>3. ReplyLanguage(Remembered, text, guess) = ConversationLanguage(Remembered, text, guess)
    BY DEF ReplyLanguage
  <1>4. ConversationLanguage(Remembered, text, guess) = detect_language(past[i], guess)
    <2> DEFINE n == Len(past) - since + 1
    <2>1. Len(past) \in Nat /\ since \in 1..(Len(past) + 1) /\ n \in Nat /\ i - since + 1 \in 1..n
      BY DEF PastOK
    <2>2. PICK p : p = Remembered
      OBVIOUS
    <2>3. DOMAIN p = 1..n /\ \A x \in 1..n : p[x] = past[since + x - 1]
      BY <2>1, <2>2, Window DEF Remembered
    <2>4. p[i - since + 1] = past[i]
      <3>1. since + (i - since + 1) - 1 = i
        BY <2>1
      <3>2. QED
        BY <2>1, <2>3, <3>1
    <2>5. ASSUME NEW x \in ((i - since + 1) + 1)..n
          PROVE  OnlyNumber(p[x])
      <3>1. x \in 1..n /\ since + x - 1 \in (i + 1)..Len(past)
        BY <2>1
      <3>2. QED
        BY <2>3, <3>1
    <2> HIDE DEF n
    <2>6. ConversationLanguage(p, text, guess) = detect_language(p[i - since + 1], guess)
      BY <2>1, <2>3, <2>4, <2>5, LastTextDecides
    <2>7. QED
      BY <2>2, <2>4, <2>6
  <1>5. QED
    BY <1>2, <1>3, <1>4, OwnLanguage

LEMMA StepLanguage == PastOK /\ LanguageKept /\ [Next]_vars => LanguageKept'
  <1> SUFFICES ASSUME PastOK, LanguageKept, [Next]_vars PROVE LanguageKept'
    OBVIOUS
  <1>1. CASE UNCHANGED vars
    <2>1. at' = at /\ past' = past /\ since' = since /\ text' = text /\ guess' = guess /\ reply' = reply
      BY <1>1 DEF vars, message
    <2>2. QED
      BY <2>1 DEF LanguageKept
  <1>2. CASE ByRule
    BY <1>2, RuleKeepsLanguage
  <1>3. CASE at' # "replied" \/ reply'.kind # "order_tracking"
    BY <1>3 DEF LanguageKept
  <1>4. CASE Unsure
    BY <1>3, <1>4 DEF Unsure, Replies
  <1>5. ASSUME NEW outcome \in {"answer", "status", "unreachable"}, Ask(outcome)
        PROVE  LanguageKept'
    BY <1>3, <1>5 DEF Ask, Replies, Raise
  <1>6. QED
    BY <1>1, <1>2, <1>3, <1>4, <1>5
    DEF Next, Preload, Understand, Start, SearchFails, Raise, GetIndex, SearchBasic, Search, Rerank, Ingest

\* _conversation_language: an order number alone is answered in the language
\* of the customer's last text, however many numbers lie in between.
THEOREM LanguageInvariant == Spec => []LanguageKept
  <1>1. Init => LanguageKept
    BY DEF Init, LanguageKept
  <1>2. QED
    BY <1>1, InitPast, StepPast, StepLanguage, PTL DEF Spec
=============================================================================
