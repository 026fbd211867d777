----------------------------- MODULE RankFusion -----------------------------
(***************************************************************************)
(* Reciprocal Rank Fusion of two lists of chunks, the nearest ones and the *)
(* best ones of BM25 (hybrid_retriever).  A score is a sum of fractions    *)
(* 1 / (K + rank), kept as a numerator and a denominator.                  *)
(***************************************************************************)
EXTENDS Naturals, Sequences, FiniteSets

CONSTANTS
    K,           \* RRF_K (60)
    PerList,     \* CANDIDATES_PER_LIST (20)
    Candidates   \* RERANK_CANDIDATES (20)

ASSUME RankAssumption == {K, PerList, Candidates} \subseteq Nat \ {0} /\ PerList <= Candidates

Elements(s) == {s[i] : i \in DOMAIN s}
Distinct(s) == \A i, j \in DOMAIN s : s[i] = s[j] => i = j

\* From 1, the best one.
Rank(s, d) == CHOOSE i \in DOMAIN s : s[i] = d

Weight(s, d) == K + Rank(s, d)

Numerator(dense, sparse, d) ==
    IF d \in Elements(dense) \cap Elements(sparse) THEN Weight(dense, d) + Weight(sparse, d) ELSE 1

Denominator(dense, sparse, d) ==
    IF d \notin Elements(sparse) THEN Weight(dense, d)
    ELSE IF d \notin Elements(dense) THEN Weight(sparse, d)
    ELSE Weight(dense, d) * Weight(sparse, d)

\* Where rrf_fuse inserts d in its dictionary: the nearest ones come first.
Place(dense, sparse, d) ==
    IF d \in Elements(dense) THEN Rank(dense, d) ELSE Len(dense) + Rank(sparse, d)

\* d comes before e in the fused list: a higher score, or an equal one and
\* inserted before (the sort is stable).
Before(dense, sparse, d, e) ==
    LET here == Numerator(dense, sparse, d) * Denominator(dense, sparse, e)
        there == Numerator(dense, sparse, e) * Denominator(dense, sparse, d)
    IN  here > there \/ (here = there /\ Place(dense, sparse, d) < Place(dense, sparse, e))

Fused(dense, sparse) == Elements(dense) \cup Elements(sparse)

\* search: the fused list without the chunks the index does not know and the
\* ones too far away, cut after n.
Kept(dense, sparse, usable, n) ==
    LET good == Fused(dense, sparse) \cap usable
    IN  {d \in good : Cardinality({e \in good : Before(dense, sparse, e, d)}) < n}
=============================================================================
