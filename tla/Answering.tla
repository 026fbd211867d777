------------------------------ MODULE Answering ------------------------------
(***************************************************************************)
(* A message of a customer up to its answer: the rules of Understanding,   *)
(* and for a question the hybrid search over the knowledge base (nearest   *)
(* chunks by embedding and best ones by BM25, fused by rank, reranked) and *)
(* the two models of the LLM.  The BM25 index is built once, at start-up   *)
(* or by the first search; the script that ingests the knowledge base runs *)
(* in another process and tells nobody.  RAG_CONFIDENCE_SIGNAL is          *)
(* "cosine", the default.  The approximate index of ChromaDB is taken for  *)
(* exact: it returns the nearest chunks, in the order of their distance.   *)
(***************************************************************************)
EXTENDS Understanding, RankFusion

CONSTANTS
    Texts,              \* messages
    MaxPast,            \* earlier messages of the customer
    Docs,               \* chunks of the knowledge base
    WordsOf,            \* the words of each of them
    NoIndex,
    TopK                \* chunks that go to the LLM (4)

ASSUME DocAssumption == IsFiniteSet(Docs)
ASSUME TopAssumption == TopK \in Nat \ {0}

VARIABLES
    past, since,        \* earlier messages, the first one that the session keeps
    text, guess,        \* this one, the verdict of langdetect
    base,               \* chunks in the collection
    index,              \* chunks in the index of this process
    handle,             \* its handle on the collection: "none", "good" or "dead"
    mode,               \* RAG_RETRIEVAL_MODE, a setting
    at,                 \* where the message is
    query,              \* words that are searched
    distance,           \* the chunks by growing distance, how many are relevant, confident
    dense,              \* the nearest ones
    hits,               \* chunks kept by the search, then by the reranker
    models,             \* what the models of the LLM did, in the order they were called
    reply               \* what the customer gets, and in what language

message == <<past, since, text, guess>>
kb == <<base, index, handle, mode>>
ranking == <<distance, dense>>
vars == <<message, kb, at, query, ranking, hits, models, reply>>

Init ==
    /\ past \in UNION {[1..n -> Texts] : n \in 0..MaxPast}
    /\ since \in 1..(Len(past) + 1)
    /\ text \in Texts /\ guess \in {"fr", "en", "other"}
    /\ base \in SUBSET Docs /\ index = NoIndex /\ handle = "none"
    /\ mode \in {"basic", "hybrid", "advanced"}
    /\ at = "starting"
    /\ query = <<>> /\ hits = {} /\ models = <<>>
    /\ distance = [order |-> <<>>, relevant |-> 0, confident |-> 0] /\ dense = <<>>
    /\ reply = [kind |-> "none", language |-> "none"]

---------------------------------------------------------------------------
(* The knowledge base                                                      *)

\* _preload_rag: the server starts with the index, or without it if the mode
\* needs none or ChromaDB does not answer.
Preload ==
    /\ at = "starting" /\ at' = "received"
    /\ \/ mode # "basic" /\ index' = base /\ handle' = "good"
       \/ UNCHANGED <<index, handle>>
    /\ UNCHANGED <<message, base, mode, query, ranking, hits, models, reply>>

\* ingest_knowledge_base adds chunks; with --reset it deletes the collection
\* first, and the handle that this process keeps leads nowhere.
Ingest(docs, reset) ==
    /\ at \in {"indexing", "ranking"}
    /\ base' = IF reset THEN docs ELSE base \cup docs
    /\ handle' = IF reset /\ handle = "good" THEN "dead" ELSE handle
    /\ UNCHANGED <<message, index, mode, at, query, ranking, hits, models, reply>>

---------------------------------------------------------------------------
(* The message                                                             *)

\* get_history: a session keeps its last messages (20, replies included).
Remembered == SubSeq(past, since, Len(past))

\* The rules answer, without a search: transfer, order, small talk.
ByRule ==
    /\ at = "received" /\ classify(text) # "general"
    /\ at' = "replied"
    /\ reply' = [kind |-> classify(text), language |-> ReplyLanguage(Remembered, text, guess)]
    /\ UNCHANGED <<message, kb, query, ranking, hits, models>>

\* A question: what is searched.
Understand ==
    /\ at = "received" /\ classify(text) = "general"
    /\ at' = "understood"
    /\ query' = RetrievalQuery(Remembered, text)
    /\ UNCHANGED <<message, kb, ranking, hits, models, reply>>

\* asyncio.to_thread(retriever.search, rag_query): what follows depends on the
\* query alone, so the model keeps nothing else of the message.
Start ==
    /\ at = "understood" /\ at' = "indexing"
    /\ past' = <<>> /\ since' = 1 /\ text' = <<>> /\ guess' = "fr"
    /\ UNCHANGED <<kb, query, ranking, hits, models, reply>>

\* An exception leaves _handle_message: the route sends no answer.
Raise ==
    /\ at' = "raised"
    /\ UNCHANGED <<message, kb, query, ranking, hits, reply>>

\* ChromaDB does not answer, or the collection is not there any more.
SearchFails == at \in {"indexing", "ranking"} /\ Raise /\ UNCHANGED models

\* _get_index, in a thread: built from the collection the first time.
GetIndex ==
    /\ at = "indexing" /\ mode # "basic" /\ at' = "ranking"
    /\ \/ index # NoIndex /\ UNCHANGED <<index, handle>>
       \/ index = NoIndex /\ handle # "dead" /\ index' = base /\ handle' = "good"
    /\ UNCHANGED <<message, base, mode, query, ranking, hits, models, reply>>

Orders(S) == {s \in [1..Cardinality(S) -> S] : Distinct(s)}
First(s, n) == SubSeq(s, 1, IF Len(s) < n THEN Len(s) ELSE n)

\* The order of the chunks of the collection, by growing distance.
Follows(near, order) ==
    \A i, j \in DOMAIN near : i < j => Rank(order, near[i]) < Rank(order, near[j])

\* _dense_ranking: the nearest chunks of the collection, of either type.
DenseRanking(near) == First(near, PerList)

\* tokenize: the words that BM25 counts, without the frequent ones.
StopWords == {"le", "et", "and", "how", "my", "it"}
Tokens(t) == {t[i] : i \in DOMAIN t} \ StopWords

\* bm25_top: chunks of the index that share a word with the query, in any
\* order of their scores.
Matching == {d \in index : Tokens(query) \cap WordsOf[d] # {}}

\* Variant: as many candidates as chunks for the LLM.
CandidateCount_Few == TopK

\* search of the retriever: top_k of the hybrid search, under the reranker or
\* without it.
CandidateCount == IF mode = "hybrid" \/ TopK > Candidates THEN TopK ELSE Candidates

\* The distances of all chunks: their order, and how far they are relevant
\* (MAX_RELEVANT_DISTANCE) and confident (a threshold that is nearer).
Measures ==
    {d \in [order : Orders(Docs), relevant : 0..Cardinality(Docs), confident : 0..Cardinality(Docs)] :
        d.confident <= d.relevant}

\* search_basic: the nearest chunks of either type that are relevant.
SearchBasic ==
    /\ at = "indexing" /\ mode = "basic" /\ handle # "dead"
    /\ handle' = "good" /\ at' = "found"
    /\ \E d \in Measures, near \in Orders(base) :
         /\ Follows(near, d.order) /\ distance' = d
         /\ dense' = First(near, TopK)
         /\ hits' = {h \in Elements(dense') : Rank(d.order, h) <= d.relevant}
    /\ query' = <<>>
    /\ UNCHANGED <<message, base, index, mode, models, reply>>

\* hybrid_retriever.search: both lists, fused, without the chunks that the
\* index does not know and those farther than MAX_RELEVANT_DISTANCE.
Search ==
    /\ at = "ranking" /\ handle = "good"
    /\ at' = IF mode = "advanced" THEN "reranking" ELSE "found"
    /\ \E d \in Measures, near \in Orders(base) :
         /\ Follows(near, d.order) /\ distance' = d
         /\ dense' = DenseRanking(near)
         /\ \E best \in Orders(Matching) :
              hits' = Kept(dense', First(best, PerList),
                           {h \in index : Rank(d.order, h) <= d.relevant}, CandidateCount)
    /\ query' = <<>>
    /\ UNCHANGED <<message, kb, models, reply>>

\* rerank keeps the TopK best chunks for the cross-encoder.
Rerank ==
    /\ at = "reranking" /\ at' = "found"
    /\ \E best \in SUBSET hits :
         /\ Cardinality(best) = (IF Cardinality(hits) < TopK THEN Cardinality(hits) ELSE TopK)
         /\ hits' = best
    /\ UNCHANGED <<message, kb, query, ranking, models, reply>>

Replies(kind) ==
    /\ at' = "replied" /\ reply' = [kind |-> kind, language |-> "its"]
    /\ UNCHANGED <<message, kb, query, ranking, hits>>

\* get_best_confidence against get_confidence_threshold: the nearest of the
\* chunks that were kept decides.
Confident == \E h \in hits : Rank(distance.order, h) <= distance.confident

\* Too low, as it always is without a hit: a transfer, and no call of the LLM.
Unsure == at = "found" /\ ~Confident /\ Replies("low_rag_confidence") /\ UNCHANGED models

\* ask: the second model is tried when the first one answers with an error
\* status (rate limit, overload); a timeout or a lost connection is raised.
Ask(outcome) ==
    /\ at = "found" /\ Confident
    /\ models' = Append(models, outcome)
    /\ \/ outcome = "answer" /\ Replies("answer")
       \/ outcome = "status" /\ models = <<>> /\ UNCHANGED <<message, kb, at, query, ranking, hits, reply>>
       \/ outcome = "status" /\ models # <<>> /\ Raise
       \/ outcome = "unreachable" /\ Raise

Next ==
    \/ Preload \/ ByRule \/ Understand \/ Start \/ SearchFails \/ GetIndex \/ SearchBasic \/ Search \/ Rerank \/ Unsure
    \/ \E docs \in SUBSET Docs, reset \in BOOLEAN : Ingest(docs, reset)
    \/ \E outcome \in {"answer", "status", "unreachable"} : Ask(outcome)

Spec == Init /\ [][Next]_vars

---------------------------------------------------------------------------
(* Properties                                                              *)

\* What was searched for an earlier message, when the session went back to e.
Searched(i, e) == RetrievalQuery(SubSeq(past, e, i - 1), past[i])

\* "en remontant au-dela des suivis successifs ... toujours rattaches a": all
\* follow-ups in a row are searched with one subject, however many they are.
\* When the session has dropped the message that carries it, the next one is
\* searched alone, never with another subject.
SubjectKept ==
    at = "understood" /\ FollowUp(text) =>
        \A i \in DOMAIN past : \A e \in 1..i :
            e <= since /\ (\A j \in i..Len(past) : FollowUp(past[j])) =>
                \/ \E k \in since..(i - 1) : query = past[k] \o text /\ Searched(i, e) = past[k] \o past[i]
                \/ /\ query = text
                   /\ \/ Searched(i, e) = past[i]
                      \/ \E k \in e..(since - 1) : Searched(i, e) = past[k] \o past[i]

\* "on garde celle du message precedent du client": an order number alone is
\* answered in the language in which the customer's last text was, if the session
\* keeps it, unless that text was small talk, whose language is read off a table
\* of its own.
LanguageKept ==
    at = "replied" /\ reply.kind = "order_tracking" /\ OnlyNumber(text) =>
        \A i \in since..Len(past) :
            \/ OnlyNumber(past[i]) \/ classify(past[i]) = "small_talk"
            \/ \E j \in (i + 1)..Len(past) : ~OnlyNumber(past[j])
            \/ reply.language = ReplyLanguage(SubSeq(past, 1, i - 1), past[i], guess)

\* "assez large pour alimenter le reranker": the chunk nearest to the question,
\* if it is relevant and the index knows it, is a candidate of the reranker,
\* whatever BM25 puts forward.
NearestIsCandidate ==
    at = "reranking" /\ dense # <<>> =>
        \/ dense[1] \in hits \/ dense[1] \notin index
        \/ Rank(distance.order, dense[1]) > distance.relevant
=============================================================================
