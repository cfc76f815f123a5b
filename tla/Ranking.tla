------------------------------ MODULE Ranking ------------------------------
(***************************************************************************)
(* The four search modes as functions of what the two retrievers return.   *)
(* A hit is a chunk; a list's order is the rank.                           *)
(***************************************************************************)
EXTENDS Naturals, Sequences, FiniteSets, SequencesExt

CONSTANTS
    KeywordOrder,   \* by query: the chunks that match it, by BM25 score
    SemanticOrder,  \* by query: all chunks, by cosine distance to it
    Relevance,      \* by query: the cross-encoder's score of each chunk
    RrfK,           \* rrf_k
    HybridPool,     \* hybrid_pool
    RerankPool      \* rerank_pool

\* The members of a finite set, as a strict total order has them.
Preceding(S, ahead, d) == {e \in S : <<e, d>> \in ahead}
Listing(S, ahead) ==
    [i \in 1..Cardinality(S) |-> CHOOSE d \in S : Cardinality(Preceding(S, ahead, d)) = i - 1]

Rank(list, d) == CHOOSE i \in DOMAIN list : list[i] = d

\* Mutant: the answer is not cut.
AllHits(hits, k) == hits
TopK(hits, k)    == SubSeq(hits, 1, IF Len(hits) < k THEN Len(hits) ELSE k)

\* Each retriever ranks what one statement sees of the corpus.
Retrieve(order, corpus, limit) ==
    LET hits == Range(order) \cap corpus
    IN  TopK(Listing(hits, {p \in hits \X hits : Rank(order, p[1]) < Rank(order, p[2])}), limit)

KeywordSearch(query, corpus, limit)  == Retrieve(KeywordOrder[query], corpus, limit)
SemanticSearch(query, corpus, limit) == Retrieve(SemanticOrder[query], corpus, limit)

\* Where a hit is first met in two lists, one after the other.
Position(first, second, d) ==
    IF d \in Range(first) THEN Rank(first, d) ELSE Len(first) + Rank(second, d)

\* The hits of both lists by descending score, equal scores as they are first met.
SortedBy(score, first, second) ==
    LET hits == Range(first) \cup Range(second)
    IN  Listing(hits, {p \in hits \X hits :
            \/ score[p[1]] > score[p[2]]
            \/ /\ score[p[1]] = score[p[2]]
               /\ Position(first, second, p[1]) < Position(first, second, p[2])})

\* 1 / (rrf_k + rank), over a common denominator.
Product[n \in Nat] == IF n = 0 THEN 1 ELSE Product[n - 1] * (RrfK + n)
Denominator        == Product[HybridPool]
Weight(list, d)    == IF d \in Range(list) THEN Denominator \div (RrfK + Rank(list, d)) ELSE 0

\* Mutant: the ranks themselves are added up.
RankIn(list, d)            == IF d \in Range(list) THEN Rank(list, d) ELSE 0
RankSum(list, other, d)    == RankIn(list, d) + RankIn(other, d)
FusedScore(list, other, d) == Weight(list, d) + Weight(other, d)

Fused(bm25, semantic) ==
    [d \in Range(bm25) \cup Range(semantic) |-> FusedScore(bm25, semantic, d)]

HybridSearch(k, bm25, semantic) == TopK(SortedBy(Fused(bm25, semantic), bm25, semantic), k)

\* Mutant: the reranker gets the fused list.
FusedOnly(query, k, bm25, semantic) ==
    TopK(SortedBy(Relevance[query], HybridSearch(k, bm25, semantic), <<>>), k)
RerankSearch(query, k, bm25, semantic) == TopK(SortedBy(Relevance[query], semantic, bm25), k)

Modes == {"keyword", "semantic", "hybrid", "rerank"}

Pool(mode, k) == CASE mode = "hybrid" -> HybridPool
                   [] mode = "rerank" -> RerankPool
                   [] OTHER -> k

\* What a search answers, from what its two statements returned.
Dispatch(query, mode, k, bm25, semantic) ==
    CASE mode = "keyword"  -> bm25
      [] mode = "semantic" -> semantic
      [] mode = "hybrid"   -> HybridSearch(k, bm25, semantic)
      [] mode = "rerank"   -> RerankSearch(query, k, bm25, semantic)

\* The answer of a search whose statements saw these two states of the corpus.
AnswerOver(query, mode, k, bm25Corpus, semanticCorpus) ==
    Dispatch(query, mode, k, KeywordSearch(query, bm25Corpus, Pool(mode, k)),
                             SemanticSearch(query, semanticCorpus, Pool(mode, k)))
=============================================================================
