---------------------------- MODULE SearchCache ----------------------------
(***************************************************************************)
(* POST /search for one query in one mode, both part of the cache key: the *)
(* corpus version read from PostgreSQL, the Redis cache keyed by it, and   *)
(* the retrieval statements, each of which sees what is committed when it  *)
(* runs, while documents become done and the corpus is reset.              *)
(***************************************************************************)
EXTENDS Ranking, FiniteSets, FiniteSetsExt

CONSTANTS
    Docs,       \* documents, each with one chunk
    Loaded,     \* those that eval.ingest_corpus loads; a worker ingests the others
    Early,      \* those that are done when the behaviour begins
    Requests,   \* API threads
    Query,      \* the query they all ask
    K,          \* k of the request
    MaxResets,  \* bound on the resets of the corpus
    None        \* no result

ASSUME SearchAssumption ==
    /\ IsFiniteSet(Docs) /\ Loaded \subseteq Docs /\ Early \subseteq Docs
    /\ KeywordOrder[Query] \in Seq(Docs) /\ SemanticOrder[Query] \in Seq(Docs)
    /\ \A d \in Docs : Relevance[Query][d] \in Int
    /\ MaxResets \in Nat
    /\ K \in Nat \ {0} /\ {RrfK, HybridPool, RerankPool} \subseteq Nat

VARIABLES
    mode,       \* the mode of the search
    updated,    \* updated_at of each done document, 0 for the others
    flushed,    \* updated_at of documents whose done commit is under way
    clock,      \* the next timestamp
    gone,       \* documents that were reset
    resets,     \* resets so far
    cache,      \* Redis: results by corpus version
    request     \* the endpoint, as each thread executes it

vars == <<mode, updated, flushed, clock, gone, resets, cache, request>>
corpus == <<mode, updated, flushed, clock, gone, resets>>

Done == {d \in Docs : updated[d] > 0}

\* Mutant: the version is the number of documents.
CountOnly == <<Cardinality(Done), 0>>
Version   == <<Cardinality(Done), IF Done = {} THEN 0 ELSE Max({updated[d] : d \in Done})>>

\* A document's id is fresh, so it is ingested once and takes one timestamp.
Stamps   == 0..(Cardinality(Docs) + 1)
Versions == (0..Cardinality(Docs)) \X Stamps
Ranked   == SeqOf(Docs, Cardinality(Docs))
Answers  == SeqOf(Docs, K)

Request ==
    [pc : {"idle", "versioned", "missed", "first", "second", "answered"},
     version : Versions,
     bm25 : Ranked, semantic : Ranked, result : Answers \cup {None},
     seen : SUBSET SUBSET Docs]   \* history: every corpus since the request began

Fresh == [pc |-> "idle", version |-> <<0, 0>>, bm25 |-> <<>>,
          semantic |-> <<>>, result |-> None, seen |-> {}]

Init ==
    /\ mode \in Modes
    /\ updated = [d \in Docs |-> IF d \in Early THEN 1 ELSE 0]
    /\ flushed = [d \in Docs |-> 0]
    /\ clock = 2
    /\ gone = {}
    /\ resets = 0
    /\ cache = <<>>
    /\ request = [r \in Requests |-> Fresh]

-----------------------------------------------------------------------------
(* The corpus.                                                             *)

\* The session of a worker, or of eval.ingest_corpus, stamps the row, and commits
\* it later.
Flush(d) ==
    /\ updated[d] = 0 /\ flushed[d] = 0 /\ d \notin gone
    /\ flushed' = [flushed EXCEPT ![d] = clock]
    /\ clock' = clock + 1
    /\ UNCHANGED <<mode, updated, gone, resets, cache, request>>

Witnessed == {d \in Docs : updated'[d] > 0}

\* History: the requests under way have lived through this corpus too.
Witness ==
    request' = [r \in Requests |->
        IF request[r].pc \in {"idle", "answered"} THEN request[r]
        ELSE [request[r] EXCEPT !.seen = @ \cup {Witnessed}]]

\* The worker commits one document, eval.ingest_corpus all that it has loaded.
Commit(D) ==
    /\ D # {} /\ (D \subseteq Loaded \/ \E d \in Docs : D = {d})
    /\ \A d \in D : flushed[d] > 0
    /\ updated' = [d \in Docs |-> IF d \in D THEN flushed[d] ELSE updated[d]]
    /\ flushed' = [d \in Docs |-> IF d \in D THEN 0 ELSE flushed[d]]
    /\ Witness
    /\ UNCHANGED <<mode, clock, gone, resets, cache>>

\* The DELETE waits for the rows that a worker's open transaction has updated, and
\* does not see those that a loader has inserted and not committed.
Reset ==
    /\ resets < MaxResets
    /\ Done # {} /\ \A d \in Docs \ Loaded : flushed[d] = 0
    /\ updated' = [d \in Docs |-> 0]
    /\ gone' = gone \cup Done
    /\ resets' = resets + 1
    /\ Witness
    /\ UNCHANGED <<mode, flushed, clock, cache>>

-----------------------------------------------------------------------------
(* A request.                                                              *)

ReadVersion(r) ==
    /\ request[r].pc \in {"idle", "answered"}
    /\ request' = [request EXCEPT ![r] = [@ EXCEPT !.pc = "versioned", !.version = Version,
                                                   !.result = None, !.seen = {Done}]]
    /\ UNCHANGED <<corpus, cache>>

Reply(r, result) ==
    request' = [request EXCEPT ![r] = [Fresh EXCEPT !.pc = "answered", !.result = result]]

CacheHit(r) ==
    /\ request[r].pc = "versioned" /\ request[r].version \in DOMAIN cache
    /\ Reply(r, cache[request[r].version])
    /\ UNCHANGED <<corpus, cache>>

\* No entry, an expired one, or Redis does not answer.
CacheMiss(r) ==
    /\ request[r].pc = "versioned"
    /\ request' = [request EXCEPT ![r].pc = "missed"]
    /\ UNCHANGED <<corpus, cache>>

\* Hybrid search asks BM25 first, rerank search the vector index.
NextKeyword(r)  == request[r].pc = IF mode = "rerank" THEN "first" ELSE "missed"
NextSemantic(r) == request[r].pc = IF mode = "hybrid" THEN "first" ELSE "missed"

After(r) == IF request[r].pc = "missed" /\ mode \in {"hybrid", "rerank"}
            THEN "first" ELSE "second"

AskKeyword(r) ==
    /\ mode # "semantic" /\ NextKeyword(r)
    /\ request' = [request EXCEPT ![r] =
           [@ EXCEPT !.pc = After(r), !.bm25 = KeywordSearch(Query, Done, Pool(mode, K))]]
    /\ UNCHANGED <<corpus, cache>>

AskSemantic(r) ==
    /\ mode # "keyword" /\ NextSemantic(r)
    /\ request' = [request EXCEPT ![r] =
           [@ EXCEPT !.pc = After(r), !.semantic = SemanticSearch(Query, Done, Pool(mode, K))]]
    /\ UNCHANGED <<corpus, cache>>

\* Mutant: the result is stored under the version of the moment.
LateKey(r)  == Version
StoreKey(r) == request[r].version

\* The answer is stored under the version read before the search, unless Redis
\* does not answer.
Answer(r) ==
    LET result == Dispatch(Query, mode, K, request[r].bm25, request[r].semantic) IN
    /\ request[r].pc = "second"
    /\ Reply(r, result)
    /\ \/ cache' = [key \in DOMAIN cache \cup {StoreKey(r)} |->
                      IF key = StoreKey(r) THEN result ELSE cache[key]]
       \/ cache' = cache
    /\ UNCHANGED corpus

\* An embedding or a statement raises: nothing is stored.
Fail(r) ==
    /\ request[r].pc \in {"versioned", "missed", "first"}
    /\ request' = [request EXCEPT ![r] = Fresh]
    /\ UNCHANGED <<corpus, cache>>

Next ==
    \/ \E d \in Docs : Flush(d)
    \/ \E D \in SUBSET Docs : Commit(D)
    \/ Reset
    \/ \E r \in Requests : \/ ReadVersion(r) \/ CacheHit(r) \/ CacheMiss(r)
                           \/ AskKeyword(r) \/ AskSemantic(r) \/ Answer(r)
                           \/ Fail(r)

Spec == Init /\ [][Next]_vars

-----------------------------------------------------------------------------
(* Properties.                                                             *)

\* Every variable keeps its type: no answer and no entry is longer than k.
TypeOK ==
    /\ mode \in Modes
    /\ updated \in [Docs -> Stamps] /\ flushed \in [Docs -> Stamps]
    /\ clock \in 2..(Cardinality(Docs) + 2)
    /\ gone \subseteq Docs /\ resets \in 0..MaxResets
    /\ \A key \in DOMAIN cache : key \in Versions /\ cache[key] \in Answers
    /\ request \in [Requests -> Request]

Empty == <<0, 0>>

\* A cache entry that a request of this moment would find is exactly what a
\* search of this moment would answer.  The empty corpus has one version however
\* often it comes back, and is left to CacheMatchesCorpus.
CurrentEntryIsExact ==
    Version # Empty /\ Version \in DOMAIN cache =>
        cache[Version] = AnswerOver(Query, mode, K, Done, Done)

\* Every answer, cached or not, is what its statements return over states the
\* corpus was in while the request ran: a search never returns to an older one.
AnswersAreFresh ==
    [][\A r \in Requests :
          /\ request[r].pc # "answered" /\ request'[r].pc = "answered"
          /\ request[r].version # Empty
          => \E first, second \in request[r].seen :
                request'[r].result = AnswerOver(Query, mode, K, first, second)]_vars

\* A search that hits the cache is against the corpus its results came from.
CacheMatchesCorpus ==
    Version \in DOMAIN cache =>
        cache[Version] = AnswerOver(Query, mode, K, Done, Done)

Ahead(d, e, list) == \E i, j \in DOMAIN list : i < j /\ list[i] = d /\ list[j] = e

Ready(r) == request[r].pc = "second"
Bm25(r)  == request[r].bm25
Nearest(r) == request[r].semantic

\* A hybrid answer with a document has, ahead of it, every document that both
\* retrievers rank ahead of it.
AgreementWins ==
    \A r \in Requests : Ready(r) /\ mode = "hybrid" =>
        LET result == HybridSearch(K, Bm25(r), Nearest(r)) IN
        \A d, e \in Docs : /\ Ahead(d, e, Bm25(r)) /\ Ahead(d, e, Nearest(r))
                           /\ e \in Range(result)
                           => Ahead(d, e, result)

\* The most relevant document that either retriever returned leads the rerank
\* answer, however low the fusion of the two would have ranked it.
SingleSignalSurvives ==
    \A r \in Requests : Ready(r) /\ mode = "rerank" =>
        \A d \in Range(Bm25(r)) \cup Range(Nearest(r)) :
            Relevance[Query][d] <= Relevance[Query][RerankSearch(Query, K, Bm25(r), Nearest(r))[1]]
=============================================================================
