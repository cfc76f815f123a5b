------------------------- MODULE SearchCacheProofs -------------------------
(* Proofs about POST /search: what the cache serves, and what fusion and   *)
(* reranking keep of the statements' lists.                                *)
EXTENDS SearchCache, RankingProofs

-----------------------------------------------------------------------------
(* The lists of the model.                                                 *)

\* Lists of at most n documents are the sequences of no greater length.
LEMMA ListsOf ==
    ASSUME NEW n \in Nat
    PROVE  \A list : list \in SeqOf(Docs, n) <=> list \in Seq(Docs) /\ Len(list) <= n
<1>1. ASSUME NEW list \in SeqOf(Docs, n) PROVE list \in Seq(Docs) /\ Len(list) <= n
  <2>1. PICK m \in 0..n : list \in [1..m -> Docs]
    BY DEF SeqOf
  <2>. QED
    BY <2>1
<1>2. ASSUME NEW list \in Seq(Docs), Len(list) <= n PROVE list \in SeqOf(Docs, n)
  <2>1. list \in [1..Len(list) -> Docs] /\ Len(list) \in 0..n
    BY <1>2, LenProperties
  <2>. QED
    BY <2>1 DEF SeqOf
<1>. QED
  BY <1>1, <1>2

\* The lists and the answers of the model are sequences of documents.
LEMMA ModelLists ==
    /\ K \in Nat /\ RrfK \in Nat /\ HybridPool \in Nat
    /\ \A list : list \in Ranked <=> list \in Seq(Docs) /\ Len(list) <= Cardinality(Docs)
    /\ \A list : list \in Answers <=> list \in Seq(Docs) /\ Len(list) <= K
  BY SearchAssumption, FS_CardinalityType, ListsOf DEF Ranked, Answers

\* A retriever's list is one of the lists of the model, no longer than its limit.
LEMMA RetrieveType ==
    ASSUME NEW X \in SUBSET Docs, NEW limit \in Nat
    PROVE  /\ KeywordSearch(Query, X, limit) \in Ranked /\ SemanticSearch(Query, X, limit) \in Ranked
           /\ Len(KeywordSearch(Query, X, limit)) <= limit
           /\ Len(SemanticSearch(Query, X, limit)) <= limit
           /\ Distinct(KeywordSearch(Query, X, limit)) /\ Distinct(SemanticSearch(Query, X, limit))
<1>1. ASSUME NEW order \in Seq(Docs)
      PROVE  /\ Retrieve(order, X, limit) \in Ranked /\ Len(Retrieve(order, X, limit)) <= limit
             /\ Distinct(Retrieve(order, X, limit))
  BY SearchAssumption, RetrieveReturns, ModelLists
<1>. QED
  BY <1>1, SearchAssumption DEF KeywordSearch, SemanticSearch

-----------------------------------------------------------------------------
(* The version of the corpus.                                              *)

Finished(u) == {d \in Docs : u[d] > 0}
VersionOf(u) ==
    <<Cardinality(Finished(u)), IF Finished(u) = {} THEN 0 ELSE Max({u[d] : d \in Finished(u)})>>

\* The version says how many documents are done, and when the last one was.
LEMMA VersionSays ==
    ASSUME NEW u \in [Docs -> Stamps]
    PROVE  /\ VersionOf(u) \in Versions
           /\ VersionOf(u)[1] = Cardinality(Finished(u))
           /\ Finished(u) = {} => VersionOf(u) = Empty
           /\ Finished(u) # {} => /\ \E d \in Finished(u) : u[d] = VersionOf(u)[2]
                                  /\ VersionOf(u) # Empty
           /\ \A d \in Finished(u) : u[d] <= VersionOf(u)[2]
<1>1. /\ IsFiniteSet(Docs) /\ Finished(u) \in SUBSET Docs
      /\ Cardinality(Finished(u)) \in 0..Cardinality(Docs) /\ Cardinality(Docs) \in Nat
  BY SearchAssumption, FS_Subset, FS_CardinalityType DEF Finished
<1>2. CASE Finished(u) = {}
  <2>1. VersionOf(u) = <<0, 0>>
    BY <1>2, FS_EmptySet DEF VersionOf
  <2>. QED
    BY <1>1, <1>2, <2>1, FS_EmptySet DEF Empty, Versions, Stamps
<1>3. CASE Finished(u) # {}
  <2> DEFINE T == {u[d] : d \in Finished(u)}
             bound == Cardinality(Docs) + 1
  <2>1. T \in SUBSET Nat /\ T # {} /\ bound \in Nat /\ \A n \in T : n <= bound
    BY <1>1, <1>3 DEF Stamps
  <2>2. \A d \in Finished(u) : u[d] \in T
    OBVIOUS
  <2>3. \A n \in T : n \in Stamps /\ n > 0 /\ \E d \in Finished(u) : u[d] = n
    BY <1>1 DEF Finished
  <2>4. VersionOf(u) = <<Cardinality(Finished(u)), Max(T)>>
    BY <1>3 DEF VersionOf
  <2> HIDE DEF T, bound
  <2>5. Max(T) \in T /\ \A n \in T : n <= Max(T)
    BY <2>1, Greatest
  <2>. QED
    BY <1>1, <1>3, <2>2, <2>3, <2>4, <2>5 DEF Empty, Versions
<1>. QED
  BY <1>2, <1>3

\* With more documents done the version is later.
LEMMA VersionGrows ==
    ASSUME NEW u \in [Docs -> Stamps], NEW w \in [Docs -> Stamps],
           \A d \in Finished(u) : w[d] = u[d], NEW e \in Finished(w), e \notin Finished(u)
    PROVE  VersionOf(u)[1] < VersionOf(w)[1] /\ VersionOf(u)[2] <= VersionOf(w)[2]
<1>1. Finished(u) \in SUBSET Finished(w) /\ Finished(w) \in SUBSET Docs /\ Finished(u) # Finished(w)
  BY DEF Finished
<1>2. IsFiniteSet(Finished(w))
  BY <1>1, SearchAssumption, FS_Subset
<1>3. Cardinality(Finished(u)) < Cardinality(Finished(w))
  <2>1. Cardinality(Finished(u)) \in Nat /\ Cardinality(Finished(w)) \in Nat
    BY <1>1, <1>2, FS_Subset, FS_CardinalityType
  <2>. QED
    BY <1>1, <1>2, <2>1, FS_Subset
<1>4. VersionOf(u)[2] <= VersionOf(w)[2]
  <2>1. CASE Finished(u) = {}
    BY <2>1, VersionSays DEF Empty, Versions, Stamps
  <2>2. CASE Finished(u) # {}
    <3>1. PICK d \in Finished(u) : u[d] = VersionOf(u)[2]
      BY <2>2, VersionSays
    <3>2. d \in Finished(w) /\ w[d] = u[d]
      BY <1>1, <3>1
    <3>3. w[d] <= VersionOf(w)[2]
      BY <3>2, VersionSays
    <3>. QED
      BY <3>1, <3>2, <3>3
  <2>. QED
    BY <2>1, <2>2
<1>. QED
  BY <1>3, <1>4, VersionSays

\* The version that is read is the version of the rows.
LEMMA VersionIs == /\ Done = Finished(updated) /\ Version = VersionOf(updated)
                   /\ Done' = Finished(updated') /\ Version' = VersionOf(updated')
  BY DEF Done, Finished, Version, VersionOf

-----------------------------------------------------------------------------
(* The inductive invariant.                                                *)

Active(r) == request[r].pc \in {"versioned", "missed", "first", "second"}

\* Documents that have a timestamp, or had one: each took one tick of the clock.
Stamped == {d \in Docs : updated[d] > 0 \/ flushed[d] > 0 \/ d \in gone}

\* Of the documents under way each has a stamp of its own.
Stamping ==
    /\ clock <= 2 + Cardinality(Stamped)
    /\ \A d \in Docs : /\ updated[d] < clock /\ flushed[d] < clock
                       /\ flushed[d] > 0 => updated[d] = 0
    /\ \A d, e \in Docs :
          /\ flushed[d] > 0 => updated[e] # flushed[d]
          /\ flushed[d] > 0 /\ d # e => flushed[e] # flushed[d]

\* A version that is earlier: fewer documents, or an older last one.
Earlier(v, w) == v[2] < w[2] \/ (v[2] = w[2] /\ v[1] < w[1])

\* A version the corpus had once and can never have again: no document under way
\* has its stamp, and if a done one has, the corpus has grown since.
Past(v) ==
    /\ v[2] < clock
    /\ \A d \in Docs : flushed[d] > 0 => flushed[d] # v[2]
    /\ (\E d \in Done : updated[d] = v[2]) => Earlier(v, Version)

Known(v) == v = Empty \/ v = Version \/ Past(v)

VersionsAreKnown ==
    /\ \A r \in Requests : Active(r) => Known(request[r].version)
    /\ \A key \in DOMAIN cache : Known(key)

\* What a request under way has seen of the corpus since it read its version.
Seen ==
    \A r \in Requests : Active(r) =>
        /\ Done \in request[r].seen /\ request[r].seen \in SUBSET SUBSET Docs
        /\ request[r].version = Version /\ Version # Empty => request[r].seen = {Done}
        /\ \A s \in Requests : /\ Active(s) /\ request[s].version = request[r].version
                               /\ request[r].version # Empty
                               => request[s].seen = request[r].seen

\* The statements that a request at this point has made.
KeywordAsked(r) == \/ request[r].pc = "second" /\ mode # "semantic"
                   \/ request[r].pc = "first" /\ mode = "hybrid"
SemanticAsked(r) == \/ request[r].pc = "second" /\ mode # "keyword"
                    \/ request[r].pc = "first" /\ mode = "rerank"

ListsAreSeen ==
    \A r \in Requests :
        /\ KeywordAsked(r) => \E X \in request[r].seen :
              request[r].bm25 = KeywordSearch(Query, X, Pool(mode, K))
        /\ SemanticAsked(r) => \E Y \in request[r].seen :
              request[r].semantic = SemanticSearch(Query, Y, Pool(mode, K))

\* An entry that a request under way may still find answers from what it has seen.
EntriesAreSeen ==
    \A r \in Requests :
        /\ Active(r) /\ request[r].version # Empty /\ request[r].version \in DOMAIN cache
        => \E X, Y \in request[r].seen :
              cache[request[r].version] = AnswerOver(Query, mode, K, X, Y)

CacheInv == /\ TypeOK /\ Stamping /\ VersionsAreKnown /\ Seen
            /\ ListsAreSeen /\ EntriesAreSeen /\ CurrentEntryIsExact
-----------------------------------------------------------------------------
(* What each step keeps.                                                   *)

\* Of a version only its two numbers matter.
LEMMA VersionPairs ==
    \A v \in Versions : /\ v[1] \in Nat /\ v[2] \in Nat
                        /\ v # Empty => v[1] > 0 \/ v[2] > 0
                        /\ \A w \in Versions : v[1] = w[1] /\ v[2] = w[2] => v = w
<1>1. Cardinality(Docs) \in Nat
  BY SearchAssumption, FS_CardinalityType
<1>. QED
  BY <1>1 DEF Versions, Stamps, Empty

\* A version that is past is not the one of the rows, whatever they are.
LEMMA PastIsOver ==
    ASSUME NEW u \in [Docs -> Stamps], NEW v \in Versions, v # Empty,
           (\E d \in Finished(u) : u[d] = v[2]) => Earlier(v, VersionOf(u))
    PROVE  v # VersionOf(u)
<1>1. VersionOf(u) \in Versions
  BY VersionSays
<1>2. SUFFICES ASSUME v = VersionOf(u) PROVE FALSE
  OBVIOUS
<1>3. Finished(u) # {}
  BY <1>2, VersionSays
<1>4. \E d \in Finished(u) : u[d] = v[2]
  BY <1>2, <1>3, VersionSays
<1>. QED
  BY <1>1, <1>2, <1>4, VersionPairs DEF Earlier

\* The present version has the stamp of a done document, and so of none under way.
LEMMA PresentIsTaken ==
    ASSUME TypeOK, Stamping, Version # Empty
    PROVE  /\ Version \in Versions /\ Version[2] < clock
           /\ \E d \in Done : updated[d] = Version[2]
           /\ \A d \in Docs : flushed[d] > 0 => flushed[d] # Version[2]
<1>1. updated \in [Docs -> Stamps]
  BY DEF TypeOK
<1>2. Version \in Versions /\ Done # {}
  BY <1>1, VersionIs, VersionSays
<1>3. PICK d \in Done : updated[d] = Version[2]
  BY <1>1, <1>2, VersionIs, VersionSays
<1>4. d \in Docs
  BY DEF Done
<1>. QED
  BY <1>2, <1>3, <1>4 DEF Stamping

\* After a commit every version ever known is past.
LEMMA CommitMovesOn ==
    ASSUME TypeOK, Stamping, NEW D \in SUBSET Docs, Commit(D), updated' \in [Docs -> Stamps]
    PROVE  /\ Version' # Empty
           /\ \A v \in Versions : Known(v) => v = Empty \/ (Past(v)' /\ v # Version')
<1>1. PICK e \in D : e \in Docs /\ flushed[e] > 0
  BY DEF Commit
<1>2. updated \in [Docs -> Stamps] /\ \A d \in Docs : flushed[d] \in Nat /\ updated[d] \in Nat
  BY SearchAssumption, FS_CardinalityType DEF TypeOK, Stamps
<1>3. \A d \in Docs : /\ updated'[d] = IF d \in D THEN flushed[d] ELSE updated[d]
                      /\ flushed'[d] = IF d \in D THEN 0 ELSE flushed[d]
  BY DEF Commit
<1>4. /\ \A d \in Done : updated'[d] = updated[d] /\ d \in Done'
      /\ e \in Done' /\ e \notin Done /\ updated'[e] = flushed[e]
      /\ clock' = clock /\ clock \in Nat
  <2>1. \A d \in D : updated[d] = 0 /\ flushed[d] > 0
    BY <1>2 DEF Commit, Stamping
  <2>2. \A d \in Docs : d \in Done' <=> updated'[d] > 0
    BY DEF Done
  <2>3. clock' = clock /\ clock \in Nat
    BY SearchAssumption, FS_CardinalityType DEF Commit, TypeOK
  <2>4. \A d \in Done : d \in Docs /\ updated[d] > 0 /\ d \notin D
    BY <1>2, <2>1 DEF Done
  <2>. QED
    BY <1>1, <1>2, <1>3, <2>1, <2>2, <2>3, <2>4
<1>5. Version[1] < Version'[1] /\ Version[2] <= Version'[2]
  BY <1>2, <1>4, VersionIs, VersionGrows
<1>6. Version \in Versions /\ Version' \in Versions
  BY <1>2, VersionIs, VersionSays
<1>7. Version' # Empty
  <2>1. Version[1] \in Nat /\ Version'[1] > 0
    BY <1>5, <1>6, VersionPairs
  <2>. QED
    BY <2>1 DEF Empty
<1>8. ASSUME NEW v \in Versions, v = Version \/ Earlier(v, Version)
      PROVE  Earlier(v, Version')
  BY <1>5, <1>6, <1>8, VersionPairs DEF Earlier
<1>9. ASSUME NEW v \in Versions, Known(v), v # Empty
      PROVE  /\ v[2] < clock
             /\ \A d \in Docs : flushed[d] > 0 => flushed[d] # v[2]
             /\ (\E d \in Done : updated[d] = v[2]) => v = Version \/ Earlier(v, Version)
  <2>1. CASE v = Version
    BY <1>9, <2>1, PresentIsTaken
  <2>2. CASE v # Version
    BY <1>9, <2>2 DEF Known, Past
  <2>. QED
    BY <2>1, <2>2
<1>10. ASSUME NEW v \in Versions, Known(v), v # Empty
       PROVE  Past(v)' /\ v # Version'
  <2>1. \A d \in Docs : flushed'[d] > 0 => flushed'[d] # v[2]
    BY <1>3, <1>9, <1>10
  <2>2. ASSUME NEW d \in Done', updated'[d] = v[2] PROVE Earlier(v, Version')
    <3>1. d \in Docs /\ updated'[d] > 0
      BY <2>2 DEF Done
    <3>2. d \notin D /\ d \in Done
      <4>1. d \notin D
        BY <1>3, <1>9, <1>10, <2>2, <3>1
      <4>. QED
        BY <1>3, <3>1, <4>1 DEF Done
    <3>. QED
      BY <1>3, <1>8, <1>9, <1>10, <2>2, <3>1, <3>2
  <2>3. Past(v)'
    BY <1>4, <1>9, <1>10, <2>1, <2>2 DEF Past, Earlier
  <2>4. v # Version'
    BY <1>10, <2>2, VersionIs, PastIsOver
  <2>. QED
    BY <2>3, <2>4
<1>. QED
  BY <1>7, <1>10

\* After a reset no version but the empty one is known that is not past.
LEMMA ResetMovesOn ==
    ASSUME TypeOK, Stamping, Reset
    PROVE  /\ Done' = {} /\ Version' = Empty
           /\ \A v \in Versions : Known(v) => v = Empty \/ Past(v)'
<1>1. updated' \in [Docs -> Stamps]
  BY SearchAssumption, FS_CardinalityType DEF Stamps, Reset
<1>2. Done' = {} /\ Version' = Empty
  <2>1. Done' = {}
    BY DEF Done, Reset
  <2>. QED
    BY <1>1, <2>1, VersionIs, VersionSays
<1>3. ASSUME NEW v \in Versions, Known(v), v # Empty
      PROVE  v[2] < clock /\ \A d \in Docs : flushed[d] > 0 => flushed[d] # v[2]
  <2>1. CASE v = Version
    BY <1>3, <2>1, PresentIsTaken
  <2>2. CASE v # Version
    BY <1>3, <2>2 DEF Known, Past
  <2>. QED
    BY <2>1, <2>2
<1>4. clock' = clock /\ flushed' = flushed
  BY DEF Reset
<1>5. ASSUME NEW v \in Versions, Known(v), v # Empty PROVE Past(v)'
  BY <1>2, <1>3, <1>4, <1>5 DEF Past
<1>. QED
  BY <1>2, <1>5

\* A timestamp that is taken is later than every version.
LEMMA FlushMovesOn ==
    ASSUME TypeOK, Stamping, NEW d \in Docs, Flush(d)
    PROVE  /\ Done' = Done /\ Version' = Version
           /\ \A v \in Versions : Known(v) => Known(v)'
<1>1. Done' = Done /\ Version' = Version /\ updated' = updated
  BY DEF Done, Version, Flush
<1>2. clock \in Nat /\ clock' = clock + 1
  BY SearchAssumption, FS_CardinalityType DEF TypeOK, Flush
<1>3. \A e \in Docs : flushed'[e] = flushed[e] \/ flushed'[e] = clock
  BY DEF TypeOK, Flush
<1>4. ASSUME NEW v \in Versions, Past(v) PROVE Past(v)'
  <2>1. v[2] < clock /\ v[2] \in Nat
    BY <1>4, VersionPairs DEF Past
  <2>2. v[2] < clock' /\ \A e \in Docs : flushed'[e] > 0 => flushed'[e] # v[2]
    BY <1>2, <1>3, <1>4, <2>1 DEF Past
  <2>. QED
    BY <1>1, <1>4, <2>2 DEF Past
<1>. QED
  BY <1>1, <1>4 DEF Known

\* What a step does to the clock, the stamps and the corpus is done by the corpus.
LEMMA StampStep ==
    ASSUME TypeOK, Stamping, [Next]_vars
    PROVE  /\ mode' \in Modes
           /\ updated' \in [Docs -> Stamps] /\ flushed' \in [Docs -> Stamps]
           /\ clock' \in 2..(Cardinality(Docs) + 2) /\ gone' \subseteq Docs
           /\ resets' \in 0..MaxResets /\ Stamping'
<1>0. /\ IsFiniteSet(Docs) /\ Cardinality(Docs) \in Nat
      /\ Stamped \in SUBSET Docs /\ Stamped' \in SUBSET Docs
  BY SearchAssumption, FS_CardinalityType DEF Stamped
<1>1. /\ IsFiniteSet(Stamped) /\ IsFiniteSet(Stamped')
      /\ Cardinality(Stamped) \in Nat /\ Cardinality(Stamped') \in Nat
      /\ Cardinality(Stamped') <= Cardinality(Docs)
  BY <1>0, FS_Subset, FS_CardinalityType
<1>2. ASSUME NEW d \in Docs, Flush(d)
      PROVE  Cardinality(Stamped) < Cardinality(Stamped')
  <2>1. d \notin Stamped /\ d \in Stamped'
    <3>1. flushed'[d] = clock /\ clock > 0
      BY <1>0, <1>2 DEF Flush, TypeOK
    <3>. QED
      BY <1>2, <3>1 DEF Flush, Stamped, TypeOK
  <2>2. Stamped \in SUBSET Stamped'
    <3>1. clock > 0
      BY <1>0 DEF TypeOK
    <3>. QED
      BY <1>2, <3>1 DEF Flush, Stamped, TypeOK
  <2>3. Stamped # Stamped'
    BY <2>1
  <2>. QED
    BY <1>1, <2>2, <2>3, FS_Subset
<1>3. CASE \E d \in Docs : Flush(d)
  <2>1. PICK d \in Docs : Flush(d)
    BY <1>3
  <2>2. clock <= 1 + Cardinality(Docs) /\ clock + 1 <= 2 + Cardinality(Stamped')
    BY <1>0, <1>1, <1>2, <2>1 DEF TypeOK, Stamping
  <2>3. flushed' \in [Docs -> Stamps] /\ clock' \in 2..(Cardinality(Docs) + 2)
    BY <1>0, <2>1, <2>2 DEF TypeOK, Stamps, Flush
  <2>4. Stamping'
    BY <1>0, <2>1, <2>2 DEF TypeOK, Stamps, Flush, Stamping
  <2>. QED
    BY <2>1, <2>3, <2>4 DEF TypeOK, Flush
<1>4. CASE \E D \in SUBSET Docs : Commit(D)
  <2>1. PICK D \in SUBSET Docs : Commit(D)
    BY <1>4
  <2>2. Stamped' = Stamped
    BY <1>0, <2>1 DEF Stamped, Commit, TypeOK, Stamps
  <2>3. updated' \in [Docs -> Stamps] /\ flushed' \in [Docs -> Stamps]
    BY <1>0, <2>1 DEF Commit, TypeOK, Stamps
  <2>4. Stamping'
    BY <1>0, <2>1, <2>2 DEF Commit, TypeOK, Stamps, Stamping
  <2>. QED
    BY <2>1, <2>3, <2>4 DEF Commit, TypeOK
<1>5. CASE Reset
  <2>1. Stamped' \in SUBSET Stamped /\ Stamped \in SUBSET Stamped'
    BY <1>0, <1>5 DEF Stamped, Reset, TypeOK, Stamps, Done
  <2>2. Stamped' = Stamped
    BY <2>1
  <2>3. updated' \in [Docs -> Stamps]
    BY <1>0, <1>5 DEF Reset, Stamps
  <2>4. Stamping'
    BY <1>0, <1>5, <2>2 DEF Reset, TypeOK, Stamping
  <2>5. resets' \in 0..MaxResets
    BY <1>5, SearchAssumption DEF Reset, TypeOK
  <2>. QED
    BY <1>5, <2>3, <2>4, <2>5 DEF Reset, TypeOK, Done
<1>6. CASE UNCHANGED corpus
  BY <1>6 DEF corpus, TypeOK, Stamping, Stamped
<1>. QED
  BY <1>3, <1>4, <1>5, <1>6
  DEF Next, vars, corpus, ReadVersion, CacheHit, CacheMiss, AskKeyword, AskSemantic, Answer, Fail

\* When the corpus moves, what the requests under way have seen grows by what is
\* done now, and nothing else about them changes.
LEMMA CorpusStep ==
    ASSUME TypeOK, (\E D \in SUBSET Docs : Commit(D)) \/ Reset
    PROVE  \A r \in Requests :
              /\ request'[r] \in Request
              /\ Active(r)' <=> Active(r)
              /\ request'[r].pc = request[r].pc /\ request'[r].version = request[r].version
              /\ request'[r].bm25 = request[r].bm25
              /\ request'[r].semantic = request[r].semantic
              /\ request'[r].result = request[r].result
              /\ Active(r) => request'[r].seen = request[r].seen \cup {Done'}
<1>1. Witness /\ Witnessed = Done'
  BY DEF Commit, Reset, Witnessed, Done
<1>2. ASSUME NEW r \in Requests
      PROVE  request'[r] = IF Active(r)
                           THEN [request[r] EXCEPT !.seen = @ \cup {Done'}] ELSE request[r]
  BY <1>1 DEF Witness, Active, TypeOK, Request
<1>3. Done' \in SUBSET Docs
  BY DEF Done
<1> SUFFICES ASSUME NEW r \in Requests
             PROVE  /\ request'[r] \in Request
                    /\ Active(r)' <=> Active(r)
                    /\ request'[r].pc = request[r].pc /\ request'[r].version = request[r].version
                    /\ request'[r].bm25 = request[r].bm25
                    /\ request'[r].semantic = request[r].semantic
                    /\ request'[r].result = request[r].result
                    /\ Active(r) => request'[r].seen = request[r].seen \cup {Done'}
  OBVIOUS
<1>4. request[r] \in Request
  BY DEF TypeOK
<1>5. CASE Active(r)
  <2>1. request'[r] = [request[r] EXCEPT !.seen = @ \cup {Done'}]
    BY <1>2, <1>5
  <2>2. request[r].seen \cup {Done'} \in SUBSET SUBSET Docs
    BY <1>3, <1>4 DEF Request
  <2>. QED
    BY <1>4, <1>5, <2>1, <2>2 DEF Active, Request
<1>6. CASE ~Active(r)
  BY <1>2, <1>4, <1>6 DEF Active
<1>. QED
  BY <1>5, <1>6

\* The other steps are those of one request, and leave the corpus alone.
Acts(r) == \/ ReadVersion(r) \/ CacheHit(r) \/ CacheMiss(r)
           \/ AskKeyword(r) \/ AskSemantic(r) \/ Answer(r) \/ Fail(r)

\* A step is of the corpus, of a request, or changes nothing.
LEMMA StepCases ==
    ASSUME [Next]_vars
    PROVE  \/ \E d \in Docs : Flush(d)
           \/ (\E D \in SUBSET Docs : Commit(D)) \/ Reset
           \/ \E r \in Requests : Acts(r)
           \/ UNCHANGED vars
  BY DEF Next, Acts

\* A request that acts leaves the corpus and the other requests as they are.
LEMMA ActsAlone ==
    ASSUME TypeOK, NEW r \in Requests, Acts(r)
    PROVE  /\ UNCHANGED corpus /\ Done' = Done /\ Version' = Version
           /\ \A s \in Requests : s # r => request'[s] = request[s]
           /\ \A v : Known(v)' <=> Known(v)
<1>1. UNCHANGED corpus
  BY DEF Acts, ReadVersion, CacheHit, CacheMiss, AskKeyword, AskSemantic, Answer, Fail, corpus
<1>2. Done' = Done /\ Version' = Version
  BY <1>1 DEF corpus, Done, Version
<1>3. \A v : Known(v)' <=> Known(v)
  <2>1. \A v : Past(v)' <=> Past(v)
    BY <1>1, <1>2 DEF corpus, Past
  <2>. QED
    BY <1>2, <2>1 DEF Known
<1>4. \E q : request' = [request EXCEPT ![r] = q]
  BY DEF Acts, ReadVersion, CacheHit, CacheMiss, AskKeyword, AskSemantic, Answer, Fail, Reply
<1>5. \A s \in Requests : s # r => request'[s] = request[s]
  BY <1>4 DEF TypeOK
<1>. QED
  BY <1>1, <1>2, <1>3, <1>5

\* A request that replies or fails is over.
LEMMA ReplyEnds ==
    ASSUME TypeOK, NEW r \in Requests, CacheHit(r) \/ Answer(r) \/ Fail(r)
    PROVE  request'[r].pc \in {"idle", "answered"}
<1>1. ASSUME NEW result, Reply(r, result) PROVE request'[r].pc = "answered"
  <2>1. request'[r] = [Fresh EXCEPT !.pc = "answered", !.result = result]
    BY <1>1 DEF Reply, TypeOK
  <2>. QED
    BY <2>1 DEF Fresh
<1>2. CASE Fail(r)
  BY <1>2 DEF Fail, Fresh, TypeOK
<1>. QED
  BY <1>1, <1>2 DEF CacheHit, Answer

\* What is under way after such a step was so before, unless it has just begun;
\* it has its version and what it has seen from before, and no list it did not ask for.
LEMMA ActsKeeps ==
    ASSUME TypeOK, NEW r \in Requests, Acts(r), Active(r)'
    PROVE  \/ /\ request'[r].pc = "versioned"
              /\ request'[r].version = Version /\ request'[r].seen = {Done}
           \/ /\ Active(r)
              /\ request'[r].version = request[r].version
              /\ request'[r].seen = request[r].seen
              /\ cache' = cache
<1>1. request[r] \in Request /\ request'[r] = request'[r]
  BY DEF TypeOK
<1>2. CASE ReadVersion(r)
  BY <1>1, <1>2 DEF ReadVersion, TypeOK, Request
<1>3. CASE CacheMiss(r)
  BY <1>1, <1>3 DEF CacheMiss, TypeOK, Request, Active
<1>4. CASE AskKeyword(r)
  BY <1>1, <1>4 DEF AskKeyword, NextKeyword, TypeOK, Request, Active
<1>5. CASE AskSemantic(r)
  BY <1>1, <1>5 DEF AskSemantic, NextSemantic, TypeOK, Request, Active
<1>6. CASE CacheHit(r) \/ Answer(r) \/ Fail(r)
  <2>1. request'[r].pc \in {"idle", "answered"}
    BY <1>6, ReplyEnds
  <2>. QED
    BY <2>1 DEF Active
<1>. QED
  BY <1>2, <1>3, <1>4, <1>5, <1>6 DEF Acts

\* The answer of a request is an answer: at most k documents.
LEMMA AnswerType ==
    ASSUME TypeOK, ListsAreSeen, Seen, NEW r \in Requests, request[r].pc = "second"
    PROVE  Dispatch(Query, mode, K, request[r].bm25, request[r].semantic) \in Answers
<1>1. request[r] \in Request /\ mode \in Modes /\ request[r].seen \in SUBSET SUBSET Docs
  BY DEF TypeOK, Seen, Active
<1>2. ASSUME mode = "keyword"
      PROVE  Len(request[r].bm25) <= K /\ Distinct(request[r].bm25)
  <2>1. PICK X \in request[r].seen :
            request[r].bm25 = KeywordSearch(Query, X, Pool(mode, K))
    BY <1>2 DEF ListsAreSeen, KeywordAsked
  <2>2. Pool(mode, K) = K /\ K \in Nat
    BY <1>2, ModelLists DEF Pool
  <2>. QED
    BY <1>1, <2>1, <2>2, RetrieveType
<1>3. ASSUME mode = "semantic"
      PROVE  Len(request[r].semantic) <= K /\ Distinct(request[r].semantic)
  <2>1. PICK X \in request[r].seen :
            request[r].semantic = SemanticSearch(Query, X, Pool(mode, K))
    BY <1>3 DEF ListsAreSeen, SemanticAsked
  <2>2. Pool(mode, K) = K /\ K \in Nat
    BY <1>3, ModelLists DEF Pool
  <2>. QED
    BY <1>1, <2>1, <2>2, RetrieveType
<1>4. request[r].bm25 \in Seq(Docs) /\ request[r].semantic \in Seq(Docs)
  BY <1>1, ModelLists DEF Request
<1> DEFINE answer == Dispatch(Query, mode, K, request[r].bm25, request[r].semantic)
<1>5. answer \in Seq(Docs) /\ Len(answer) <= K
  BY <1>1, <1>2, <1>3, <1>4, SearchAssumption, ModelLists, DispatchReturns
<1>. QED
  BY <1>5, ModelLists

\* Every step keeps the types.
LEMMA TypeStep ==
    ASSUME CacheInv, [Next]_vars
    PROVE  TypeOK'
<1>1. /\ TypeOK /\ Stamping /\ request \in [Requests -> Request]
      /\ \A key \in DOMAIN cache : key \in Versions /\ cache[key] \in Answers
  BY DEF CacheInv, TypeOK
<1>2. /\ mode' \in Modes
      /\ updated' \in [Docs -> Stamps] /\ flushed' \in [Docs -> Stamps]
      /\ clock' \in 2..(Cardinality(Docs) + 2) /\ gone' \subseteq Docs
      /\ resets' \in 0..MaxResets
  BY <1>1, StampStep
<1>3. Version \in Versions /\ Done \in SUBSET Docs
  BY <1>1, VersionIs, VersionSays DEF TypeOK, Done
<1>4. SUFFICES /\ request' \in [Requests -> Request]
               /\ \A key \in DOMAIN cache' : key \in Versions /\ cache'[key] \in Answers
  BY <1>2 DEF TypeOK
<1>5. CASE \E d \in Docs : Flush(d)
  BY <1>1, <1>5 DEF Flush
<1>6. CASE (\E D \in SUBSET Docs : Commit(D)) \/ Reset
  <2>1. cache' = cache /\ DOMAIN request' = Requests
        /\ request' = [r \in Requests |-> request'[r]]
    BY <1>6 DEF Commit, Reset, Witness
  <2>2. \A r \in Requests : request'[r] \in Request
    BY <1>1, <1>6, CorpusStep
  <2>. QED
    BY <1>1, <2>1, <2>2
<1>7. ASSUME NEW r \in Requests, Acts(r)
      PROVE  /\ request' \in [Requests -> Request]
             /\ \A key \in DOMAIN cache' : key \in Versions /\ cache'[key] \in Answers
  <2>0. request[r] \in Request /\ Pool(mode, K) \in Nat
    BY <1>1, SearchAssumption DEF Pool
  <2>1. CASE ReadVersion(r)
    BY <1>1, <1>3, <2>0, <2>1 DEF ReadVersion, Request
  <2>2. ASSUME NEW result \in Answers, Reply(r, result) PROVE request' \in [Requests -> Request]
    <3>1. <<>> \in Ranked /\ <<0, 0>> \in Versions
      BY SearchAssumption, FS_CardinalityType DEF Ranked, SeqOf, Versions, Stamps
    <3>. QED
      BY <1>1, <2>2, <3>1 DEF Reply, Fresh, Request
  <2>3. CASE CacheHit(r)
    BY <1>1, <2>2, <2>3 DEF CacheHit
  <2>4. CASE CacheMiss(r)
    BY <1>1, <2>0, <2>4 DEF CacheMiss, Request
  <2>5. CASE AskKeyword(r)
    <3>1. KeywordSearch(Query, Done, Pool(mode, K)) \in Ranked
      BY <1>3, <2>0, RetrieveType
    <3>2. After(r) \in {"first", "second"}
      BY DEF After
    <3>. QED
      BY <1>1, <2>0, <2>5, <3>1, <3>2 DEF AskKeyword, Request
  <2>6. CASE AskSemantic(r)
    <3>1. SemanticSearch(Query, Done, Pool(mode, K)) \in Ranked
      BY <1>3, <2>0, RetrieveType
    <3>2. After(r) \in {"first", "second"}
      BY DEF After
    <3>. QED
      BY <1>1, <2>0, <2>6, <3>1, <3>2 DEF AskSemantic, Request
  <2>7. CASE Answer(r)
    <3> DEFINE result == Dispatch(Query, mode, K, request[r].bm25, request[r].semantic)
    <3>1. result \in Answers
      BY <1>1, <2>7, AnswerType DEF Answer, CacheInv
    <3>2. Reply(r, result)
      BY <2>7 DEF Answer
    <3>3. \/ cache' = [key \in DOMAIN cache \cup {StoreKey(r)} |->
                         IF key = StoreKey(r) THEN result ELSE cache[key]]
          \/ cache' = cache
      BY <2>7 DEF Answer
    <3>4. StoreKey(r) \in Versions
      BY <2>0 DEF StoreKey, Request
    <3> HIDE DEF result
    <3>. QED
      BY <1>1, <2>2, <3>1, <3>2, <3>3, <3>4
  <2>8. CASE Fail(r)
    <3>1. <<>> \in Ranked /\ <<0, 0>> \in Versions
      BY SearchAssumption, FS_CardinalityType DEF Ranked, SeqOf, Versions, Stamps
    <3>. QED
      BY <1>1, <2>8, <3>1 DEF Fail, Fresh, Request
  <2>. QED
    BY <1>1, <1>7, <2>1, <2>3, <2>4, <2>5, <2>6, <2>7, <2>8
    DEF Acts, ReadVersion, CacheHit, CacheMiss, AskKeyword, AskSemantic, Fail
<1>8. CASE UNCHANGED vars
  BY <1>1, <1>8 DEF vars
<1>. QED
  BY <1>5, <1>6, <1>7, <1>8, StepCases

\* Every version that a request or an entry holds stays known.
LEMMA VersionsStep ==
    ASSUME CacheInv, [Next]_vars
    PROVE  VersionsAreKnown'
<1>1. /\ TypeOK /\ Stamping /\ VersionsAreKnown
      /\ \A r \in Requests : request[r] \in Request /\ request[r].version \in Versions
      /\ \A key \in DOMAIN cache : key \in Versions
  BY DEF CacheInv, TypeOK, Request
<1>2. updated' \in [Docs -> Stamps]
  BY <1>1, StampStep
<1>3. CASE \E d \in Docs : Flush(d)
  <2>1. UNCHANGED <<request, cache>>
    BY <1>3 DEF Flush
  <2>2. \A v \in Versions : Known(v) => Known(v)'
    BY <1>1, <1>3, FlushMovesOn
  <2>. QED
    BY <1>1, <2>1, <2>2 DEF VersionsAreKnown, Active
<1>4. CASE (\E D \in SUBSET Docs : Commit(D)) \/ Reset
  <2>1. \A v \in Versions : Known(v) => Known(v)'
    BY <1>1, <1>2, <1>4, CommitMovesOn, ResetMovesOn DEF Known
  <2>2. cache' = cache
    BY <1>4 DEF Commit, Reset
  <2>3. \A r \in Requests : (Active(r)' <=> Active(r)) /\ request'[r].version = request[r].version
    BY <1>1, <1>4, CorpusStep
  <2>. QED
    BY <1>1, <2>1, <2>2, <2>3 DEF VersionsAreKnown
<1>5. ASSUME NEW r \in Requests, Acts(r) PROVE VersionsAreKnown'
  <2>1. /\ \A s \in Requests : s # r => request'[s] = request[s]
        /\ \A v : Known(v)' <=> Known(v)
    BY <1>1, <1>5, ActsAlone
  <2>2. Active(r)' => Known(request'[r].version)
    BY <1>1, <1>5, ActsKeeps DEF VersionsAreKnown, Known
  <2>3. \A key \in DOMAIN cache' : Known(key)
    <3>1. CASE Answer(r)
      <4>1. Known(StoreKey(r))
        BY <1>1, <3>1 DEF Answer, StoreKey, VersionsAreKnown, Active
      <4>2. \A key \in DOMAIN cache' : key \in DOMAIN cache \/ key = StoreKey(r)
        BY <3>1 DEF Answer
      <4>. QED
        BY <1>1, <4>1, <4>2 DEF VersionsAreKnown
    <3>2. CASE cache' = cache
      BY <1>1, <3>2 DEF VersionsAreKnown
    <3>. QED
      BY <1>5, <3>1, <3>2
      DEF Acts, ReadVersion, CacheHit, CacheMiss, AskKeyword, AskSemantic, Fail
  <2>4. \A s \in Requests : Active(s)' => Known(request'[s].version)
    BY <1>1, <2>1, <2>2 DEF VersionsAreKnown, Active
  <2>. QED
    BY <2>1, <2>3, <2>4 DEF VersionsAreKnown
<1>6. CASE UNCHANGED vars
  BY <1>1, <1>6 DEF vars, VersionsAreKnown, Known, Past, Version, Done, Active
<1>. QED
  BY <1>3, <1>4, <1>5, <1>6, StepCases

\* What the requests have seen stays what the corpus has been.
LEMMA SeenStep ==
    ASSUME CacheInv, [Next]_vars
    PROVE  Seen'
<1>1. /\ TypeOK /\ Stamping /\ VersionsAreKnown /\ Seen
      /\ \A r \in Requests : request[r] \in Request /\ request[r].version \in Versions
  BY DEF CacheInv, TypeOK, Request
<1>2. updated' \in [Docs -> Stamps] /\ Done' \in SUBSET Docs
  BY <1>1, StampStep DEF Done
<1>3. CASE \E d \in Docs : Flush(d)
  <2>1. request' = request /\ Done' = Done /\ Version' = Version
    BY <1>1, <1>3, FlushMovesOn DEF Flush
  <2>. QED
    BY <1>1, <2>1 DEF Seen, Active
<1>4. CASE (\E D \in SUBSET Docs : Commit(D)) \/ Reset
  <2>1. \A r \in Requests : /\ Active(r)' <=> Active(r)
                            /\ request'[r].version = request[r].version
                            /\ Active(r) => request'[r].seen = request[r].seen \cup {Done'}
    BY <1>1, <1>4, CorpusStep
  <2>2. \A v \in Versions : Known(v) /\ v # Empty => v # Version' \/ Version' = Empty
    BY <1>1, <1>2, <1>4, CommitMovesOn, ResetMovesOn
  <2>3. ASSUME NEW r \in Requests, Active(r)
        PROVE  /\ Done' \in request'[r].seen /\ request'[r].seen \in SUBSET SUBSET Docs
               /\ ~(request'[r].version = Version' /\ Version' # Empty)
               /\ \A s \in Requests : /\ Active(s) /\ request[s].version = request[r].version
                                      /\ request[r].version # Empty
                                      => request'[s].seen = request'[r].seen
    <3>1. request'[r].seen = request[r].seen \cup {Done'} /\ request[r].seen \in SUBSET SUBSET Docs
      BY <1>1, <2>1, <2>3 DEF Seen
    <3>2. ~(request'[r].version = Version' /\ Version' # Empty)
      BY <1>1, <2>1, <2>2, <2>3 DEF VersionsAreKnown
    <3>3. ASSUME NEW s \in Requests, Active(s), request[s].version = request[r].version,
                 request[r].version # Empty
          PROVE  request'[s].seen = request'[r].seen
      <4>1. request[s].seen = request[r].seen
        BY <1>1, <2>3, <3>3 DEF Seen
      <4>. QED
        BY <2>1, <2>3, <3>3, <4>1
    <3>. QED
      BY <1>2, <3>1, <3>2, <3>3
  <2>. QED
    BY <2>1, <2>3 DEF Seen
<1>5. ASSUME NEW r \in Requests, Acts(r) PROVE Seen'
  <2>1. /\ Done' = Done /\ Version' = Version
        /\ \A s \in Requests : s # r => request'[s] = request[s]
        /\ \A s \in Requests : s # r => (Active(s)' <=> Active(s))
    BY <1>1, <1>5, ActsAlone DEF Active
  <2>2. CASE ~Active(r)'
    BY <1>1, <2>1, <2>2 DEF Seen
  <2>3. CASE Active(r)' /\ request'[r].version = Version /\ request'[r].seen = {Done}
    <3>1. Done \in SUBSET Docs
      BY DEF Done
    <3>2. ASSUME NEW s \in Requests \ {r}, Active(s)'
          PROVE  Active(s) /\ request'[s] = request[s]
      BY <2>1, <3>2
    <3>. QED
      BY <1>1, <2>1, <2>3, <3>1, <3>2, ZenonT(60) DEF Seen
  <2>4. CASE /\ Active(r)' /\ Active(r) /\ request'[r].version = request[r].version
             /\ request'[r].seen = request[r].seen
    BY <1>1, <2>1, <2>4 DEF Seen
  <2>. QED
    BY <1>1, <1>5, <2>2, <2>3, <2>4, ActsKeeps
<1>6. CASE UNCHANGED vars
  <2>1. request' = request /\ Done' = Done /\ Version' = Version
    BY <1>6 DEF vars, Done, Version
  <2>. QED
    BY <1>1, <2>1 DEF Seen, Active
<1>. QED
  BY <1>3, <1>4, <1>5, <1>6, StepCases

\* The lists of a request are answers over corpora it has seen.
LEMMA ListsStep ==
    ASSUME CacheInv, [Next]_vars
    PROVE  ListsAreSeen'
<1>1. /\ TypeOK /\ Stamping /\ Seen /\ ListsAreSeen
      /\ \A r \in Requests : request[r] \in Request
  BY DEF CacheInv, TypeOK
<1>2. CASE \E d \in Docs : Flush(d)
  BY <1>1, <1>2 DEF Flush, ListsAreSeen, KeywordAsked, SemanticAsked
<1>3. CASE (\E D \in SUBSET Docs : Commit(D)) \/ Reset
  <2>1. mode' = mode
    BY <1>3 DEF Commit, Reset
  <2>2. \A r \in Requests : /\ request'[r].pc = request[r].pc
                            /\ request'[r].bm25 = request[r].bm25
                            /\ request'[r].semantic = request[r].semantic
                            /\ Active(r) => request'[r].seen = request[r].seen \cup {Done'}
    BY <1>1, <1>3, CorpusStep
  <2>3. \A r \in Requests : /\ KeywordAsked(r)' <=> KeywordAsked(r)
                            /\ SemanticAsked(r)' <=> SemanticAsked(r)
                            /\ KeywordAsked(r) \/ SemanticAsked(r) => Active(r)
    BY <2>1, <2>2 DEF KeywordAsked, SemanticAsked, Active
  <2>. QED
    BY <1>1, <2>1, <2>2, <2>3 DEF ListsAreSeen
<1>4. ASSUME NEW r \in Requests, Acts(r) PROVE ListsAreSeen'
  <2>1. /\ mode' = mode /\ Done' = Done
        /\ \A s \in Requests : s # r => request'[s] = request[s]
    BY <1>1, <1>4, ActsAlone DEF corpus
  <2>2. SUFFICES /\ KeywordAsked(r)' => \E X \in request'[r].seen :
                       request'[r].bm25 = KeywordSearch(Query, X, Pool(mode, K))
                 /\ SemanticAsked(r)' => \E Y \in request'[r].seen :
                       request'[r].semantic = SemanticSearch(Query, Y, Pool(mode, K))
    BY <1>1, <2>1 DEF ListsAreSeen, KeywordAsked, SemanticAsked
  <2>3. CASE AskKeyword(r)
    <3>1. /\ request'[r].seen = request[r].seen /\ request'[r].pc = After(r)
          /\ request'[r].bm25 = KeywordSearch(Query, Done, Pool(mode, K))
          /\ request'[r].semantic = request[r].semantic
      BY <1>1, <2>3 DEF AskKeyword, TypeOK, Request
    <3>2. Done \in request[r].seen
      BY <1>1, <2>3 DEF AskKeyword, NextKeyword, Seen, Active
    <3>3. SemanticAsked(r)' => SemanticAsked(r)
      BY <1>1, <2>1, <2>3, <3>1 DEF AskKeyword, NextKeyword, After, SemanticAsked, TypeOK, Modes
    <3>. QED
      BY <1>1, <3>1, <3>2, <3>3 DEF ListsAreSeen
  <2>4. CASE AskSemantic(r)
    <3>1. /\ request'[r].seen = request[r].seen /\ request'[r].pc = After(r)
          /\ request'[r].semantic = SemanticSearch(Query, Done, Pool(mode, K))
          /\ request'[r].bm25 = request[r].bm25
      BY <1>1, <2>4 DEF AskSemantic, TypeOK, Request
    <3>2. Done \in request[r].seen
      BY <1>1, <2>4 DEF AskSemantic, NextSemantic, Seen, Active
    <3>3. KeywordAsked(r)' => KeywordAsked(r)
      BY <1>1, <2>1, <2>4, <3>1 DEF AskSemantic, NextSemantic, After, KeywordAsked, TypeOK, Modes
    <3>. QED
      BY <1>1, <3>1, <3>2, <3>3 DEF ListsAreSeen
  <2>5. CASE ~AskKeyword(r) /\ ~AskSemantic(r)
    <3>1. request'[r].pc \in {"idle", "versioned", "missed", "answered"}
      <4>1. CASE ReadVersion(r)
        BY <1>1, <4>1 DEF ReadVersion, TypeOK, Request
      <4>2. CASE CacheMiss(r)
        BY <1>1, <4>2 DEF CacheMiss, TypeOK, Request
      <4>3. CASE ~ReadVersion(r) /\ ~CacheMiss(r)
        BY <1>1, <1>4, <2>5, <4>3, ReplyEnds DEF Acts
      <4>. QED
        BY <4>1, <4>2, <4>3
    <3>. QED
      BY <3>1 DEF KeywordAsked, SemanticAsked
  <2>. QED
    BY <2>3, <2>4, <2>5
<1>5. CASE UNCHANGED vars
  BY <1>1, <1>5 DEF vars, ListsAreSeen, KeywordAsked, SemanticAsked
<1>. QED
  BY <1>2, <1>3, <1>4, <1>5, StepCases

\* What a request answers is what its statements return over corpora it has seen.
LEMMA AnswerIsSeen ==
    ASSUME TypeOK, ListsAreSeen, Seen, NEW r \in Requests, request[r].pc = "second"
    PROVE  \E X, Y \in request[r].seen :
              Dispatch(Query, mode, K, request[r].bm25, request[r].semantic)
                  = AnswerOver(Query, mode, K, X, Y)
<1>1. Done \in request[r].seen /\ mode \in Modes
  BY DEF Seen, Active, TypeOK
<1>2. PICK X \in request[r].seen : mode # "semantic" =>
          request[r].bm25 = KeywordSearch(Query, X, Pool(mode, K))
  BY <1>1 DEF ListsAreSeen, KeywordAsked
<1>3. PICK Y \in request[r].seen : mode # "keyword" =>
          request[r].semantic = SemanticSearch(Query, Y, Pool(mode, K))
  BY <1>1 DEF ListsAreSeen, SemanticAsked
<1>4. Dispatch(Query, mode, K, request[r].bm25, request[r].semantic)
          = AnswerOver(Query, mode, K, X, Y)
  BY <1>1, <1>2, <1>3 DEF Dispatch, AnswerOver, Modes
<1>. QED
  BY <1>4

\* An entry that can still be found answers what those who may find it have seen.
LEMMA EntriesStep ==
    ASSUME CacheInv, [Next]_vars
    PROVE  EntriesAreSeen' /\ CurrentEntryIsExact'
<1> DEFINE Exact(key, X, Y) == cache[key] = AnswerOver(Query, mode, K, X, Y)
<1>1. /\ TypeOK /\ Stamping /\ VersionsAreKnown /\ Seen /\ ListsAreSeen
      /\ EntriesAreSeen /\ CurrentEntryIsExact
      /\ \A r \in Requests : request[r] \in Request /\ request[r].version \in Versions
      /\ \A key \in DOMAIN cache : key \in Versions /\ Known(key)
  BY DEF CacheInv, TypeOK, Request, VersionsAreKnown
<1>2. updated' \in [Docs -> Stamps]
  BY <1>1, StampStep
<1>3. CASE \E d \in Docs : Flush(d)
  <2>1. UNCHANGED <<request, cache, mode>> /\ Done' = Done /\ Version' = Version
    BY <1>1, <1>3, FlushMovesOn DEF Flush
  <2>. QED
    BY <1>1, <2>1 DEF EntriesAreSeen, CurrentEntryIsExact, Active
<1>4. CASE (\E D \in SUBSET Docs : Commit(D)) \/ Reset
  <2>1. UNCHANGED <<cache, mode>>
    BY <1>4 DEF Commit, Reset
  <2>2. \A r \in Requests : /\ Active(r)' <=> Active(r)
                            /\ request'[r].version = request[r].version
                            /\ Active(r) => request'[r].seen = request[r].seen \cup {Done'}
    BY <1>1, <1>4, CorpusStep
  <2>3. \A key \in DOMAIN cache : key # Empty => key # Version' \/ Version' = Empty
    BY <1>1, <1>2, <1>4, CommitMovesOn, ResetMovesOn
  <2>4. CurrentEntryIsExact'
    BY <2>1, <2>3 DEF CurrentEntryIsExact
  <2>5. EntriesAreSeen'
    BY <1>1, <2>1, <2>2 DEF EntriesAreSeen
  <2>. QED
    BY <2>4, <2>5
<1>5. ASSUME NEW r \in Requests, Acts(r) PROVE EntriesAreSeen' /\ CurrentEntryIsExact'
  <2>1. /\ mode' = mode /\ Done' = Done /\ Version' = Version
        /\ \A s \in Requests : s # r => request'[s] = request[s]
        /\ \A s \in Requests : s # r => (Active(s)' <=> Active(s))
    BY <1>1, <1>5, ActsAlone DEF corpus, Active
  <2>2. CASE cache' = cache
    <3>1. CurrentEntryIsExact'
      BY <1>1, <2>1, <2>2 DEF CurrentEntryIsExact
    <3>2. ASSUME Active(r)', request'[r].version # Empty, request'[r].version \in DOMAIN cache
          PROVE  \E X, Y \in request'[r].seen :
                     cache[request'[r].version] = AnswerOver(Query, mode, K, X, Y)
      <4>1. CASE request'[r].version = Version /\ request'[r].seen = {Done}
        BY <1>1, <3>2, <4>1 DEF CurrentEntryIsExact
      <4>2. CASE /\ Active(r) /\ request'[r].version = request[r].version
                 /\ request'[r].seen = request[r].seen
        BY <1>1, <3>2, <4>2 DEF EntriesAreSeen
      <4>. QED
        BY <1>1, <1>5, <3>2, <4>1, <4>2, ActsKeeps
    <3>3. EntriesAreSeen'
      BY <1>1, <2>1, <2>2, <3>2 DEF EntriesAreSeen
    <3>. QED
      BY <3>1, <3>3
  <2>3. CASE cache' # cache
    <3> DEFINE result == Dispatch(Query, mode, K, request[r].bm25, request[r].semantic)
               own == request[r].version
    <3>1. Answer(r)
      BY <1>5, <2>3 DEF Acts, ReadVersion, CacheHit, CacheMiss, AskKeyword, AskSemantic, Fail
    <3>2. PICK X \in request[r].seen, Y \in request[r].seen :
              result = AnswerOver(Query, mode, K, X, Y)
      BY <1>1, <3>1, AnswerIsSeen DEF Answer
    <3>3. cache' = [key \in DOMAIN cache \cup {own} |-> IF key = own THEN result ELSE cache[key]]
      BY <2>3, <3>1 DEF Answer, StoreKey
    <3>4. Active(r) /\ ~Active(r)'
      BY <1>1, <3>1, ReplyEnds DEF Answer, Active
    <3> HIDE DEF result
    <3>5. /\ \A key \in DOMAIN cache' : key # own => key \in DOMAIN cache /\ cache'[key] = cache[key]
          /\ cache'[own] = AnswerOver(Query, mode, K, X, Y)
      BY <3>2, <3>3
    <3>6. own = Version /\ Version # Empty => X = Done /\ Y = Done
      BY <1>1, <3>4 DEF Seen
    <3>7. CurrentEntryIsExact'
      BY <1>1, <2>1, <3>5, <3>6 DEF CurrentEntryIsExact
    <3>8. ASSUME NEW s \in Requests, Active(s)', request'[s].version # Empty,
                 request'[s].version \in DOMAIN cache'
          PROVE  \E U, V \in request'[s].seen :
                     cache'[request'[s].version] = AnswerOver(Query, mode, K, U, V)
      <4>1. s # r /\ Active(s) /\ request'[s] = request[s]
        BY <2>1, <3>4, <3>8
      <4>2. CASE request[s].version = own
        <5>1. request[s].seen = request[r].seen
          BY <1>1, <3>4, <3>8, <4>1, <4>2 DEF Seen
        <5>. QED
          BY <3>2, <3>5, <4>1, <4>2, <5>1
      <4>3. CASE request[s].version # own
        BY <1>1, <3>5, <3>8, <4>1, <4>3 DEF EntriesAreSeen
      <4>. QED
        BY <4>2, <4>3
    <3>9. EntriesAreSeen'
      BY <2>1, <3>8 DEF EntriesAreSeen
    <3>. QED
      BY <3>7, <3>9
  <2>. QED
    BY <2>2, <2>3
<1>6. CASE UNCHANGED vars
  <2>1. UNCHANGED <<request, cache, mode>> /\ Done' = Done /\ Version' = Version
    BY <1>6 DEF vars, Done, Version
  <2>. QED
    BY <1>1, <2>1 DEF EntriesAreSeen, CurrentEntryIsExact, Active
<1>. QED
  BY <1>3, <1>4, <1>5, <1>6, StepCases

\* The invariant holds at first: nothing is under way and nothing is stored.
LEMMA CacheBegins == Init => CacheInv
<1> SUFFICES ASSUME Init PROVE CacheInv
  OBVIOUS
<1>1. Cardinality(Docs) \in Nat
  BY SearchAssumption, FS_CardinalityType
<1>2. request \in [Requests -> Request] /\ \A r \in Requests : request[r].pc = "idle"
  <2>1. <<>> \in Ranked /\ <<0, 0>> \in Versions
    BY <1>1 DEF Ranked, SeqOf, Versions, Stamps
  <2>. QED
    BY <2>1 DEF Init, Fresh, Request
<1>3. DOMAIN cache = {}
  BY DEF Init
<1>4. updated \in [Docs -> Stamps] /\ flushed \in [Docs -> Stamps] /\ gone \subseteq Docs
      /\ resets \in 0..MaxResets
  BY <1>1, SearchAssumption DEF Init, Stamps
<1>5. Cardinality(Stamped) \in Nat
  BY SearchAssumption, FS_Subset, FS_CardinalityType DEF Stamped
<1>6. TypeOK
  BY <1>1, <1>2, <1>3, <1>4 DEF TypeOK, Init
<1>7. Stamping
  BY <1>5 DEF Stamping, Init
<1>. QED
  BY <1>2, <1>3, <1>6, <1>7
  DEF CacheInv, VersionsAreKnown, Seen, ListsAreSeen, EntriesAreSeen, CurrentEntryIsExact,
      Active, KeywordAsked, SemanticAsked

\* What the requests and the cache hold fits what the corpus has been (the
\* endpoint of search.py, which reads the version first and stores under it).
THEOREM CacheInvariant == Spec => []CacheInv
<1>1. CacheInv /\ [Next]_vars => CacheInv'
  BY TypeStep, StampStep, VersionsStep, SeenStep, ListsStep, EntriesStep DEF CacheInv
<1>. QED
  BY <1>1, CacheBegins, PTL DEF Spec

\* Every variable keeps its type: no answer, and no entry, is longer than k.
THEOREM SearchIsTyped == Spec => []TypeOK
<1>1. CacheInv => TypeOK
  BY DEF CacheInv
<1>. QED
  BY <1>1, CacheInvariant, PTL

\* An entry that a request of this moment would find is what a search of this
\* moment would answer, unless the corpus is empty (the cache key of search.py).
THEOREM HitsAreCurrent == Spec => []CurrentEntryIsExact
<1>1. CacheInv => CurrentEntryIsExact
  BY DEF CacheInv
<1>. QED
  BY <1>1, CacheInvariant, PTL

\* An answer, cached or not, is over states of the corpus that the request lived
\* through, unless it read the version of the empty one (the endpoint of search.py).
THEOREM SearchIsFresh == Spec => AnswersAreFresh
<1>1. ASSUME CacheInv, [Next]_vars, NEW r \in Requests,
             request[r].pc # "answered", request'[r].pc = "answered", request[r].version # Empty
      PROVE  \E first, second \in request[r].seen :
                request'[r].result = AnswerOver(Query, mode, K, first, second)
  <2>1. TypeOK /\ Stamping /\ Seen /\ ListsAreSeen /\ EntriesAreSeen
    BY <1>1 DEF CacheInv
  <2>2. request'[r] # request[r]
    BY <1>1
  <2>3. ~((\E D \in SUBSET Docs : Commit(D)) \/ Reset)
    BY <1>1, <2>1, CorpusStep
  <2>4. Acts(r)
    <3>1. request' # request
      BY <2>2
    <3>2. \E s \in Requests : Acts(s)
      BY <1>1, <2>3, <3>1, StepCases DEF Flush, vars
    <3>. QED
      BY <2>1, <2>2, <3>2, ActsAlone
  <2>5. ASSUME NEW result, Reply(r, result) PROVE request'[r].result = result
    <3>1. request'[r] = [Fresh EXCEPT !.pc = "answered", !.result = result]
      BY <2>1, <2>5 DEF Reply, TypeOK
    <3>. QED
      BY <3>1 DEF Fresh
  <2>6. CASE CacheHit(r)
    <3>1. request'[r].result = cache[request[r].version]
      BY <2>5, <2>6 DEF CacheHit
    <3>. QED
      BY <1>1, <2>1, <2>6, <3>1 DEF CacheHit, EntriesAreSeen, Active
  <2>7. CASE Answer(r)
    <3>1. request'[r].result = Dispatch(Query, mode, K, request[r].bm25, request[r].semantic)
      BY <2>5, <2>7 DEF Answer
    <3>. QED
      BY <2>1, <2>7, <3>1, AnswerIsSeen DEF Answer
  <2>8. CASE ~CacheHit(r) /\ ~Answer(r)
    <3>1. CASE Fail(r)
      <4>1. request'[r] = Fresh
        BY <2>1, <3>1 DEF Fail, TypeOK
      <4>. QED
        BY <1>1, <4>1 DEF Fresh
    <3>2. CASE ~Fail(r)
      <4>1. Active(r)'
        <5>1. request[r] \in Request /\ request \in [Requests -> Request]
          BY <2>1 DEF TypeOK
        <5>2. After(r) \in {"first", "second"}
          BY DEF After
        <5>3. request'[r].pc \in {"versioned", "missed", "first", "second"}
          <6>1. CASE ReadVersion(r) \/ CacheMiss(r)
            BY <5>1, <6>1 DEF ReadVersion, CacheMiss, Request
          <6>2. CASE AskKeyword(r) \/ AskSemantic(r)
            BY <5>1, <5>2, <6>2 DEF AskKeyword, AskSemantic, Request
          <6>. QED
            BY <2>4, <2>8, <3>2, <6>1, <6>2 DEF Acts
        <5>. QED
          BY <5>3 DEF Active
      <4>. QED
        BY <1>1, <4>1 DEF Active
    <3>. QED
      BY <3>1, <3>2
  <2>. QED
    BY <2>6, <2>7, <2>8
<1>2. CacheInv /\ [Next]_vars =>
          \A r \in Requests :
              /\ request[r].pc # "answered" /\ request'[r].pc = "answered"
              /\ request[r].version # Empty
              => \E first, second \in request[r].seen :
                    request'[r].result = AnswerOver(Query, mode, K, first, second)
  BY <1>1
<1>. QED
  BY <1>2, CacheInvariant, PTL DEF Spec, AnswersAreFresh

-----------------------------------------------------------------------------
(* What the answers are worth.                                             *)

\* In a list without repetition the rank is the place.
LEMMA AheadRanks ==
    ASSUME NEW list \in Ranked, Distinct(list), NEW d, NEW e, Ahead(d, e, list)
    PROVE  /\ d \in Range(list) /\ e \in Range(list)
           /\ Rank(list, d) \in Nat \ {0} /\ Rank(list, e) \in Nat
           /\ Rank(list, d) < Rank(list, e)
<1>1. PICK n \in Nat : list \in [1..n -> Docs]
  BY ModelLists
<1>2. PICK i \in 1..n, j \in 1..n : i < j /\ list[i] = d /\ list[j] = e
  BY <1>1 DEF Ahead
<1>3. d \in Range(list) /\ e \in Range(list)
  BY <1>1, <1>2 DEF Range
<1>4. Rank(list, d) = i /\ Rank(list, e) = j
  BY <1>1, <1>2, <1>3, RankIsPlace DEF Distinct
<1>. QED
  BY <1>2, <1>3, <1>4

\* What is ahead in both lists scores no less in the fusion, and is met first.
LEMMA AgreementOutranks ==
    ASSUME NEW bm25 \in Ranked, Distinct(bm25), NEW semantic \in Ranked, Distinct(semantic),
           NEW d, NEW e, Ahead(d, e, bm25), Ahead(d, e, semantic)
    PROVE  /\ d \in Found(bm25, semantic) /\ e \in Found(bm25, semantic)
           /\ Outranks(Fused(bm25, semantic), bm25, semantic, d, e)
<1>1. ASSUME NEW list \in Ranked, Distinct(list), Ahead(d, e, list)
      PROVE  Weight(list, d) \in Nat /\ Weight(list, e) \in Nat /\ Weight(list, e) <= Weight(list, d)
  <2>1. /\ d \in Range(list) /\ e \in Range(list)
        /\ Rank(list, d) \in Nat \ {0} /\ Rank(list, e) \in Nat
        /\ Rank(list, d) < Rank(list, e)
    BY <1>1, AheadRanks
  <2>2. Denominator \in Nat /\ RrfK \in Nat
    BY ModelLists, DenominatorType
  <2>3. PICK a \in Nat \ {0} : a = RrfK + Rank(list, d)
    BY <2>1, <2>2
  <2>4. PICK b \in Nat \ {0} : b = RrfK + Rank(list, e)
    BY <2>1, <2>2
  <2>5. a <= b
    BY <2>1, <2>2, <2>3, <2>4
  <2>6. Denominator \div b <= Denominator \div a
    BY <2>2, <2>5, QuotientFalls
  <2>7. Weight(list, d) = Denominator \div a /\ Weight(list, e) = Denominator \div b
    BY <2>1, <2>3, <2>4 DEF Weight
  <2>8. Denominator \div a \in Nat /\ Denominator \div b \in Nat
    BY <2>2
  <2>. QED
    BY <2>6, <2>7, <2>8
<1>2. /\ d \in Range(bm25) /\ e \in Range(bm25)
      /\ Rank(bm25, d) < Rank(bm25, e)
  BY AheadRanks
<1>3. d \in Found(bm25, semantic) /\ e \in Found(bm25, semantic)
  BY <1>2 DEF Found
<1>4. /\ Fused(bm25, semantic)[d] = Weight(bm25, d) + Weight(semantic, d)
      /\ Fused(bm25, semantic)[e] = Weight(bm25, e) + Weight(semantic, e)
  BY <1>3 DEF Found, Fused, FusedScore
<1>5. \/ Fused(bm25, semantic)[d] > Fused(bm25, semantic)[e]
      \/ Fused(bm25, semantic)[d] = Fused(bm25, semantic)[e]
  BY <1>1, <1>4
<1>6. Position(bm25, semantic, d) < Position(bm25, semantic, e)
  BY <1>2 DEF Position
<1>. QED
  BY <1>3, <1>5, <1>6 DEF Outranks

\* The lists of a request that has made its statements have no repetition.
LEMMA ListsAreDistinct ==
    ASSUME TypeOK, Seen, ListsAreSeen, NEW r \in Requests, Ready(r)
    PROVE  /\ Bm25(r) \in Ranked /\ Nearest(r) \in Ranked
           /\ mode # "semantic" => Distinct(Bm25(r))
           /\ mode # "keyword" => Distinct(Nearest(r))
<1>1. /\ request[r] \in Request /\ request[r].pc = "second"
      /\ request[r].seen \in SUBSET SUBSET Docs /\ Pool(mode, K) \in Nat
  BY SearchAssumption DEF TypeOK, Seen, Active, Ready, Pool
<1>2. ASSUME NEW X \in SUBSET Docs
      PROVE  /\ Distinct(KeywordSearch(Query, X, Pool(mode, K)))
             /\ Distinct(SemanticSearch(Query, X, Pool(mode, K)))
  BY <1>1, RetrieveType
<1>3. mode # "semantic" => Distinct(request[r].bm25)
  BY <1>1, <1>2 DEF ListsAreSeen, KeywordAsked
<1>4. mode # "keyword" => Distinct(request[r].semantic)
  BY <1>1, <1>2 DEF ListsAreSeen, SemanticAsked
<1>. QED
  BY <1>1, <1>3, <1>4 DEF Request, Bm25, Nearest

\* A document that both retrievers rank ahead of another is ahead of it in the
\* hybrid answer (reciprocal rank fusion in search.py).
THEOREM FusionAgrees == Spec => []AgreementWins
<1>1. ASSUME CacheInv, NEW r \in Requests, Ready(r), mode = "hybrid", NEW d, NEW e,
             Ahead(d, e, Bm25(r)), Ahead(d, e, Nearest(r)),
             e \in Range(HybridSearch(K, Bm25(r), Nearest(r)))
      PROVE  Ahead(d, e, HybridSearch(K, Bm25(r), Nearest(r)))
  <2> DEFINE score == Fused(Bm25(r), Nearest(r))
             n == Cardinality(Found(Bm25(r), Nearest(r)))
             list == SortedBy(score, Bm25(r), Nearest(r))
             top == TopK(list, K)
  <2>0. /\ Bm25(r) \in Ranked /\ Distinct(Bm25(r))
        /\ Nearest(r) \in Ranked /\ Distinct(Nearest(r))
    BY <1>1, ListsAreDistinct DEF CacheInv
  <2>1. Bm25(r) \in Seq(Docs) /\ Nearest(r) \in Seq(Docs) /\ K \in Nat
    BY <2>0, ModelLists
  <2>2. /\ d \in Found(Bm25(r), Nearest(r)) /\ e \in Found(Bm25(r), Nearest(r))
        /\ Outranks(score, Bm25(r), Nearest(r), d, e)
    BY <1>1, <2>0, AgreementOutranks
  <2>3. \A c \in Found(Bm25(r), Nearest(r)) : score[c] \in Int
    BY <2>1, ModelLists, FusedType DEF Fused, Found
  <2>4. top = HybridSearch(K, Bm25(r), Nearest(r))
    BY DEF HybridSearch
  <2> HIDE DEF score
  <2>5. /\ \A c \in Found(Bm25(r), Nearest(r)) : \E i \in 1..n : list[i] = c
        /\ \A i, j \in 1..n : i < j <=> Outranks(score, Bm25(r), Nearest(r), list[i], list[j])
    <3>1. \A first, second \in Seq(Docs) :
             (\A c \in Found(first, second) : score[c] \in Int)
             => LET m == Cardinality(Found(first, second))
                    sorted == SortedBy(score, first, second)
                IN  /\ \A c \in Found(first, second) : \E i \in 1..m : sorted[i] = c
                    /\ \A i, j \in 1..m : i < j <=> Outranks(score, first, second, sorted[i], sorted[j])
      BY SortReturns
    <3>. QED
      BY <2>1, <2>3, <3>1
  <2>6. /\ n \in Nat /\ Cut(n, K) \in Nat /\ Cut(n, K) <= n
        /\ DOMAIN top = 1..Cut(n, K) /\ \A i \in 1..Cut(n, K) : top[i] = list[i]
    <3>1. CutKeeps(Docs, score, Bm25(r), Nearest(r), K)
      BY <2>1, <2>3, CutOfSort
    <3>. QED
      BY <3>1 DEF CutKeeps
  <2> HIDE DEF n, list, top
  <2>7. PICK j \in 1..Cut(n, K) : list[j] = e
    BY <1>1, <2>4, <2>6 DEF Range
  <2>8. PICK i \in 1..n : list[i] = d
    BY <2>2, <2>5
  <2>9. i < j
    BY <2>2, <2>5, <2>6, <2>7, <2>8
  <2>10. i \in DOMAIN top /\ j \in DOMAIN top /\ top[i] = d /\ top[j] = e
    BY <2>6, <2>7, <2>8, <2>9
  <2>. QED
    BY <2>4, <2>9, <2>10 DEF Ahead
<1>2. CacheInv => AgreementWins
  BY <1>1 DEF AgreementWins
<1>. QED
  BY <1>2, CacheInvariant, PTL

\* The most relevant document that either retriever found leads the rerank answer
\* (the reranker of search.py gets both lists and not their fusion).
THEOREM RerankKeepsTheBest == Spec => []SingleSignalSurvives
<1>1. ASSUME CacheInv, NEW r \in Requests, Ready(r), mode = "rerank",
             NEW d \in Range(Bm25(r)) \cup Range(Nearest(r))
      PROVE  Relevance[Query][d]
                 <= Relevance[Query][RerankSearch(Query, K, Bm25(r), Nearest(r))[1]]
  <2> DEFINE score == Relevance[Query]
             S == Found(Nearest(r), Bm25(r))
             n == Cardinality(S)
             list == SortedBy(score, Nearest(r), Bm25(r))
             top == TopK(list, K)
  <2>1. Bm25(r) \in Seq(Docs) /\ Nearest(r) \in Seq(Docs) /\ K \in Nat
    BY <1>1, ListsAreDistinct, ModelLists DEF CacheInv
  <2>2. d \in S /\ S \in SUBSET Docs /\ \A c \in S : score[c] \in Int
    BY <2>1, SearchAssumption, ListHolds DEF Found
  <2>3. top = RerankSearch(Query, K, Bm25(r), Nearest(r))
    BY DEF RerankSearch
  <2> HIDE DEF score
  <2>4. /\ n \in Nat /\ list \in [1..n -> S]
        /\ \A c \in S : \E i \in 1..n : list[i] = c
        /\ \A i, j \in 1..n : i < j <=> Outranks(score, Nearest(r), Bm25(r), list[i], list[j])
    BY <2>1, <2>2, SortReturns, SMTT(30)
  <2>5. /\ n > 0 => Cut(n, K) > 0
        /\ Cut(n, K) \in Nat /\ \A i \in 1..Cut(n, K) : top[i] = list[i]
    <3>1. CutKeeps(Docs, score, Nearest(r), Bm25(r), K)
      BY <2>1, <2>2, CutOfSort
    <3>2. K > 0
      BY SearchAssumption
    <3>. QED
      BY <3>1, <3>2 DEF CutKeeps
  <2> HIDE DEF S, n, list, top
  <2>6. PICK i \in 1..n : list[i] = d
    BY <2>2, <2>4
  <2>7. top[1] = list[1] /\ 1 \in 1..n
    BY <2>4, <2>5, <2>6
  <2>8. score[d] \in Int /\ score[list[1]] \in Int
    BY <2>2, <2>4, <2>7
  <2>9. CASE i = 1
    BY <2>3, <2>6, <2>7, <2>8, <2>9 DEF score
  <2>10. CASE i # 1
    <3>1. Outranks(score, Nearest(r), Bm25(r), list[1], list[i])
      BY <2>4, <2>6, <2>7, <2>10
    <3>2. score[d] <= score[list[1]]
      BY <2>6, <2>8, <3>1 DEF Outranks
    <3>. QED
      BY <2>3, <2>7, <3>2 DEF score
  <2>. QED
    BY <2>9, <2>10
<1>2. CacheInv => SingleSignalSurvives
  BY <1>1 DEF SingleSignalSurvives
<1>. QED
  BY <1>2, CacheInvariant, PTL
=============================================================================
