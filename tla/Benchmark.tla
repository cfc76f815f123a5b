----------------------------- MODULE Benchmark -----------------------------
(***************************************************************************)
(* eval.run_benchmark and the regression gate: runs that label, search and *)
(* report while the corpus is loaded, reset and added to, and that may     *)
(* share an output directory.                                              *)
(***************************************************************************)
EXTENDS Integers, Ranking, Metrics

CONSTANTS
    Corpus,     \* chunk contents of the evaluation corpus
    Extra,      \* chunk contents of a document that is uploaded
    Relevant,   \* by query: the contents with one of its markers
    QuerySets,  \* the query files: sequences of queries
    Ks,         \* values of --k
    Cutoff,     \* the 5 of P@5
    Baseline,   \* the committed report: k, n_queries, and nDCG by mode
    MaxDrop,    \* --max-drop, in percent
    Runs,       \* processes of eval.run_benchmark
    Dirs,       \* output directories
    None,       \* no run
    Effort      \* bound: queries of the runs begun and changes of the index, together

\* What the ids of chunks can be: a content, and when it was inserted.
Chunks == (Corpus \cup Extra) \X (0..Effort)

ASSUME ConstantsAssumption ==
    /\ Corpus # {} /\ Extra # {} /\ IsFiniteSet(Corpus \cup Extra)
    /\ \A queries \in QuerySets : queries \in Seq(DOMAIN Relevant) /\ queries # <<>>
    /\ \A query \in DOMAIN Relevant :
          /\ KeywordOrder[query] \in Seq(Chunks) /\ SemanticOrder[query] \in Seq(Chunks)
          /\ \A id \in Chunks : Relevance[query][id] \in Int
    /\ {RrfK, HybridPool, RerankPool} \subseteq Nat
    /\ Ks \subseteq 1..Len(Discount) /\ Cutoff \in Nat \ {0}
    /\ DOMAIN Baseline.modes \subseteq Modes /\ MaxDrop \in Int
    /\ \A mode \in DOMAIN Baseline.modes : Baseline.modes[mode] \in Int
    /\ IsFiniteSet(Runs) /\ None \notin Runs
    /\ Effort \in Nat

VARIABLES
    index,      \* the committed chunks
    changes,    \* how often the index has changed
    run,        \* eval.run_benchmark, as each process executes it
    report,     \* benchmark.json by directory
    table       \* benchmark.md by directory: the run that wrote it

vars == <<index, changes, run, report, table>>

\* A chunk's id is a new UUID whenever it is inserted.
\* Mutant: the id is derived from the content.
DerivedId(content) == <<content, 0>>
NewId(content)     == <<content, changes + 1>>

\* benchmark.json: not there, truncated, the text of one run, or of two.
Report == [state : {"absent", "empty", "whole", "mixed"}, by : Runs \cup {None}]

Idle == [pc |-> "idle", dir |-> None, k |-> 0, queries |-> <<>>,
         labelled |-> {}, half |-> FALSE, first |-> <<>>, answers |-> <<>>,
         results |-> None, hits |-> <<>>,
         counted |-> {},  \* the index whose chunks the metadata counts
         found |-> {}]    \* history: the runs that had reported when this one began

Init ==
    /\ index = Corpus \X {0}
    /\ changes = 0
    /\ run = [r \in Runs |-> Idle]
    /\ report = [d \in Dirs |-> [state |-> "absent", by |-> None]]
    /\ table = [d \in Dirs |-> None]

-----------------------------------------------------------------------------
(* What is measured.                                                       *)

\* Modes in order, in each the queries in order.
ModeOrder == <<"keyword", "semantic", "hybrid", "rerank">>
PlanLength(queries) == Len(ModeOrder) * Len(queries)
ModeAt(queries, i)  == ModeOrder[1 + ((i - 1) \div Len(queries))]
QueryAt(queries, i) == queries[1 + ((i - 1) % Len(queries))]

\* Where the answer of a mode to the j-th query is.
Slot(queries, mode, j) ==
    ((CHOOSE m \in DOMAIN ModeOrder : ModeOrder[m] = mode) - 1) * Len(queries) + j

\* The labels of a query: ids of chunks that hold a marker.
Gold(query, corpus) == {id \in corpus : id[1] \in Relevant[query]}

MetricNames == {"precision", "recall", "mrr", "ndcg"}

\* What one metric gives the answer to one query.
Score(metric, hits, gold, k) ==
    CASE metric = "precision" -> PrecisionAt(hits, gold, Cutoff)
      [] metric = "recall"    -> RecallAt(hits, gold, k)
      [] metric = "mrr"       -> ReciprocalRank(hits, gold)
      [] metric = "ndcg"      -> NdcgAt(hits, gold, k)

\* The scores of one mode, in the order of the queries.
Scores(metric, mode, k, queries, labelled, answers) ==
    [j \in 1..Len(queries) |->
        Score(metric, answers[Slot(queries, mode, j)], Gold(queries[j], labelled), k)]

\* By mode and metric, the mean over the queries.
Results(k, queries, labelled, answers) ==
    [mode \in Modes |->
        [metric \in MetricNames |-> Mean(Scores(metric, mode, k, queries, labelled, answers))]]

-----------------------------------------------------------------------------
(* The index.                                                              *)

Spent == changes + Cardinality({asked \in Runs \X (1..Effort) : asked[2] <= Len(run[asked[1]].queries)})

\* eval.ingest_corpus commits the whole corpus, a worker one document.
Add(contents) ==
    /\ Spent < Effort
    /\ index' = index \cup {NewId(content) : content \in contents}
    /\ changes' = changes + 1
    /\ UNCHANGED <<run, report, table>>

Reset ==
    /\ Spent < Effort /\ index # {}
    /\ index' = {}
    /\ changes' = changes + 1
    /\ UNCHANGED <<run, report, table>>

-----------------------------------------------------------------------------
(* A run.  Of the repeated searches of a query the last is kept; the ones  *)
(* before it, and the search that warms up the models, leave no trace.     *)

\* Mutant: the table is looked for.
HasTable(d) == table[d] # None
Occupied(d) == report[d].state # "absent"

Reported == {report[d].by : d \in Dirs} \ {None}

\* Otherwise it exits: the directory has a benchmark.json, or k is too small.
Begin(r, d, k, queries) ==
    /\ run[r].pc = "idle" /\ Spent + Len(queries) <= Effort
    /\ ~Occupied(d) /\ k >= Cutoff
    /\ run' = [run EXCEPT ![r].pc = "labels", ![r].dir = d, ![r].k = k,
                          ![r].queries = queries, ![r].found = Reported]
    /\ UNCHANGED <<index, changes, report, table>>

Label(r) ==
    /\ run[r].pc = "labels"
    /\ \A query \in Range(run[r].queries) : Gold(query, index) # {}
    /\ run' = [run EXCEPT ![r].pc = "asking", ![r].labelled = index]
    /\ UNCHANGED <<index, changes, report, table>>

Asking(r) == run[r].pc = "asking" /\ Len(run[r].answers) < PlanLength(run[r].queries)
Mode(r)   == ModeAt(run[r].queries, Len(run[r].answers) + 1)
Query(r)  == QueryAt(run[r].queries, Len(run[r].answers) + 1)
ByKeyword(r)  == KeywordSearch(Query(r), index, Pool(Mode(r), run[r].k))
ByMeaning(r)  == SemanticSearch(Query(r), index, Pool(Mode(r), run[r].k))

\* The first of the two statements of a search.
AskFirst(r) ==
    /\ Asking(r) /\ Mode(r) \in {"hybrid", "rerank"} /\ ~run[r].half
    /\ run' = [run EXCEPT ![r].half = TRUE,
                          ![r].first = IF Mode(r) = "hybrid" THEN ByKeyword(r) ELSE ByMeaning(r)]
    /\ UNCHANGED <<index, changes, report, table>>

Answer(r) ==
    Dispatch(Query(r), Mode(r), run[r].k,
             IF Mode(r) = "hybrid" THEN run[r].first ELSE ByKeyword(r),
             IF Mode(r) = "rerank" THEN run[r].first ELSE ByMeaning(r))

AskLast(r) ==
    /\ Asking(r) /\ (Mode(r) \in {"hybrid", "rerank"} => run[r].half)
    /\ run' = [run EXCEPT ![r].half = FALSE, ![r].first = <<>>,
                          ![r].answers = Append(@, Answer(r))]
    /\ UNCHANGED <<index, changes, report, table>>

Complete(r) == run[r].pc = "asking" /\ Len(run[r].answers) = PlanLength(run[r].queries)
HitsOf(r)    == [i \in DOMAIN run[r].answers |->
                    HitRanks(run[r].answers[i], Gold(QueryAt(run[r].queries, i), run[r].labelled), run[r].k)]
ResultsOf(r) == Results(run[r].k, run[r].queries, run[r].labelled, run[r].answers)

\* The scores are averaged, and the metadata counts the chunks in another session.
Count(r) ==
    /\ Complete(r)
    /\ run' = [run EXCEPT ![r].pc = "opening", ![r].answers = <<>>, ![r].hits = HitsOf(r),
                          ![r].results = ResultsOf(r), ![r].counted = index]
    /\ UNCHANGED <<index, changes, report, table>>

OpenReport(r) ==
    /\ run[r].pc = "opening"
    /\ run' = [run EXCEPT ![r].pc = "dumping"]
    /\ report' = [report EXCEPT ![run[r].dir] = [state |-> "empty", by |-> None]]
    /\ UNCHANGED <<index, changes, table>>

\* The text is written from the start of the file when it is closed: of a longer
\* text that another run wrote since the file was opened, the end remains.
Dump(r) ==
    /\ run[r].pc = "dumping"
    /\ run' = [run EXCEPT ![r].pc = "table"]
    /\ \/ report' = [report EXCEPT ![run[r].dir] = [state |-> "whole", by |-> r]]
       \/ /\ report[run[r].dir].state \in {"whole", "mixed"}
          /\ report' = [report EXCEPT ![run[r].dir] = [state |-> "mixed", by |-> None]]
    /\ UNCHANGED <<index, changes, table>>

WriteTable(r) ==
    /\ run[r].pc = "table"
    /\ run' = [run EXCEPT ![r].pc = "ended"]
    /\ table' = [table EXCEPT ![run[r].dir] = r]
    /\ UNCHANGED <<index, changes, report>>

\* A label is missing, a search or a file operation raises, or the process dies.
Stop(r) ==
    /\ \/ /\ run[r].pc \in {"labels", "asking", "opening", "dumping"}
          /\ run' = [run EXCEPT ![r] = [Idle EXCEPT !.pc = "stopped", !.queries = run[r].queries]]
       \/ /\ run[r].pc = "table"
          /\ run' = [run EXCEPT ![r].pc = "stopped"]
    /\ UNCHANGED <<index, changes, report, table>>

Next ==
    \/ Add(Corpus) \/ Add(Extra) \/ Reset
    \/ \E r \in Runs :
        \/ \E d \in Dirs, k \in Ks, queries \in QuerySets : Begin(r, d, k, queries)
        \/ Label(r) \/ AskFirst(r) \/ AskLast(r) \/ Count(r)
        \/ OpenReport(r) \/ Dump(r) \/ WriteTable(r) \/ Stop(r)

Spec == Init /\ [][Next]_vars

-----------------------------------------------------------------------------
(* The gate.                                                               *)

Floor == [mode \in DOMAIN Baseline.modes |-> (Baseline.modes[mode] * (100 - MaxDrop)) \div 100]

\* The exit code of eval.check_regression is zero.
Passes(d) ==
    /\ report[d].state = "whole"
    /\ LET r == report[d].by IN
       /\ run[r].k = Baseline.k
       /\ Len(run[r].queries) = Baseline.n_queries
       /\ \A mode \in DOMAIN Baseline.modes : run[r].results[mode]["ndcg"] >= Floor[mode]

-----------------------------------------------------------------------------
(* Properties.                                                             *)

\* Every variable keeps its type, and no score exceeds one.
TypeOK ==
    /\ changes \in 0..Effort
    /\ index \subseteq Chunks
    /\ report \in [Dirs -> Report]
    /\ table \in [Dirs -> Runs \cup {None}]
    /\ \A r \in Runs : run[r].results # None =>
          \A mode \in Modes : \A metric \in MetricNames :
              run[r].results[mode][metric] \in 0..One

\* A run never touches the report or the table of a directory in which another
\* run had reported before it began.
EarlierReportsAreKept ==
    [][\A r \in Runs, d \in Dirs :
          /\ run[r].pc # run'[r].pc
          /\ report[d].by \in run[r].found
          => report'[d] = report[d] /\ table'[d] = table[d]]_vars

IdealAnswers(k, queries, corpus) ==
    [i \in 1..PlanLength(queries) |->
        AnswerOver(QueryAt(queries, i), ModeAt(queries, i), k, corpus, corpus)]

\* The results of a run that has the index to itself.
IdealResults(k, queries, corpus) ==
    Results(k, queries, corpus, IdealAnswers(k, queries, corpus))

\* If the index that is counted is the one that was labelled, the scores are those
\* of searches over that index, whatever happened to the index in between.
QuietScoresAreExact ==
    \A r \in Runs : run[r].pc = "opening" /\ run[r].counted = run[r].labelled =>
        run[r].results = IdealResults(run[r].k, run[r].queries, run[r].labelled)

\* A mode that finds, of every query, as many labelled chunks as another mode in
\* every beginning of its list scores no worse, in each of the four metrics.
BetterRankingScoresHigher ==
    \A r \in Runs : run[r].pc = "opening" =>
        LET Found(mode, j, k) == Cardinality({rank \in run[r].hits[Slot(run[r].queries, mode, j)] : rank <= k})
        IN  \A mode, other \in Modes :
                (\A j \in DOMAIN run[r].queries, k \in 1..run[r].k : Found(mode, j, k) >= Found(other, j, k))
                => \A metric \in MetricNames :
                        run[r].results[mode][metric] >= run[r].results[other][metric]

\* When the gate passes a report, the queries that a mode answered with none of the
\* labelled chunks are no more than its floor leaves: a corpus that was replaced
\* after the labels were read does not pass unnoticed.
PassedModesAreMeasured ==
    \A d \in Dirs : Passes(d) =>
        LET r == report[d].by IN
        \A mode \in DOMAIN Baseline.modes :
            One * Cardinality({j \in DOMAIN run[r].queries :
                                run[r].hits[Slot(run[r].queries, mode, j)] = {}})
                <= Len(run[r].queries) * (One - Floor[mode])
=============================================================================
