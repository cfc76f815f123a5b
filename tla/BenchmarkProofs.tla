-------------------------- MODULE BenchmarkProofs --------------------------
(***************************************************************************)
(* What the benchmark promises, for every corpus, query set, number of     *)
(* runs and directories: reports are kept, scores over an index that was   *)
(* left alone are exact, a better ranking scores no worse, and what the    *)
(* gate passes was measured.                                               *)
(***************************************************************************)
EXTENDS Benchmark, RankingProofs

Fields == {"pc", "dir", "k", "queries", "labelled", "half", "first", "answers",
           "results", "hits", "counted", "found"}

\* Every process has one record with these fields.
Shape ==
    /\ DOMAIN run = Runs
    /\ \A r \in Runs : DOMAIN run[r] = Fields
    /\ DOMAIN report = Dirs
    /\ \A d \in Dirs : DOMAIN report[d] = {"state", "by"}
    /\ DOMAIN table = Dirs

LEMMA ShapeInit == Init => Shape
BY DEF Init, Idle, Shape, Fields

LEMMA ShapeNext == Shape /\ [Next]_vars => Shape'
<1> SUFFICES ASSUME Shape, [Next]_vars PROVE Shape'
  OBVIOUS
<1>1. CASE Add(Corpus) \/ Add(Extra) \/ Reset
  BY <1>1 DEF Add, Reset, Shape
<1>2. ASSUME NEW r \in Runs, NEW d \in Dirs, NEW k \in Ks, NEW queries \in QuerySets,
             Begin(r, d, k, queries)
      PROVE  Shape'
  BY <1>2 DEF Begin, Shape
<1>3. ASSUME NEW r \in Runs, Label(r) \/ AskFirst(r) \/ AskLast(r) \/ Count(r)
      PROVE  Shape'
  BY <1>3 DEF Label, AskFirst, AskLast, Count, Shape
<1>4. ASSUME NEW r \in Runs, OpenReport(r) \/ Dump(r) \/ WriteTable(r)
      PROVE  Shape'
  BY <1>4 DEF OpenReport, Dump, WriteTable, Shape
<1>5. ASSUME NEW r \in Runs, Stop(r) PROVE Shape'
  BY <1>5 DEF Stop, Idle, Shape, Fields
<1>6. CASE UNCHANGED vars
  BY <1>6 DEF vars, Shape
<1> QED
  BY <1>1, <1>2, <1>3, <1>4, <1>5, <1>6 DEF Next

-----------------------------------------------------------------------------
(* Reports are kept.                                                       *)

Past == {"table", "ended", "stopped"}

\* A report is by a run that is past writing it, and so are those that a run found
\* when it began: in the run's own directory there is none of them.
KeptInv ==
    /\ Shape
    /\ \A d \in Dirs : /\ report[d].by \in Runs \cup {None}
                       /\ report[d].state # "whole" => report[d].by = None
                       /\ report[d].by # None => run[report[d].by].pc \in Past
    /\ \A r \in Runs : /\ run[r].found \subseteq Runs
                       /\ \A q \in run[r].found : run[q].pc \in Past
                       /\ run[r].found # {} =>
                             run[r].dir \in Dirs /\ report[run[r].dir].by \notin run[r].found
                       /\ run[r].pc # "idle" /\ run[r].pc # "stopped" => run[r].dir \in Dirs

LEMMA KeptInit == Init => KeptInv
BY ShapeInit DEF Init, Idle, KeptInv, Shape

LEMMA KeptNext == KeptInv /\ [Next]_vars => KeptInv'
<1> SUFFICES ASSUME KeptInv, [Next]_vars PROVE KeptInv'
  OBVIOUS
<1>n. None \notin Runs
  BY ConstantsAssumption
<1> USE <1>n
<1>0. Shape /\ Shape'
  BY ShapeNext DEF KeptInv
<1>1. CASE Add(Corpus) \/ Add(Extra) \/ Reset
  BY <1>0, <1>1 DEF Add, Reset, KeptInv
<1>2. ASSUME NEW r \in Runs, NEW d \in Dirs, NEW k \in Ks, NEW queries \in QuerySets,
             Begin(r, d, k, queries)
      PROVE  KeptInv'
  BY <1>0, <1>2 DEF Begin, KeptInv, Shape, Fields, Reported, Occupied, Past
<1>3. ASSUME NEW r \in Runs, Label(r) \/ AskFirst(r) \/ AskLast(r) \/ Count(r)
      PROVE  KeptInv'
  BY <1>0, <1>3 DEF Label, AskFirst, AskLast, Count, Asking, Complete, KeptInv, Shape, Fields, Past
<1>4. ASSUME NEW r \in Runs, OpenReport(r)
      PROVE  KeptInv'
  BY <1>0, <1>4 DEF OpenReport, KeptInv, Shape, Fields, Past
<1>5. ASSUME NEW r \in Runs, Dump(r)
      PROVE  KeptInv'
  BY <1>0, <1>5 DEF Dump, KeptInv, Shape, Fields, Past
<1>6. ASSUME NEW r \in Runs, WriteTable(r)
      PROVE  KeptInv'
  BY <1>0, <1>6 DEF WriteTable, KeptInv, Shape, Fields, Past
<1>7. ASSUME NEW r \in Runs, Stop(r)
      PROVE  KeptInv'
  <2>1. \A q \in Runs \ {r} : run'[q] = run[q]
    BY <1>7 DEF Stop, KeptInv, Shape
  <2>2. UNCHANGED <<report, table>>
    BY <1>7 DEF Stop
  <2>3. CASE run' = [run EXCEPT ![r] = [Idle EXCEPT !.pc = "stopped", !.queries = run[r].queries]]
    <3>1. run'[r].pc = "stopped" /\ run'[r].found = {}
      BY <2>3 DEF Idle, KeptInv, Shape
    <3> QED
      BY <1>0, <2>1, <2>2, <3>1 DEF KeptInv, Shape, Past
  <2>4. CASE run' = [run EXCEPT ![r].pc = "stopped"]
    BY <1>0, <2>2, <2>4 DEF KeptInv, Shape, Fields, Past
  <2> QED
    BY <1>7, <2>3, <2>4 DEF Stop
<1>8. CASE UNCHANGED vars
  BY <1>8 DEF vars, KeptInv, Shape
<1> QED
  BY <1>1, <1>2, <1>3, <1>4, <1>5, <1>6, <1>7, <1>8 DEF Next

\* The action of EarlierReportsAreKept.
KeptStep ==
    \A r \in Runs, d \in Dirs :
        /\ run[r].pc # run'[r].pc
        /\ report[d].by \in run[r].found
        => report'[d] = report[d] /\ table'[d] = table[d]

LEMMA StepKeeps == KeptInv /\ [Next]_vars => KeptStep
<1> SUFFICES ASSUME KeptInv, [Next]_vars, NEW r \in Runs, NEW d \in Dirs,
                    run[r].pc # run'[r].pc, report[d].by \in run[r].found
             PROVE  report'[d] = report[d] /\ table'[d] = table[d]
  BY DEF KeptStep
<1>1. run[r].dir # d
  BY DEF KeptInv
<1>2. CASE \E q \in Runs : OpenReport(q) \/ Dump(q) \/ WriteTable(q)
  <2>1. PICK q \in Runs : OpenReport(q) \/ Dump(q) \/ WriteTable(q)
    BY <1>2
  <2>2. q = r
    BY <2>1 DEF OpenReport, Dump, WriteTable, KeptInv, Shape
  <2> QED
    BY <1>1, <2>1, <2>2 DEF OpenReport, Dump, WriteTable, KeptInv, Shape
<1>3. CASE UNCHANGED <<report, table>>
  BY <1>3
<1>4. CASE Add(Corpus) \/ Add(Extra) \/ Reset
  BY <1>3, <1>4 DEF Add, Reset
<1>5. ASSUME NEW q \in Runs,
             \/ \E e \in Dirs, k \in Ks, queries \in QuerySets : Begin(q, e, k, queries)
             \/ Label(q) \/ AskFirst(q) \/ AskLast(q) \/ Count(q) \/ Stop(q)
      PROVE  report'[d] = report[d] /\ table'[d] = table[d]
  <2>1. CASE \E e \in Dirs, k \in Ks, queries \in QuerySets : Begin(q, e, k, queries)
    BY <1>3, <2>1 DEF Begin
  <2>2. CASE Label(q) \/ AskFirst(q) \/ Stop(q)
    BY <1>3, <2>2 DEF Label, AskFirst, Stop
  <2>3. CASE AskLast(q)
    BY <1>3, <2>3 DEF AskLast
  <2>4. CASE Count(q)
    BY <1>3, <2>4 DEF Count
  <2> QED
    BY <1>5, <2>1, <2>2, <2>3, <2>4
<1>6. CASE UNCHANGED vars
  BY <1>3, <1>6 DEF vars
<1> QED
  BY <1>2, <1>4, <1>5, <1>6 DEF Next

\* No run touches what another had reported before it began, for any number of runs
\* that share directories in any way.
THEOREM EarlierReports == Spec => EarlierReportsAreKept
<1>1. Init => KeptInv
  BY KeptInit
<1>2. KeptInv /\ [Next]_vars => KeptInv'
  BY KeptNext
<1>3. KeptInv /\ [Next]_vars => KeptStep
  BY StepKeeps
<1>4. KeptStep => [\A r \in Runs, d \in Dirs :
                      /\ run[r].pc # run'[r].pc
                      /\ report[d].by \in run[r].found
                      => report'[d] = report[d] /\ table'[d] = table[d]]_vars
  BY DEF KeptStep
<1> QED
  BY <1>1, <1>2, <1>3, <1>4, PTL DEF Spec, EarlierReportsAreKept

-----------------------------------------------------------------------------
(* Scores are exact.                                                       *)

\* The answers to the first n searches over one corpus.
Prefix(k, queries, corpus, n) ==
    [i \in 1..n |-> AnswerOver(QueryAt(queries, i), ModeAt(queries, i), k, corpus, corpus)]

LEMMA PrefixLen ==
    ASSUME NEW k, NEW queries, NEW corpus, NEW n \in Nat
    PROVE  Len(Prefix(k, queries, corpus, n)) = n
<1> DEFINE f(i) == AnswerOver(QueryAt(queries, i), ModeAt(queries, i), k, corpus, corpus)
<1> HIDE DEF f
<1>1. Len([i \in 1..n |-> f(i)]) = n
  OBVIOUS
<1> QED
  BY <1>1 DEF Prefix, f

LEMMA PrefixAppend ==
    ASSUME NEW k, NEW queries, NEW corpus, NEW n \in Nat
    PROVE  Append(Prefix(k, queries, corpus, n),
                  AnswerOver(QueryAt(queries, n + 1), ModeAt(queries, n + 1), k, corpus, corpus))
             = Prefix(k, queries, corpus, n + 1)
<1> DEFINE f(i) == AnswerOver(QueryAt(queries, i), ModeAt(queries, i), k, corpus, corpus)
<1> HIDE DEF f
<1>1. Append([i \in 1..n |-> f(i)], f(n + 1)) = [i \in 1..(n + 1) |-> f(i)]
  <2> DEFINE S == {f(i) : i \in 1..(n + 1)}
             s == [i \in 1..n |-> f(i)]
             t == [i \in 1..(n + 1) |-> f(i)]
  <2>1. s \in Seq(S) /\ t \in Seq(S) /\ f(n + 1) \in S
    OBVIOUS
  <2>2. Len(s) = n /\ Len(t) = n + 1
    OBVIOUS
  <2>3. Append(s, f(n + 1)) \in Seq(S) /\ Len(Append(s, f(n + 1))) = n + 1
    BY <2>1, <2>2, AppendProperties
  <2>4. ASSUME NEW i \in 1..(n + 1) PROVE Append(s, f(n + 1))[i] = t[i]
    BY <2>1, <2>2
  <2> QED
    BY <2>1, <2>2, <2>3, <2>4, SeqEqual
<1> QED
  BY <1>1 DEF Prefix, f

\* The answers so far are those of searches over the labelled index.
ExactSoFar(it) ==
    LET next == Len(it.answers) + 1
        mode == ModeAt(it.queries, next)
        query == QueryAt(it.queries, next)
    IN  /\ \E n \in Nat : it.answers = Prefix(it.k, it.queries, it.labelled, n)
        /\ it.half => it.first = IF mode = "hybrid"
                                 THEN KeywordSearch(query, it.labelled, Pool(mode, it.k))
                                 ELSE SemanticSearch(query, it.labelled, Pool(mode, it.k))

QuietIsExact(it) ==
    it.pc = "opening" /\ it.counted = it.labelled =>
        it.results = IdealResults(it.k, it.queries, it.labelled)

\* While the index is the labelled one, it has been so since the labels were read:
\* chunks never come back, as every insertion gives them new ids.
RunIsExact(it, chunks, time) ==
    /\ it.pc = "labels" => it.queries \in QuerySets /\ it.answers = <<>> /\ it.half = FALSE
    /\ it.pc = "idle" => it.answers = <<>> /\ it.half = FALSE
    /\ it.pc = "asking" =>
          /\ it.labelled # {}
          /\ \A id \in it.labelled : id[2] \in Nat /\ id[2] <= time
          /\ it.labelled = chunks => ExactSoFar(it)
    /\ QuietIsExact(it)

ExactInv ==
    /\ Shape
    /\ changes \in Nat
    /\ \A id \in index : id[2] \in Nat /\ id[2] <= changes
    /\ \A r \in Runs : RunIsExact(run[r], index, changes)

LEMMA ExactInit == Init => ExactInv
BY ShapeInit DEF Init, Idle, ExactInv, RunIsExact, QuietIsExact

\* A change of the index makes it differ from every index that was labelled before.
LEMMA ChangeIsNew ==
    ASSUME ExactInv, Add(Corpus) \/ Add(Extra) \/ Reset, NEW r \in Runs, run[r].pc = "asking"
    PROVE  run[r].labelled # index'
<1> USE ConstantsAssumption
<1>1. CASE Reset
  BY <1>1 DEF Reset, ExactInv, RunIsExact
<1>2. ASSUME NEW contents, contents # {}, Add(contents) PROVE run[r].labelled # index'
  <2>1. PICK content \in contents : TRUE
    BY <1>2
  <2>2. <<content, changes + 1>> \in index'
    BY <1>2 DEF Add, NewId
  <2>3. <<content, changes + 1>> \notin run[r].labelled
    BY DEF ExactInv, RunIsExact
  <2> QED
    BY <2>2, <2>3
<1> QED
  BY <1>1, <1>2

LEMMA ExactNextIndex == ExactInv /\ (Add(Corpus) \/ Add(Extra) \/ Reset) => ExactInv'
<1> SUFFICES ASSUME ExactInv, Add(Corpus) \/ Add(Extra) \/ Reset PROVE ExactInv'
  OBVIOUS
<1>1. run' = run /\ changes' = changes + 1 /\ Shape'
  BY DEF Add, Reset, ExactInv, Shape
<1>2. \A id \in index' : id[2] \in Nat /\ id[2] <= changes'
  BY <1>1 DEF Add, Reset, NewId, ExactInv
<1>3. ASSUME NEW r \in Runs PROVE RunIsExact(run[r], index', changes')
  <2>1. RunIsExact(run[r], index, changes) /\ changes \in Nat
    BY DEF ExactInv
  <2>2. ASSUME run[r].pc = "asking"
        PROVE  /\ run[r].labelled # {}
               /\ \A id \in run[r].labelled : id[2] \in Nat /\ id[2] <= changes'
               /\ run[r].labelled # index'
    <3>1. run[r].labelled # index'
      BY <2>2, ChangeIsNew
    <3>2. run[r].labelled # {} /\ \A id \in run[r].labelled : id[2] \in Nat /\ id[2] <= changes
      BY <2>1, <2>2 DEF RunIsExact
    <3>3. \A id \in run[r].labelled : id[2] \in Nat /\ id[2] <= changes + 1
      BY <2>1, <3>2
    <3> QED
      BY <1>1, <3>1, <3>2, <3>3
  <2> QED
    BY <2>1, <2>2 DEF RunIsExact
<1> QED
  BY <1>1, <1>2, <1>3 DEF ExactInv

\* What a step of one run has to establish.
LEMMA ExactNextOne ==
    ASSUME ExactInv, Shape', NEW r \in Runs, index' = index, changes' = changes,
           \A q \in Runs \ {r} : run'[q] = run[q], RunIsExact(run'[r], index, changes)
    PROVE  ExactInv'
BY DEF ExactInv

LEMMA ExactNextRun ==
    ASSUME ExactInv, [Next]_vars, NEW r \in Runs,
           \/ \E d \in Dirs, k \in Ks, queries \in QuerySets : Begin(r, d, k, queries)
           \/ Label(r) \/ OpenReport(r) \/ Dump(r) \/ WriteTable(r) \/ Stop(r)
    PROVE  ExactInv'
<1> USE ConstantsAssumption
<1>0. Shape /\ Shape'
  BY ShapeNext DEF ExactInv
<1>1. CASE \E d \in Dirs, k \in Ks, queries \in QuerySets : Begin(r, d, k, queries)
  <2>0. PICK d \in Dirs, k \in Ks, queries \in QuerySets : Begin(r, d, k, queries)
    BY <1>1
  <2>2. run[r].answers = <<>> /\ run[r].half = FALSE
    BY <2>0 DEF Begin, ExactInv, RunIsExact
  <2>3. /\ run'[r].pc = "labels" /\ run'[r].queries = queries
        /\ run'[r].answers = <<>> /\ run'[r].half = FALSE
    <3>1. run' = [run EXCEPT ![r] = [run[r] EXCEPT !.pc = "labels", !.dir = d, !.k = k,
                                                   !.queries = queries, !.found = Reported]]
      BY <2>0 DEF Begin
    <3>2. r \in DOMAIN run /\ DOMAIN run[r] = Fields
      BY <1>0 DEF Shape
    <3>3. run'[r] = [run[r] EXCEPT !.pc = "labels", !.dir = d, !.k = k,
                                   !.queries = queries, !.found = Reported]
      BY <3>1, <3>2
    <3> QED
      BY <2>2, <3>2, <3>3 DEF Fields
  <2>1. RunIsExact(run'[r], index, changes)
    BY <2>3 DEF RunIsExact, QuietIsExact
  <2> QED
    BY <1>0, <1>1, <2>1, ExactNextOne DEF Begin, Shape
<1>2. CASE Label(r)
  <2>1. index # {}
    <3>1. run[r].queries \in Seq(DOMAIN Relevant) /\ run[r].queries # <<>>
      BY <1>2 DEF Label, ExactInv, RunIsExact
    <3>2. run[r].queries[1] \in Range(run[r].queries)
      BY <3>1 DEF Range
    <3> QED
      BY <1>2, <3>2 DEF Label, Gold
  <2>2. run'[r].pc = "asking" /\ run'[r].labelled = index /\ run'[r].answers = <<>> /\ run'[r].half = FALSE
    BY <1>0, <1>2 DEF Label, ExactInv, RunIsExact, Shape, Fields
  <2>3. <<>> = Prefix(run'[r].k, run'[r].queries, run'[r].labelled, 0)
    BY DEF Prefix
  <2>4. ExactSoFar(run'[r])
    BY <2>2, <2>3 DEF ExactSoFar
  <2>5. RunIsExact(run'[r], index, changes)
    BY <2>1, <2>2, <2>4 DEF ExactInv, RunIsExact, QuietIsExact
  <2> QED
    BY <1>0, <1>2, <2>5, ExactNextOne DEF Label, Shape
<1>3. CASE OpenReport(r) \/ Dump(r) \/ WriteTable(r)
  <2>1. RunIsExact(run'[r], index, changes)
    BY <1>0, <1>3 DEF OpenReport, Dump, WriteTable, ExactInv, RunIsExact, QuietIsExact, Shape, Fields
  <2> QED
    BY <1>0, <1>3, <2>1, ExactNextOne DEF OpenReport, Dump, WriteTable, Shape
<1>4. CASE Stop(r)
  <2>1. run'[r].pc = "stopped"
    <3>1. CASE run' = [run EXCEPT ![r] = [Idle EXCEPT !.pc = "stopped", !.queries = run[r].queries]]
      <4>1. [Idle EXCEPT !.pc = "stopped", !.queries = run[r].queries].pc = "stopped"
        BY DEF Idle
      <4> QED
        BY <1>0, <3>1, <4>1 DEF Shape
    <3>2. CASE run' = [run EXCEPT ![r].pc = "stopped"]
      BY <1>0, <3>2 DEF Shape, Fields
    <3> QED
      BY <1>4, <3>1, <3>2 DEF Stop
  <2>2. RunIsExact(run'[r], index, changes)
    BY <2>1 DEF RunIsExact, QuietIsExact
  <2> QED
    BY <1>0, <1>4, <2>2, ExactNextOne DEF Stop, Shape
<1> QED
  BY <1>1, <1>2, <1>3, <1>4

LEMMA ExactNextAsk ==
    ASSUME ExactInv, [Next]_vars, NEW r \in Runs, AskFirst(r) \/ AskLast(r) \/ Count(r)
    PROVE  ExactInv'
<1>0. Shape /\ Shape' /\ RunIsExact(run[r], index, changes)
  BY ShapeNext DEF ExactInv
<1>1. CASE AskFirst(r)
  <2>1. RunIsExact(run'[r], index, changes)
    BY <1>0, <1>1 DEF AskFirst, Asking, ByKeyword, ByMeaning, Mode, Query, RunIsExact, QuietIsExact, ExactSoFar, Shape, Fields
  <2> QED
    BY <1>0, <1>1, <2>1, ExactNextOne DEF AskFirst, Shape
<1>2. CASE AskLast(r)
  <2>1. /\ run'[r].pc = "asking" /\ run'[r].labelled = run[r].labelled /\ run'[r].half = FALSE
        /\ run'[r].k = run[r].k /\ run'[r].queries = run[r].queries
        /\ run'[r].answers = Append(run[r].answers, Answer(r))
    BY <1>0, <1>2 DEF AskLast, Asking, Shape, Fields
  <2>2. ASSUME run[r].labelled = index PROVE ExactSoFar(run'[r])
    <3>1. ExactSoFar(run[r])
      BY <1>0, <1>2, <2>2 DEF AskLast, Asking, RunIsExact
    <3>2. PICK n \in Nat : run[r].answers = Prefix(run[r].k, run[r].queries, index, n)
      BY <2>2, <3>1 DEF ExactSoFar
    <3>3. Len(run[r].answers) = n
      BY <3>2, PrefixLen
    <3>4. Answer(r) = AnswerOver(QueryAt(run[r].queries, n + 1), ModeAt(run[r].queries, n + 1), run[r].k, index, index)
      BY <1>2, <2>2, <3>1, <3>3 DEF AskLast, Answer, Mode, Query, ByKeyword, ByMeaning, AnswerOver, ExactSoFar
    <3>5. run'[r].answers = Prefix(run[r].k, run[r].queries, index, n + 1)
      BY <2>1, <3>2, <3>4, PrefixAppend
    <3> QED
      BY <2>1, <2>2, <3>5 DEF ExactSoFar
  <2>3. RunIsExact(run'[r], index, changes)
    BY <1>0, <1>2, <2>1, <2>2 DEF AskLast, Asking, RunIsExact, QuietIsExact
  <2> QED
    BY <1>0, <1>2, <2>3, ExactNextOne DEF AskLast, Shape
<1>3. CASE Count(r)
  <2>1. /\ run'[r].pc = "opening" /\ run'[r].labelled = run[r].labelled /\ run'[r].counted = index
        /\ run'[r].k = run[r].k /\ run'[r].queries = run[r].queries
        /\ run'[r].results = ResultsOf(r)
    BY <1>0, <1>3 DEF Count, Shape, Fields
  <2>2. ASSUME run[r].labelled = index
        PROVE  ResultsOf(r) = IdealResults(run[r].k, run[r].queries, run[r].labelled)
    <3>1. PICK n \in Nat : run[r].answers = Prefix(run[r].k, run[r].queries, run[r].labelled, n)
      BY <1>0, <1>3, <2>2 DEF Count, Complete, RunIsExact, ExactSoFar
    <3>2. n = PlanLength(run[r].queries)
      BY <1>3, <3>1, PrefixLen DEF Count, Complete
    <3>3. run[r].answers = IdealAnswers(run[r].k, run[r].queries, run[r].labelled)
      BY <3>1, <3>2 DEF Prefix, IdealAnswers
    <3> QED
      BY <3>3 DEF ResultsOf, IdealResults
  <2>3. RunIsExact(run'[r], index, changes)
    BY <2>1, <2>2 DEF RunIsExact, QuietIsExact
  <2> QED
    BY <1>0, <1>3, <2>3, ExactNextOne DEF Count, Shape
<1> QED
  BY <1>1, <1>2, <1>3

LEMMA ExactNext == ExactInv /\ [Next]_vars => ExactInv'
<1> SUFFICES ASSUME ExactInv, [Next]_vars PROVE ExactInv'
  OBVIOUS
<1>1. CASE UNCHANGED vars
  BY <1>1 DEF vars, ExactInv, Shape
<1> QED
  BY <1>1, ExactNextIndex, ExactNextRun, ExactNextAsk DEF Next

\* The scores of a run whose labels and count saw one index are those of searches
\* over that index, for every corpus, query set and history of the index.
THEOREM QuietScores == Spec => []QuietScoresAreExact
<1>1. Init => ExactInv
  BY ExactInit
<1>2. ExactInv /\ [Next]_vars => ExactInv'
  BY ExactNext
<1>3. ExactInv => QuietScoresAreExact
  BY DEF ExactInv, RunIsExact, QuietIsExact, QuietScoresAreExact
<1> QED
  BY <1>1, <1>2, <1>3, PTL DEF Spec

-----------------------------------------------------------------------------
(* Sums.                                                                   *)

\* What holds at the beginning, and of each place if of the one before, holds throughout.
LEMMA Through ==
    ASSUME NEW n \in Nat, NEW Holds, 0 \in Holds,
           \A i \in 1..n : i - 1 \in Holds => i \in Holds
    PROVE  \A i \in 0..n : i \in Holds
<1>1. SUFFICES ASSUME NEW i \in 0..n, i \notin Holds PROVE FALSE
  OBVIOUS
<1> DEFINE Wrong == {k \in 0..n : k \notin Holds}
<1>2. PICK k \in Wrong : \A j \in Wrong : k <= j
  <2>1. Wrong \in SUBSET Nat /\ Wrong # {}
    BY <1>1
  <2> HIDE DEF Wrong
  <2>. QED
    BY <2>1, Least
<1>3. k \in 1..n /\ k - 1 \in 0..n /\ k - 1 \notin Wrong
  BY <1>2
<1>. QED
  BY <1>2, <1>3

\* The sums of the first parts of a list of n numbers.
Sums(f, list, n) == /\ f \in [0..n -> Nat] /\ f[0] = 0
                    /\ \A i \in 1..n : f[i] = f[i - 1] + list[i]

\* The total is the last of the sums.
LEMMA TotalSums ==
    ASSUME NEW n \in Nat, NEW list \in [1..n -> Nat]
    PROVE  \E f : Sums(f, list, n) /\ Total(list) = f[n]
<1> DEFINE Holds == {k \in 0..n : \E f : Sums(f, list, k)}
<1>1. 0 \in Holds
  <2> DEFINE zero == [i \in 0..0 |-> 0]
  <2>1. zero \in [0..0 -> Nat] /\ zero[0] = 0 /\ 1..0 = {}
    OBVIOUS
  <2> HIDE DEF zero
  <2>2. Sums(zero, list, 0)
    BY <2>1 DEF Sums
  <2>. QED
    BY <2>2
<1>2. ASSUME NEW k \in 1..n, k - 1 \in Holds PROVE k \in Holds
  <2>1. k - 1 \in 0..n /\ k \in 0..n
    OBVIOUS
  <2>2. PICK f : Sums(f, list, k - 1)
    BY <1>2
  <2> DEFINE g == [i \in 0..k |-> IF i = k THEN f[k - 1] + list[k] ELSE f[i]]
  <2>3. f[k - 1] + list[k] \in Nat /\ \A i \in 0..(k - 1) : f[i] \in Nat
    BY <2>1, <2>2 DEF Sums
  <2>4. g \in [0..k -> Nat]
    BY <2>1, <2>3
  <2>5. g[0] = 0 /\ g[k] = f[k - 1] + list[k] /\ \A i \in 0..(k - 1) : g[i] = f[i]
    BY <2>1, <2>2 DEF Sums
  <2> HIDE DEF g
  <2>6. ASSUME NEW i \in 1..k PROVE g[i] = g[i - 1] + list[i]
    <3>1. CASE i = k
      <4>1. g[k - 1] = f[k - 1]
        BY <2>1, <2>5
      <4>. QED
        BY <2>5, <3>1, <4>1
    <3>2. CASE i # k
      <4>1. i \in 1..(k - 1) /\ i - 1 \in 0..(k - 1) /\ i \in 0..(k - 1)
        BY <2>1, <3>2
      <4>. QED
        BY <2>2, <2>5, <4>1 DEF Sums
    <3>. QED
      BY <3>1, <3>2
  <2>7. Sums(g, list, k)
    BY <2>4, <2>5, <2>6 DEF Sums
  <2>. QED
    BY <2>1, <2>7
<1>3. n \in Holds
  <2> HIDE DEF Holds
  <2>1. \A i \in 0..n : i \in Holds
    BY <1>1, <1>2, Through
  <2>. QED
    BY <2>1
<1>4. PICK f : Sums(f, list, n)
  BY <1>3
<1> HIDE DEF Holds
<1> DEFINE Equation(g) == g = [i \in 0..n |-> IF i = 0 THEN 0 ELSE g[i - 1] + list[i]]
           sum == CHOOSE g : Equation(g)
           Same == {i \in 0..n : sum[i] = f[i]}
<1>5. Equation(f)
  BY <1>4 DEF Sums
<1>6. Equation(sum)
  <2> HIDE DEF Equation
  <2>. QED
    BY <1>5
<1>7. DOMAIN list = 1..n /\ Cardinality(DOMAIN list) = n
  BY FS_Interval
<1>8. Total(list) = sum[n]
  BY <1>7 DEF Total
<1> HIDE DEF sum
<1>9. 0 \in Same
  BY <1>4, <1>6 DEF Sums
<1>10. ASSUME NEW i \in 1..n, i - 1 \in Same PROVE i \in Same
  <2>1. i \in 0..n /\ i - 1 \in 0..n /\ i # 0 /\ sum[i - 1] = f[i - 1]
    BY <1>10
  <2>2. sum[i] = sum[i - 1] + list[i]
    BY <1>6, <2>1
  <2>. QED
    BY <1>4, <2>1, <2>2 DEF Sums
<1>11. n \in Same
  <2> HIDE DEF Same
  <2>1. \A i \in 0..n : i \in Same
    BY <1>9, <1>10, Through
  <2>. QED
    BY <2>1
<1>. QED
  BY <1>4, <1>8, <1>11

\* A list of greater numbers has a greater sum.
LEMMA TotalGrows ==
    ASSUME NEW n \in Nat, NEW less \in [1..n -> Nat], NEW more \in [1..n -> Nat],
           \A i \in 1..n : less[i] <= more[i]
    PROVE  Total(less) \in Nat /\ Total(more) \in Nat /\ Total(less) <= Total(more)
<1>1. PICK f : Sums(f, less, n) /\ Total(less) = f[n]
  BY TotalSums
<1>2. PICK g : Sums(g, more, n) /\ Total(more) = g[n]
  BY TotalSums
<1> DEFINE Below == {i \in 0..n : f[i] <= g[i]}
<1>3. 0 \in Below
  BY <1>1, <1>2 DEF Sums
<1>4. ASSUME NEW i \in 1..n, i - 1 \in Below PROVE i \in Below
  <2>1. i \in 0..n /\ i - 1 \in 0..n /\ f[i - 1] <= g[i - 1]
    BY <1>4
  <2>2. /\ f[i - 1] \in Nat /\ g[i - 1] \in Nat /\ less[i] \in Nat /\ more[i] \in Nat
        /\ f[i] = f[i - 1] + less[i] /\ g[i] = g[i - 1] + more[i] /\ less[i] <= more[i]
    BY <1>1, <1>2, <2>1 DEF Sums
  <2>. QED
    BY <2>1, <2>2
<1>5. n \in Below
  <2> HIDE DEF Below
  <2>1. \A i \in 0..n : i \in Below
    BY <1>3, <1>4, Through
  <2>. QED
    BY <2>1
<1>. QED
  BY <1>1, <1>2, <1>5 DEF Sums

\* How many numbers of T are at most n.
UpTo(T, n) == Cardinality(T \cap (1..n))

\* One more is counted when its number comes.
LEMMA UpToCounts ==
    ASSUME NEW T, NEW n \in Nat
    PROVE  /\ UpTo(T, 0) = 0 /\ UpTo(T, n) \in 0..n
           /\ n > 0 => UpTo(T, n) = UpTo(T, n - 1) + IF n \in T THEN 1 ELSE 0
<1>1. UpTo(T, 0) = 0
  <2>1. T \cap (1..0) = {}
    OBVIOUS
  <2>. QED
    BY <2>1, FS_EmptySet DEF UpTo
<1>2. UpTo(T, n) \in 0..n
  <2>1. IsFiniteSet(1..n) /\ Cardinality(1..n) = n /\ T \cap (1..n) \in SUBSET (1..n)
    BY FS_Interval
  <2>2. /\ Cardinality(T \cap (1..n)) \in Nat
        /\ Cardinality(T \cap (1..n)) <= Cardinality(1..n)
    BY <2>1, FS_Subset, FS_CardinalityType
  <2>. QED
    BY <2>1, <2>2 DEF UpTo
<1>3. ASSUME n > 0 PROVE UpTo(T, n) = UpTo(T, n - 1) + IF n \in T THEN 1 ELSE 0
  <2> DEFINE S == T \cap (1..(n - 1))
  <2>1. IsFiniteSet(1..(n - 1)) /\ S \in SUBSET (1..(n - 1)) /\ n \notin S
    BY <1>3, FS_Interval
  <2>2. IsFiniteSet(S) /\ Cardinality(S) \in Nat
    BY <2>1, FS_Subset, FS_CardinalityType
  <2>3. CASE n \in T
    <3>1. T \cap (1..n) = S \cup {n}
      BY <1>3, <2>3
    <3> HIDE DEF S
    <3>2. Cardinality(S \cup {n}) = Cardinality(S) + 1
      BY <2>1, <2>2, FS_AddElement
    <3>3. UpTo(T, n - 1) = Cardinality(S) /\ UpTo(T, n) = Cardinality(S \cup {n})
      BY <3>1 DEF S, UpTo
    <3>. QED
      BY <2>3, <3>2, <3>3
  <2>4. CASE n \notin T
    <3>1. T \cap (1..n) = S
      BY <1>3, <2>4
    <3>2. UpTo(T, n - 1) = Cardinality(S) /\ UpTo(T, n) = Cardinality(S)
      BY <3>1 DEF UpTo
    <3> HIDE DEF S
    <3>. QED
      BY <2>2, <2>4, <3>2
  <2>. QED
    BY <2>3, <2>4
<1>. QED
  BY <1>1, <1>2, <1>3

\* Numbers up to a bound: where one is zero, the bound is missing from the sum.
LEMMA TotalMisses ==
    ASSUME NEW n \in Nat, NEW bound \in Nat, NEW list \in [1..n -> 0..bound], NEW T,
           \A i \in 1..n : i \in T => list[i] = 0
    PROVE  Total(list) \in Nat /\ Total(list) + bound * UpTo(T, n) <= bound * n
<1>0. list \in [1..n -> Nat]
  OBVIOUS
<1>1. PICK f : Sums(f, list, n) /\ Total(list) = f[n]
  BY <1>0, TotalSums
<1> DEFINE Below == {i \in 0..n : f[i] + bound * UpTo(T, i) <= bound * i}
<1>2. 0 \in Below
  BY <1>1, UpToCounts DEF Sums
<1>3. ASSUME NEW i \in 1..n, i - 1 \in Below PROVE i \in Below
  <2>1. i \in 0..n /\ i - 1 \in 0..n /\ i - 1 \in Nat /\ i \in Nat /\ i > 0
        /\ f[i - 1] + bound * UpTo(T, i - 1) <= bound * (i - 1)
    BY <1>3
  <2>2. /\ f[i - 1] \in Nat /\ list[i] \in 0..bound /\ f[i] = f[i - 1] + list[i]
        /\ i \in T => list[i] = 0
    BY <1>1, <2>1 DEF Sums
  <2>3. /\ UpTo(T, i - 1) \in Nat
        /\ UpTo(T, i) = UpTo(T, i - 1) + IF i \in T THEN 1 ELSE 0
    BY <2>1, UpToCounts
  <2>4. bound * (i - 1) = bound * i - bound
    BY <2>1
  <2>5. CASE i \in T
    <3>1. bound * UpTo(T, i) = bound * UpTo(T, i - 1) + bound
      BY <2>3, <2>5
    <3>2. PICK x \in Nat : x = bound * UpTo(T, i - 1)
      BY <2>3
    <3>3. PICK y \in Nat : y = bound * i
      BY <2>1
    <3>4. f[i - 1] + x <= y - bound /\ f[i] = f[i - 1] /\ bound * UpTo(T, i) = x + bound
      <4>1. f[i - 1] + x <= y - bound
        BY <2>1, <2>4, <3>2, <3>3
      <4>2. f[i] = f[i - 1]
        BY <2>2, <2>5
      <4>. QED
        BY <3>1, <3>2, <4>1, <4>2
    <3>5. f[i] + (x + bound) <= y
      BY <2>2, <3>2, <3>3, <3>4, SMTT(30)
    <3>. QED
      BY <2>1, <3>3, <3>4, <3>5
  <2>6. CASE i \notin T
    <3>1. UpTo(T, i) = UpTo(T, i - 1)
      BY <2>3, <2>6
    <3>. QED
      BY <2>1, <2>2, <2>3, <2>4, <3>1
  <2>. QED
    BY <2>5, <2>6
<1>4. n \in Below
  <2> HIDE DEF Below
  <2>1. \A i \in 0..n : i \in Below
    BY <1>2, <1>3, Through
  <2>. QED
    BY <2>1
<1>. QED
  BY <1>1, <1>4 DEF Sums

-----------------------------------------------------------------------------
(* What ranks are worth.                                                   *)

Gains(ranks) == [rank \in 1..Len(Discount) |-> IF rank \in ranks THEN Discount[rank] ELSE 0]

LEMMA GainsType ==
    ASSUME NEW ranks
    PROVE  /\ Len(Discount) \in Nat /\ Gains(ranks) \in [1..Len(Discount) -> Nat]
           /\ Dcg(ranks) = Total(Gains(ranks))
BY DiscountFalls DEF Gains, Dcg

\* Ranks of which as many are in every beginning are worth as much.
LEMMA EarlierIsWorthMore ==
    ASSUME NEW Q, NEW R, \A n \in 1..Len(Discount) : UpTo(Q, n) <= UpTo(R, n)
    PROVE  Dcg(Q) \in Nat /\ Dcg(R) \in Nat /\ Dcg(Q) <= Dcg(R)
<1> DEFINE m == Len(Discount)
<1>0. /\ m \in Nat /\ Gains(Q) \in [1..m -> Nat] /\ Gains(R) \in [1..m -> Nat]
      /\ Dcg(Q) = Total(Gains(Q)) /\ Dcg(R) = Total(Gains(R))
  BY GainsType
<1>1. PICK f : Sums(f, Gains(Q), m) /\ Total(Gains(Q)) = f[m]
  BY <1>0, TotalSums
<1>2. PICK g : Sums(g, Gains(R), m) /\ Total(Gains(R)) = g[m]
  BY <1>0, TotalSums
<1> DEFINE Ahead(i) == UpTo(R, i) - UpTo(Q, i)
           Below == {i \in 0..m : i > 0 => f[i] + Discount[i] * Ahead(i) <= g[i]}
<1>3. \A i \in 0..m : Ahead(i) \in Nat
  BY <1>0, UpToCounts
<1>4. ASSUME NEW i \in 1..m, i - 1 \in Below PROVE i \in Below
  <2> DEFINE d == Discount[i]
             a == Ahead(i - 1)
             b == Ahead(i)
             q == IF i \in Q THEN 1 ELSE 0
             r == IF i \in R THEN 1 ELSE 0
  <2>1. i \in Nat /\ i > 0 /\ i - 1 \in Nat /\ i - 1 \in 0..m /\ i \in 0..m
    BY <1>0, <1>4
  <2>2. d \in Nat /\ a \in Nat /\ b \in Nat
    BY <1>0, <1>3, <2>1, DiscountFalls
  <2>3. b = a + r - q
    <3>1. UpTo(R, i) = UpTo(R, i - 1) + r /\ UpTo(Q, i) = UpTo(Q, i - 1) + q
      BY <2>1, UpToCounts
    <3>2. UpTo(R, i - 1) \in Nat /\ UpTo(Q, i - 1) \in Nat /\ r \in Nat /\ q \in Nat
      BY <2>1, UpToCounts
    <3> HIDE DEF r, q
    <3>. QED
      BY <3>1, <3>2
  <2>4. /\ f[i] = f[i - 1] + Gains(Q)[i] /\ g[i] = g[i - 1] + Gains(R)[i]
        /\ f[i - 1] \in Nat /\ g[i - 1] \in Nat
    BY <1>1, <1>2, <2>1 DEF Sums
  <2>5. Gains(Q)[i] = d * q /\ Gains(R)[i] = d * r
    BY <2>1, <2>2 DEF Gains
  <2>6. f[i - 1] + d * a <= g[i - 1]
    <3>1. CASE i - 1 = 0
      <4>1. f[i - 1] = 0 /\ g[i - 1] = 0 /\ a = 0
        BY <1>1, <1>2, <3>1, UpToCounts DEF Sums
      <4>2. d * 0 = 0
        BY <2>2
      <4> HIDE DEF a, d
      <4>. QED
        BY <4>1, <4>2
    <3>2. CASE i - 1 # 0
      <4>1. i - 1 \in 1..m /\ Discount[i - 1] \in Nat /\ d <= Discount[i - 1]
        <5>1. PICK j \in 1..m : j = i - 1
          BY <1>0, <2>1, <3>2
        <5>2. Discount[j] \in Nat /\ d <= Discount[j]
          BY <1>0, <2>1, <5>1, DiscountFalls, SMTT(30)
        <5>. QED
          BY <5>1, <5>2
      <4>2. f[i - 1] + Discount[i - 1] * a <= g[i - 1]
        BY <1>4, <3>2, <4>1
      <4>3. d * a <= Discount[i - 1] * a
        <5>1. PICK e \in Nat : Discount[i - 1] = e
          BY <4>1
        <5> HIDE DEF d, a
        <5>2. d * a <= e * a
          BY <2>2, <4>1, <5>1
        <5>. QED
          BY <5>1, <5>2
      <4>4. Discount[i - 1] * a \in Nat /\ d * a \in Nat
        BY <2>2, <4>1
      <4>. QED
        BY <2>4, <4>2, <4>3, <4>4
    <3>. QED
      BY <3>1, <3>2
  <2> HIDE DEF a, b, d
  <2>7. d * b = d * a + d * r - d * q
    BY <2>2, <2>3
  <2>8. d * a \in Nat /\ d * r \in Nat /\ d * q \in Nat
    BY <2>2
  <2>9. f[i] + d * b <= g[i]
    <3> HIDE DEF q, r
    <3>. QED
      BY <2>4, <2>5, <2>6, <2>7, <2>8
  <2>. QED
    BY <2>1, <2>9 DEF b, d
<1>5. 0 \in Below
  BY <1>0
<1>6. m \in Below
  <2> HIDE DEF Below, m
  <2>1. \A i \in 0..m : i \in Below
    BY <1>0, <1>4, <1>5, Through
  <2>. QED
    BY <1>0, <2>1
<1>7. f[m] \in Nat /\ g[m] \in Nat /\ f[m] <= g[m]
  <2>1. f[m] \in Nat /\ g[m] \in Nat
    BY <1>0, <1>1, <1>2 DEF Sums
  <2>2. CASE m = 0
    BY <1>1, <1>2, <2>2 DEF Sums
  <2>3. CASE m # 0
    <3>1. Discount[m] \in Nat /\ Ahead(m) \in Nat
      BY <1>0, <1>3, <2>3, DiscountFalls
    <3>2. f[m] + Discount[m] * Ahead(m) <= g[m]
      BY <1>0, <1>6, <2>3
    <3>3. Discount[m] * Ahead(m) \in Nat
      BY <3>1
    <3>. QED
      BY <2>1, <3>2, <3>3
  <2>. QED
    BY <2>2, <2>3
<1>. QED
  BY <1>0, <1>1, <1>2, <1>7

-----------------------------------------------------------------------------
(* The scores of one query.                                                *)

\* A quotient grows with what is divided.
LEMMA QuotientGrows ==
    ASSUME NEW a \in Nat, NEW b \in Nat, a <= b, NEW n \in Nat \ {0}
    PROVE  a \div n \in Nat /\ b \div n \in Nat /\ a \div n <= b \div n
<1> DEFINE p == a \div n
           q == b \div n
<1>1. p \in Nat /\ q \in Nat /\ n * p <= a /\ b < n * (q + 1)
  OBVIOUS
<1> HIDE DEF p, q
<1>2. n * p < n * (q + 1)
  BY <1>1
<1>3. p < q + 1
  BY <1>1, <1>2
<1>. QED
  BY <1>1, <1>3 DEF p, q

\* A fraction is at most one.
LEMMA Fraction ==
    ASSUME NEW a \in Nat, NEW n \in Nat \ {0}, a <= n
    PROVE  (One * a) \div n \in 0..One
<1>1. One * a \in Nat /\ One * n \in Nat /\ One * a <= One * n /\ One \in Nat
  BY DEF One
<1>2. (One * n) \div n = One
  BY DEF One
<1>3. (One * a) \div n \in Nat /\ (One * a) \div n <= (One * n) \div n
  BY <1>1, QuotientGrows
<1>. QED
  BY <1>1, <1>2, <1>3

\* An answer: a list of at most k chunks, each once.
Listed(hits, k) == hits \in Seq(Chunks) /\ Len(hits) <= k /\ Distinct(hits)

\* The ranks of the labelled hits of an answer.
LEMMA RanksAre ==
    ASSUME NEW k \in Nat, NEW hits, Listed(hits, k), NEW gold, IsFiniteSet(gold)
    PROVE  LET R == HitRanks(hits, gold, k) IN
           /\ R \in SUBSET (1..k) /\ IsFiniteSet(R) /\ Cardinality(R) \in Nat
           /\ HitRanks(hits, gold, Len(hits)) = R
           /\ \A c \in 1..k : Cardinality(HitRanks(hits, gold, c)) = UpTo(R, c)
           /\ Cardinality({hits[rank] : rank \in R}) = Cardinality(R)
           /\ Cardinality(R) <= Cardinality(gold) /\ Cardinality(R) <= k
<1> DEFINE R == HitRanks(hits, gold, k)
           found == {hits[rank] : rank \in R}
<1>1. DOMAIN hits = 1..Len(hits) /\ Len(hits) \in Nat /\ Len(hits) <= k
  BY DEF Listed
<1>2. R = {rank \in 1..Len(hits) : hits[rank] \in gold}
  BY <1>1 DEF HitRanks
<1>3. R \in SUBSET (1..k) /\ HitRanks(hits, gold, Len(hits)) = R
  BY <1>1, <1>2 DEF HitRanks
<1>4. \A c \in 1..k : HitRanks(hits, gold, c) = R \cap (1..c)
  BY <1>1, <1>2 DEF HitRanks
<1>5. /\ IsFiniteSet(R) /\ Cardinality(R) \in Nat /\ Cardinality(R) <= k
  <2>1. IsFiniteSet(1..k) /\ Cardinality(1..k) = k
    BY FS_Interval
  <2> HIDE DEF R
  <2>. QED
    BY <1>3, <2>1, FS_Subset, FS_CardinalityType
<1>6. [rank \in R |-> hits[rank]] \in Bijection(R, found)
  <2> DEFINE f == [rank \in R |-> hits[rank]]
  <2>1. \A i, j \in R : hits[i] = hits[j] => i = j
    BY <1>1, <1>2 DEF Listed, Distinct
  <2> HIDE DEF R
  <2>2. f \in [R -> found] /\ \A i, j \in R : f[i] = f[j] => i = j
    BY <2>1
  <2>3. \A d \in found : \E i \in R : f[i] = d
    OBVIOUS
  <2> HIDE DEF found, f
  <2>4. f \in Injection(R, found) /\ f \in Surjection(R, found)
    BY <2>2, <2>3 DEF Injection, IsInjective, Surjection
  <2>5. f \in Bijection(R, found)
    BY <2>4 DEF Bijection
  <2>. QED
    BY <2>5 DEF f
<1>7. Cardinality(found) = Cardinality(R)
  <2> HIDE DEF R, found
  <2>. QED
    BY <1>5, <1>6, FS_Bijection DEF ExistsBijection
<1>8. found \in SUBSET gold
  BY <1>2
<1>9. Cardinality(found) <= Cardinality(gold)
  BY <1>8, FS_Subset
<1>. QED
  BY <1>3, <1>4, <1>5, <1>7, <1>9 DEF UpTo

\* The ideal list is worth something, and no list is worth more.
LEMMA IdealIsBest ==
    ASSUME NEW k \in 1..Len(Discount), NEW n \in Nat \ {0}, NEW R \in SUBSET (1..k),
           Cardinality(R) <= n, IsFiniteSet(R)
    PROVE  /\ Min({n, k}) \in Nat
           /\ Dcg(1..Min({n, k})) \in Nat \ {0}
           /\ Dcg(R) \in Nat /\ Dcg(R) <= Dcg(1..Min({n, k}))
<1> DEFINE m == Min({n, k})
           I == 1..m
<1>0. Len(Discount) \in Nat /\ k \in Nat /\ n \in Nat
  BY DiscountFalls
<1>1. m \in {n, k} /\ m <= n /\ m <= k
  <2>1. \E x \in {n, k} : \A y \in {n, k} : x <= y
    BY <1>0
  <2>. QED
    BY <2>1 DEF Min
<1>2. m \in 1..k /\ m \in Nat
  BY <1>0, <1>1
<1> HIDE DEF m
<1>3. ASSUME NEW c \in 1..Len(Discount) PROVE UpTo(R, c) <= UpTo(I, c)
  <2>1. CASE c <= m
    <3>1. I \cap (1..c) = 1..c
      BY <1>0, <1>2, <2>1
    <3>2. UpTo(I, c) = c
      <4>1. c \in Nat /\ Cardinality(1..c) = c
        BY <1>0, FS_Interval
      <4>. QED
        BY <3>1, <4>1 DEF UpTo
    <3>3. UpTo(R, c) \in 0..c
      BY <1>0, UpToCounts
    <3>. QED
      BY <1>0, <3>2, <3>3
  <2>2. CASE m < c
    <3>1. I \cap (1..c) = 1..m
      BY <1>0, <1>2, <2>2
    <3>2. UpTo(I, c) = m
      <4>1. Cardinality(1..m) = m
        BY <1>2, FS_Interval
      <4>. QED
        BY <3>1, <4>1 DEF UpTo
    <3>3. UpTo(R, c) \in Nat /\ UpTo(R, c) <= Cardinality(R) /\ Cardinality(R) \in Nat
      <4>1. R \cap (1..c) \in SUBSET R
        OBVIOUS
      <4>. QED
        BY <4>1, FS_Subset, FS_CardinalityType DEF UpTo
    <3>4. Cardinality(R) <= k
      <4>1. IsFiniteSet(1..k) /\ Cardinality(1..k) = k
        BY <1>0, FS_Interval
      <4>. QED
        BY <4>1, FS_Subset
    <3>. QED
      BY <1>0, <1>1, <3>2, <3>3, <3>4
  <2>. QED
    BY <1>0, <1>2, <2>1, <2>2
<1>4. Dcg(R) \in Nat /\ Dcg(I) \in Nat /\ Dcg(R) <= Dcg(I)
  <2> HIDE DEF I
  <2>. QED
    BY <1>3, EarlierIsWorthMore
<1>5. Dcg(I) # 0
  <2>1. /\ Gains(I) \in [1..Len(Discount) -> Nat] /\ Dcg(I) = Total(Gains(I))
    BY GainsType
  <2>2. PICK f : Sums(f, Gains(I), Len(Discount)) /\ Total(Gains(I)) = f[Len(Discount)]
    BY <1>0, <2>1, TotalSums
  <2> DEFINE Above == {i \in 0..Len(Discount) : i > 0 => f[i] > 0}
  <2>3. ASSUME NEW i \in 1..Len(Discount), i - 1 \in Above PROVE i \in Above
    <3>1. /\ f[i] = f[i - 1] + Gains(I)[i] /\ f[i - 1] \in Nat /\ Gains(I)[i] \in Nat
          /\ i \in 0..Len(Discount)
      BY <1>0, <2>1, <2>2 DEF Sums
    <3>2. CASE i = 1
      <4>1. Gains(I)[i] = Discount[i] /\ Discount[i] \in Nat \ {0}
        BY <1>0, <1>2, <3>2, DiscountFalls DEF Gains
      <4>. QED
        BY <3>1, <4>1
    <3>3. CASE i # 1
      BY <1>0, <2>3, <3>1, <3>3
    <3>. QED
      BY <3>2, <3>3
  <2>4. 0 \in Above
    BY <1>0
  <2>5. Len(Discount) \in Above
    <3> HIDE DEF Above
    <3>1. \A i \in 0..Len(Discount) : i \in Above
      BY <1>0, <2>3, <2>4, Through
    <3>. QED
      BY <1>0, <3>1
  <2>. QED
    BY <1>0, <2>1, <2>2, <2>5
<1>. QED
  BY <1>2, <1>4, <1>5 DEF m

\* What a score needs: an answer of at most k chunks, and labels.
Judged(hits, gold, k) ==
    /\ Listed(hits, k) /\ IsFiniteSet(gold) /\ gold # {}
    /\ k \in 1..Len(Discount) /\ k \in Nat /\ Cutoff \in 1..k

\* What the scores are, from the ranks of the labelled hits.
ScoresAre(hits, gold, k, R, g) ==
    /\ R \in SUBSET (1..k) /\ IsFiniteSet(R) /\ g \in Nat \ {0} /\ Cardinality(R) <= g
    /\ UpTo(R, Cutoff) \in Nat /\ UpTo(R, Cutoff) <= Cutoff /\ Cutoff \in Nat \ {0}
    /\ UpTo(R, k) \in Nat /\ UpTo(R, k) <= g
    /\ Score("precision", hits, gold, k) = (One * UpTo(R, Cutoff)) \div Cutoff
    /\ Score("recall", hits, gold, k) = (One * UpTo(R, k)) \div g
    /\ Score("mrr", hits, gold, k) = IF R = {} THEN 0 ELSE One \div Min(R)
    /\ Score("ndcg", hits, gold, k) = (One * Dcg(R)) \div Dcg(1..Min({g, k}))

\* The labelled hits of an answer give its scores.
LEMMA JudgedRanks ==
    ASSUME NEW hits, NEW gold, NEW k, Judged(hits, gold, k)
    PROVE  ScoresAre(hits, gold, k, HitRanks(hits, gold, k), Cardinality(gold))
<1> DEFINE R == HitRanks(hits, gold, k)
<1>0. /\ Listed(hits, k) /\ IsFiniteSet(gold) /\ gold # {} /\ k \in Nat
      /\ Cutoff \in 1..k /\ Cutoff \in Nat
  BY ConstantsAssumption DEF Judged
<1>1. /\ R \in SUBSET (1..k) /\ IsFiniteSet(R) /\ Cardinality(R) \in Nat
      /\ HitRanks(hits, gold, Len(hits)) = R
      /\ \A c \in 1..k : Cardinality(HitRanks(hits, gold, c)) = UpTo(R, c)
      /\ Cardinality({hits[rank] : rank \in R}) = Cardinality(R)
      /\ Cardinality(R) <= Cardinality(gold) /\ Cardinality(R) <= k
  BY <1>0, RanksAre
<1>2. Cardinality(gold) \in Nat \ {0}
  <2>1. Cardinality(gold) \in Nat
    BY <1>0, FS_CardinalityType
  <2>2. Cardinality(gold) # 0
    BY <1>0, FS_EmptySet
  <2>. QED
    BY <2>1, <2>2
<1>3. UpTo(R, k) = Cardinality(R) /\ UpTo(R, Cutoff) \in 0..Cutoff
  <2>1. R \cap (1..k) = R
    BY <1>1
  <2>. QED
    BY <1>0, <2>1, UpToCounts DEF UpTo
<1>4. Score("precision", hits, gold, k) = (One * UpTo(R, Cutoff)) \div Cutoff
  BY <1>0, <1>1 DEF Score, PrecisionAt
<1>5. Score("recall", hits, gold, k) = (One * UpTo(R, k)) \div Cardinality(gold)
  BY <1>0, <1>1, <1>3 DEF Score, RecallAt
<1>6. Score("mrr", hits, gold, k) = IF R = {} THEN 0 ELSE One \div Min(R)
  BY <1>1 DEF Score, ReciprocalRank
<1>7. Score("ndcg", hits, gold, k) = (One * Dcg(R)) \div Dcg(1..Min({Cardinality(gold), k}))
  BY <1>0 DEF Score, NdcgAt
<1> DEFINE g == Cardinality(gold)
<1> HIDE DEF R, g
<1>8. /\ UpTo(R, Cutoff) \in Nat /\ UpTo(R, Cutoff) <= Cutoff /\ Cutoff \in Nat \ {0}
      /\ UpTo(R, k) \in Nat /\ UpTo(R, k) <= g
  BY <1>0, <1>1, <1>3 DEF g
<1>9. ScoresAre(hits, gold, k, R, g)
  BY <1>1, <1>2, <1>4, <1>5, <1>6, <1>7, <1>8 DEF ScoresAre, g
<1>. QED
  BY <1>9 DEF R, g

\* The first of some ranks is one of them.
LEMMA FirstRank ==
    ASSUME NEW k \in Nat, NEW R \in SUBSET (1..k), R # {}
    PROVE  Min(R) \in R /\ \A rank \in R : Min(R) <= rank
<1>1. R \in SUBSET Nat
  OBVIOUS
<1>2. \E x \in R : \A y \in R : x <= y
  BY <1>1, Least
<1>. QED
  BY <1>2 DEF Min

\* No score exceeds one, and without a hit the gain is nothing.
LEMMA ScoreType ==
    ASSUME NEW hits, NEW gold, NEW k, Judged(hits, gold, k)
    PROVE  /\ \A metric \in MetricNames : Score(metric, hits, gold, k) \in 0..One
           /\ HitRanks(hits, gold, k) = {} => Score("ndcg", hits, gold, k) = 0
<1> DEFINE R == HitRanks(hits, gold, k)
           g == Cardinality(gold)
<1>1. ScoresAre(hits, gold, k, R, g)
  BY JudgedRanks
<1>2. k \in Nat /\ k \in 1..Len(Discount) /\ Len(Discount) \in Nat
  BY DiscountFalls DEF Judged
<1> HIDE DEF R, g
<1> DEFINE ideal == Dcg(1..Min({g, k}))
<1>3. ideal \in Nat \ {0} /\ Dcg(R) \in Nat /\ Dcg(R) <= ideal
  BY <1>1, <1>2, IdealIsBest DEF ScoresAre
<1> HIDE DEF ideal
<1>4. Score("precision", hits, gold, k) \in 0..One
  <2>1. (One * UpTo(R, Cutoff)) \div Cutoff \in 0..One
    BY <1>1, Fraction DEF ScoresAre
  <2>. QED
    BY <1>1, <2>1 DEF ScoresAre
<1>5. Score("recall", hits, gold, k) \in 0..One
  <2>1. (One * UpTo(R, k)) \div g \in 0..One
    BY <1>1, Fraction DEF ScoresAre
  <2>. QED
    BY <1>1, <2>1 DEF ScoresAre
<1>6. Score("mrr", hits, gold, k) \in 0..One
  <2>1. CASE R = {}
    <3>1. Score("mrr", hits, gold, k) = 0 /\ 0 \in 0..One
      BY <1>1, <2>1 DEF ScoresAre, One
    <3>. QED
      BY <3>1
  <2>2. CASE R # {}
    <3>1. Min(R) \in Nat \ {0}
      <4>1. R \in SUBSET (1..k)
        BY <1>1 DEF ScoresAre
      <4>2. PICK m \in R : m = Min(R)
        BY <1>2, <2>2, <4>1, FirstRank
      <4>3. m \in 1..k
        BY <4>1
      <4>4. m \in Nat \ {0}
        BY <1>2, <4>3
      <4>. QED
        BY <4>2, <4>4
    <3>2. PICK m \in Nat \ {0} : m = Min(R)
      BY <3>1
    <3>3. One \div m <= One \div 1
      <4>1. 1 <= m /\ 1 \in Nat \ {0} /\ One \in Nat
        BY DEF One
      <4>. QED
        BY <4>1, QuotientFalls
    <3>4. One \div 1 = One /\ One \div m \in Nat /\ One \in Nat
      BY DEF One
    <3>. QED
      BY <1>1, <2>2, <3>2, <3>3, <3>4 DEF ScoresAre
  <2>. QED
    BY <2>1, <2>2
<1>7. Score("ndcg", hits, gold, k) \in 0..One
  <2>1. (One * Dcg(R)) \div ideal \in 0..One
    BY <1>3, Fraction
  <2>. QED
    BY <1>1, <2>1 DEF ScoresAre, ideal
<1>8. ASSUME R = {} PROVE Score("ndcg", hits, gold, k) = 0
  <2>1. Gains({}) \in [1..Len(Discount) -> 0..0] /\ Dcg({}) = Total(Gains({}))
    BY GainsType DEF Gains
  <2>2. Total(Gains({})) \in Nat /\ Total(Gains({})) + 0 * UpTo({}, Len(Discount)) <= 0 * Len(Discount)
    BY <1>2, <2>1, TotalMisses
  <2>3. UpTo({}, Len(Discount)) \in Nat
    BY <1>2, UpToCounts
  <2>4. Dcg(R) = 0
    BY <1>2, <1>8, <2>1, <2>2, <2>3
  <2>5. (One * 0) \div ideal = 0
    BY <1>3 DEF One
  <2>. QED
    BY <1>1, <2>4, <2>5 DEF ScoresAre, ideal
<1>. QED
  BY <1>4, <1>5, <1>6, <1>7, <1>8 DEF MetricNames, R

\* An answer with as many labelled hits in every beginning scores no worse.
LEMMA BetterScore ==
    ASSUME NEW gold, NEW k, NEW hits, Judged(hits, gold, k), NEW other, Judged(other, gold, k),
           \A c \in 1..k : UpTo(HitRanks(other, gold, k), c) <= UpTo(HitRanks(hits, gold, k), c)
    PROVE  \A metric \in MetricNames : Score(metric, other, gold, k) <= Score(metric, hits, gold, k)
<1> DEFINE R == HitRanks(hits, gold, k)
           Q == HitRanks(other, gold, k)
           g == Cardinality(gold)
<1>1. ScoresAre(hits, gold, k, R, g) /\ ScoresAre(other, gold, k, Q, g)
  BY JudgedRanks
<1>2. k \in Nat /\ k \in 1..Len(Discount) /\ Len(Discount) \in Nat /\ Cutoff \in 1..k /\ k \in 1..k
  BY DiscountFalls DEF Judged
<1>3. \A c \in 1..k : UpTo(Q, c) <= UpTo(R, c)
  OBVIOUS
<1>4. Score("mrr", hits, gold, k) \in 0..One
  BY ScoreType DEF MetricNames
<1> HIDE DEF R, Q, g
<1>5. ASSUME NEW a \in Nat, NEW b \in Nat, a <= b, NEW n \in Nat \ {0}
      PROVE  (One * a) \div n <= (One * b) \div n
  <2>1. One * a \in Nat /\ One * b \in Nat /\ One * a <= One * b
    BY <1>5 DEF One
  <2>. QED
    BY <2>1, QuotientGrows
<1>6. Score("precision", other, gold, k) <= Score("precision", hits, gold, k)
  <2>1. UpTo(Q, Cutoff) <= UpTo(R, Cutoff)
    BY <1>2, <1>3
  <2>2. (One * UpTo(Q, Cutoff)) \div Cutoff <= (One * UpTo(R, Cutoff)) \div Cutoff
    BY <1>1, <1>5, <2>1 DEF ScoresAre
  <2>. QED
    BY <1>1, <2>2 DEF ScoresAre
<1>7. Score("recall", other, gold, k) <= Score("recall", hits, gold, k)
  <2>1. (One * UpTo(Q, k)) \div g <= (One * UpTo(R, k)) \div g
    BY <1>1, <1>2, <1>3, <1>5 DEF ScoresAre
  <2>. QED
    BY <1>1, <2>1 DEF ScoresAre
<1>8. Score("mrr", other, gold, k) <= Score("mrr", hits, gold, k)
  <2>1. CASE Q = {}
    <3>1. Score("mrr", other, gold, k) = 0
      BY <1>1, <2>1 DEF ScoresAre
    <3>. QED
      <4>1. \A x \in 0..One : 0 <= x
        BY DEF One
      <4>. QED
        BY <1>4, <3>1, <4>1
  <2>2. CASE Q # {}
    <3>1. Q \in SUBSET (1..k) /\ R \in SUBSET (1..k) /\ IsFiniteSet(Q)
      BY <1>1 DEF ScoresAre
    <3>2. PICK m \in Q : m = Min(Q) /\ m \in 1..k
      BY <1>2, <2>2, <3>1, FirstRank
    <3>3. UpTo(Q, m) # 0 /\ UpTo(Q, m) \in Nat /\ UpTo(R, m) \in Nat
      <4>1. IsFiniteSet(Q \cap (1..m)) /\ m \in Q \cap (1..m)
        BY <1>2, <3>1, <3>2, FS_Intersection
      <4>2. Cardinality(Q \cap (1..m)) # 0
        BY <4>1, FS_EmptySet
      <4>. QED
        <5>1. UpTo(Q, m) # 0 /\ m \in Nat
          BY <1>2, <3>2, <4>2 DEF UpTo
        <5>. QED
          BY <5>1, UpToCounts
    <3>4. UpTo(R, m) # 0
      BY <1>3, <3>2, <3>3
    <3>5. PICK rank \in R : rank <= m
      <4>1. R \cap (1..m) # {}
        BY <3>4, FS_EmptySet DEF UpTo
      <4>. QED
        BY <1>2, <3>2, <4>1
    <3>6. PICK first \in R : first = Min(R) /\ first <= m /\ first \in 1..k
      <4>1. Min(R) \in R /\ Min(R) <= rank /\ Min(R) \in 1..k
        BY <1>2, <3>1, <3>5, FirstRank
      <4>. QED
        BY <1>2, <3>1, <3>2, <3>5, <4>1
    <3>7. One \div m <= One \div first
      <4>1. One \in Nat /\ first \in Nat \ {0} /\ m \in Nat \ {0}
        BY <1>2, <3>2, <3>6 DEF One
      <4>. QED
        BY <3>6, <4>1, QuotientFalls
    <3>8. Score("mrr", other, gold, k) = One \div m /\ Score("mrr", hits, gold, k) = One \div first
      BY <1>1, <2>2, <3>2, <3>6 DEF ScoresAre
    <3>. QED
      BY <3>7, <3>8
  <2>. QED
    BY <2>1, <2>2
<1>9. Score("ndcg", other, gold, k) <= Score("ndcg", hits, gold, k)
  <2> DEFINE ideal == Dcg(1..Min({g, k}))
  <2>1. ideal \in Nat \ {0}
    BY <1>1, <1>2, IdealIsBest DEF ScoresAre
  <2> HIDE DEF ideal
  <2>2. ASSUME NEW c \in 1..Len(Discount) PROVE UpTo(Q, c) <= UpTo(R, c)
    <3>1. CASE c \in 1..k
      BY <1>3, <3>1
    <3>2. CASE c \notin 1..k
      <4>1. R \cap (1..c) = R \cap (1..k) /\ Q \cap (1..c) = Q \cap (1..k)
        BY <1>1, <1>2, <3>2 DEF ScoresAre
      <4>2. UpTo(R, c) = UpTo(R, k) /\ UpTo(Q, c) = UpTo(Q, k)
        BY <4>1 DEF UpTo
      <4>. QED
        BY <1>2, <1>3, <4>2
    <3>. QED
      BY <3>1, <3>2
  <2>3. Dcg(Q) \in Nat /\ Dcg(R) \in Nat /\ Dcg(Q) <= Dcg(R)
    BY <2>2, EarlierIsWorthMore
  <2>4. (One * Dcg(Q)) \div ideal <= (One * Dcg(R)) \div ideal
    BY <1>5, <2>1, <2>3
  <2>. QED
    BY <1>1, <2>4 DEF ScoresAre, ideal
<1>. QED
  BY <1>6, <1>7, <1>8, <1>9 DEF MetricNames

-----------------------------------------------------------------------------
(* The searches of a run, and the means over them.                         *)

\* The remainder of a multiple and something smaller.
LEMMA Remainder ==
    ASSUME NEW n \in Nat \ {0}, NEW q \in Nat, NEW r \in 0..(n - 1)
    PROVE  (q * n + r) % n = r
<1> DEFINE a == q * n + r
           d == a \div n
           e == a % n
<1>1. a \in Nat /\ d \in Nat /\ e \in Nat /\ e < n /\ a = n * d + e
  BY Z3
<1>2. q * n + r = n * d + e
  BY <1>1
<1> HIDE DEF a, d, e
<1>3. CASE d = q
  <2>1. q * n = n * d
    BY <1>1, <1>3
  <2>. QED
    BY <1>1, <1>2, <2>1 DEF a, e
<1>4. CASE d > q
  <2>1. n * (d - q) >= n
    BY <1>1, <1>4
  <2>2. n * (d - q) = r - e
    BY <1>1, <1>2
  <2>. QED
    BY <1>1, <2>1, <2>2
<1>5. CASE d < q
  <2>1. n * (q - d) >= n
    BY <1>1, <1>5
  <2>2. n * (q - d) = e - r
    BY <1>1, <1>2
  <2>. QED
    BY <1>1, <2>1, <2>2
<1>. QED
  BY <1>1, <1>3, <1>4, <1>5

\* Every search of the plan has its mode and its query, and is where it is looked for.
LEMMA Places ==
    ASSUME NEW queries \in QuerySets
    PROVE  /\ Len(queries) \in Nat \ {0} /\ PlanLength(queries) = 4 * Len(queries)
           /\ \A j \in 1..Len(queries) : queries[j] \in DOMAIN Relevant
           /\ \A i \in 1..PlanLength(queries) :
                 /\ ModeAt(queries, i) \in Modes
                 /\ QueryAt(queries, i) \in Range(queries)
                 /\ QueryAt(queries, i) \in DOMAIN Relevant
           /\ \A mode \in Modes : \A j \in 1..Len(queries) :
                 /\ Slot(queries, mode, j) \in 1..PlanLength(queries)
                 /\ QueryAt(queries, Slot(queries, mode, j)) = queries[j]
<1> DEFINE n == Len(queries)
<1>1. /\ n \in Nat \ {0} /\ DOMAIN queries = 1..n
      /\ \A j \in 1..n : queries[j] \in DOMAIN Relevant
  <2>1. queries \in Seq(DOMAIN Relevant) /\ queries # <<>>
    BY ConstantsAssumption
  <2>. QED
    BY <2>1
<1>2. PlanLength(queries) = 4 * n
  BY DEF PlanLength, ModeOrder
<1> HIDE DEF n
<1>3. ASSUME NEW i \in 1..(4 * n)
      PROVE  ModeAt(queries, i) \in Modes /\ \E j \in 1..n : QueryAt(queries, i) = queries[j]
  <2>1. PICK a \in Nat : a = i - 1 /\ a < 4 * n
    BY <1>1
  <2>2. a \div n \in Nat /\ n * (a \div n) <= a /\ a % n \in 0..(n - 1)
    <3>1. a \div n \in Nat /\ n * (a \div n) <= a
      BY <1>1
    <3>2. a % n \in Nat /\ a % n < n
      BY <1>1
    <3>. QED
      BY <1>1, <3>1, <3>2
  <2>3. PICK d \in Nat : d = a \div n
    BY <2>2
  <2>4. d < 4
    <3>1. n * d < 4 * n
      BY <1>1, <2>1, <2>2, <2>3
    <3>. QED
      BY <1>1, <3>1
  <2>5. 1 + d \in 1..4
    BY <2>4
  <2>6. ModeAt(queries, i) \in Modes
    BY <2>1, <2>3, <2>5 DEF ModeAt, ModeOrder, Modes, n
  <2>7. 1 + (a % n) \in 1..n
    BY <1>1, <2>2
  <2>. QED
    BY <2>1, <2>6, <2>7 DEF QueryAt, n
<1>4. ASSUME NEW mode \in Modes, NEW j \in 1..n
      PROVE  Slot(queries, mode, j) \in 1..(4 * n) /\ QueryAt(queries, Slot(queries, mode, j)) = queries[j]
  <2>1. \E m \in DOMAIN ModeOrder : ModeOrder[m] = mode
    <3>1. DOMAIN ModeOrder = 1..4
      BY DEF ModeOrder
    <3>2. \E m \in 1..4 : ModeOrder[m] = mode
      <4>1. /\ ModeOrder[1] = "keyword" /\ ModeOrder[2] = "semantic"
            /\ ModeOrder[3] = "hybrid" /\ ModeOrder[4] = "rerank"
        BY DEF ModeOrder
      <4>. QED
        BY <4>1 DEF Modes
    <3>. QED
      BY <3>1, <3>2
  <2>2. PICK m \in 1..4 : Slot(queries, mode, j) = (m - 1) * n + j
    <3>1. DOMAIN ModeOrder = 1..4
      BY DEF ModeOrder
    <3>. QED
      BY <2>1, <3>1 DEF Slot, n
  <2>3. PICK q \in Nat : q = m - 1 /\ q <= 3
    OBVIOUS
  <2>4. q * n \in Nat /\ q * n <= 3 * n
    BY <1>1, <2>3
  <2>5. PICK slot \in 1..(4 * n) : slot = Slot(queries, mode, j) /\ slot - 1 = q * n + (j - 1)
    <3>1. PICK p \in Nat : p = q * n /\ p <= 3 * n
      BY <2>4
    <3>2. Slot(queries, mode, j) = p + j
      BY <2>2, <2>3, <3>1
    <3>3. p + j \in 1..(4 * n) /\ (p + j) - 1 = p + (j - 1)
      BY <1>1, <3>1
    <3>. QED
      BY <3>1, <3>2, <3>3
  <2>6. (slot - 1) % n = j - 1
    BY <1>1, <2>3, <2>5, Remainder, SMTT(30)
  <2>7. 1 + (j - 1) = j
    BY <1>1
  <2>. QED
    BY <2>5, <2>6, <2>7 DEF QueryAt, n
<1>. QED
  BY <1>1, <1>2, <1>3, <1>4 DEF n, Range

\* A mean is between its numbers.
LEMMA MeanType ==
    ASSUME NEW n \in Nat \ {0}, NEW list \in [1..n -> 0..One], NEW T,
           \A i \in 1..n : i \in T => list[i] = 0
    PROVE  Mean(list) \in 0..One /\ One * UpTo(T, n) <= n * (One - Mean(list))
<1>1. Len(list) = n /\ One \in Nat
  BY DEF One
<1>2. Total(list) \in Nat /\ Total(list) + One * UpTo(T, n) <= One * n
  BY <1>1, TotalMisses
<1>3. UpTo(T, n) \in Nat
  BY UpToCounts
<1>4. PICK t \in Nat, u \in Nat : t = Total(list) /\ u = UpTo(T, n)
  BY <1>2, <1>3
<1>5. Mean(list) = t \div n
  BY <1>1, <1>4 DEF Mean
<1>6. PICK p \in Nat : p = t \div n /\ n * p <= t
  OBVIOUS
<1>7. One * u \in Nat /\ n * p \in Nat /\ n * p + One * u <= One * n
  <2>1. PICK x \in Nat, y \in Nat, z \in Nat : x = One * u /\ y = n * p /\ z = One * n
    BY <1>1
  <2>2. t + x <= z /\ y <= t
    BY <1>2, <1>4, <1>6, <2>1
  <2>. QED
    BY <2>1, <2>2
<1>8. n * (One - p) = One * n - n * p
  BY <1>1, <1>6
<1>9. p <= One
  <2>1. n * p <= n * One
    BY <1>1, <1>7
  <2>. QED
    BY <1>1, <1>6, <2>1
<1>10. One * u <= n * (One - p)
  <2>1. PICK x \in Nat, y \in Nat, z \in Nat : x = One * u /\ y = n * p /\ z = One * n
    BY <1>1
  <2>. QED
    BY <1>7, <1>8, <2>1
<1>11. Mean(list) = p /\ p \in 0..One
  BY <1>1, <1>5, <1>6, <1>9
<1>. QED
  BY <1>4, <1>10, <1>11

\* A list of greater numbers has a greater mean.
LEMMA MeanGrows ==
    ASSUME NEW n \in Nat \ {0}, NEW less \in [1..n -> Nat], NEW more \in [1..n -> Nat],
           \A i \in 1..n : less[i] <= more[i]
    PROVE  Mean(less) <= Mean(more)
<1>1. Len(less) = n /\ Len(more) = n
  OBVIOUS
<1>2. Total(less) \in Nat /\ Total(more) \in Nat /\ Total(less) <= Total(more)
  BY TotalGrows
<1>. QED
  BY <1>1, <1>2, QuotientGrows DEF Mean

\* What the results of a run promise about the ranks of its labelled hits.
Measured(queries, hits, results, k) ==
    /\ results \in [Modes -> [MetricNames -> 0..One]]
    /\ \A mode, other \in Modes :
          (\A j \in DOMAIN queries, c \in 1..k :
              Cardinality({rank \in hits[Slot(queries, mode, j)] : rank <= c})
                  >= Cardinality({rank \in hits[Slot(queries, other, j)] : rank <= c}))
          => \A metric \in MetricNames : results[mode][metric] >= results[other][metric]
    /\ Len(queries) \in Nat
    /\ \A mode \in Modes :
          LET missed == Cardinality({j \in DOMAIN queries : hits[Slot(queries, mode, j)] = {}})
          IN  missed \in Nat /\ One * missed <= Len(queries) * (One - results[mode]["ndcg"])

\* The answers of a run that is complete.
Answered(queries, k, labelled, answers) ==
    /\ queries \in QuerySets /\ k \in Ks /\ Cutoff <= k /\ labelled \in SUBSET Chunks
    /\ \A query \in Range(queries) : Gold(query, labelled) # {}
    /\ DOMAIN answers = 1..PlanLength(queries)
    /\ \A i \in 1..PlanLength(queries) : Listed(answers[i], k)

\* The chunks that there can be are finitely many.
LEMMA ChunksAreFinite == IsFiniteSet(Chunks)
<1>1. IsFiniteSet(Corpus \cup Extra) /\ Effort \in Int
  BY ConstantsAssumption, SMT
<1>2. IsFiniteSet(0..Effort)
  BY <1>1, FS_Interval
<1>. QED
  BY <1>1, <1>2, FS_Product DEF Chunks

\* Every answer of it can be scored.
LEMMA AnsweredIsJudged ==
    ASSUME NEW queries, NEW k, NEW labelled, NEW answers, Answered(queries, k, labelled, answers)
    PROVE  \A mode \in Modes, j \in 1..Len(queries) :
              Judged(answers[Slot(queries, mode, j)], Gold(queries[j], labelled), k)
<1> SUFFICES ASSUME NEW mode \in Modes, NEW j \in 1..Len(queries)
             PROVE  Judged(answers[Slot(queries, mode, j)], Gold(queries[j], labelled), k)
  OBVIOUS
<1>1. queries \in QuerySets /\ Slot(queries, mode, j) \in 1..PlanLength(queries)
  BY Places DEF Answered
<1>2. Listed(answers[Slot(queries, mode, j)], k)
  BY <1>1 DEF Answered
<1>3. queries[j] \in Range(queries)
  <2>1. DOMAIN queries = 1..Len(queries)
    BY <1>1, ConstantsAssumption
  <2>. QED
    BY <2>1 DEF Range
<1>4. Gold(queries[j], labelled) # {}
  BY <1>3 DEF Answered
<1>5. IsFiniteSet(Gold(queries[j], labelled))
  <2>1. IsFiniteSet(Chunks)
    BY ChunksAreFinite
  <2>2. Gold(queries[j], labelled) \in SUBSET Chunks
    BY DEF Gold, Answered
  <2>. QED
    BY <2>1, <2>2, FS_Subset
<1>6. k \in 1..Len(Discount) /\ k \in Nat /\ Cutoff \in 1..k
  <2>1. k \in 1..Len(Discount) /\ Cutoff \in Nat \ {0} /\ Cutoff <= k /\ Len(Discount) \in Nat
    BY ConstantsAssumption, DiscountFalls DEF Answered
  <2>. QED
    BY <2>1
<1>. QED
  BY <1>2, <1>4, <1>5, <1>6 DEF Judged

\* The results of a complete run keep the promise.
LEMMA CompleteIsMeasured ==
    ASSUME NEW queries, NEW k, NEW labelled, NEW answers, Answered(queries, k, labelled, answers)
    PROVE  Measured(queries,
                    [i \in DOMAIN answers |->
                        HitRanks(answers[i], Gold(QueryAt(queries, i), labelled), k)],
                    Results(k, queries, labelled, answers), k)
<1> DEFINE n == Len(queries)
           hits == [i \in DOMAIN answers |->
                       HitRanks(answers[i], Gold(QueryAt(queries, i), labelled), k)]
           R(mode, j) == HitRanks(answers[Slot(queries, mode, j)], Gold(queries[j], labelled), k)
           S(metric, mode) == Scores(metric, mode, k, queries, labelled, answers)
           results == Results(k, queries, labelled, answers)
<1>1. /\ queries \in QuerySets /\ n \in Nat \ {0} /\ DOMAIN queries = 1..n /\ k \in Nat
  <2>1. queries \in QuerySets /\ queries \in Seq(DOMAIN Relevant) /\ k \in 1..Len(Discount)
    BY ConstantsAssumption DEF Answered
  <2>. QED
    BY <2>1, Places
<1>2. \A mode \in Modes, j \in 1..n : hits[Slot(queries, mode, j)] = R(mode, j)
  <2>1. DOMAIN answers = 1..PlanLength(queries)
    BY DEF Answered
  <2>. QED
    BY <1>1, <2>1, Places
<1>3. \A mode \in Modes, j \in 1..n :
          Judged(answers[Slot(queries, mode, j)], Gold(queries[j], labelled), k)
  BY AnsweredIsJudged
<1>4. \A metric \in MetricNames, mode \in Modes :
          S(metric, mode) = [j \in 1..n |->
              Score(metric, answers[Slot(queries, mode, j)], Gold(queries[j], labelled), k)]
  BY DEF Scores
<1>5. \A metric \in MetricNames, mode \in Modes : S(metric, mode) \in [1..n -> 0..One]
  BY <1>3, <1>4, ScoreType
<1>6. results = [mode \in Modes |-> [metric \in MetricNames |-> Mean(S(metric, mode))]]
  BY DEF Results
<1> HIDE DEF n, hits, S, results
<1>7. results \in [Modes -> [MetricNames -> 0..One]]
  <2>1. \A metric \in MetricNames, mode \in Modes : Mean(S(metric, mode)) \in 0..One
    <3>1. ASSUME NEW metric \in MetricNames, NEW mode \in Modes
          PROVE  Mean(S(metric, mode)) \in 0..One
      <4> DEFINE list == S(metric, mode)
      <4>1. list \in [1..n -> 0..One] /\ \A i \in 1..n : i \in {} => list[i] = 0
        BY <1>5
      <4> HIDE DEF list
      <4>2. Mean(list) \in 0..One
        <5>1. \A T : (\A i \in 1..n : i \in T => list[i] = 0) => Mean(list) \in 0..One
          BY <1>1, <4>1, MeanType
        <5>. QED
          BY <4>1, <5>1
      <4>. QED
        BY <4>2 DEF list
    <3>. QED
      BY <3>1
  <2>. QED
    BY <1>6, <2>1
<1>8. ASSUME NEW mode \in Modes, NEW other \in Modes, NEW metric \in MetricNames,
             \A j \in DOMAIN queries, c \in 1..k :
                 Cardinality({rank \in hits[Slot(queries, mode, j)] : rank <= c})
                     >= Cardinality({rank \in hits[Slot(queries, other, j)] : rank <= c})
      PROVE  results[mode][metric] >= results[other][metric]
  <2>1. ASSUME NEW m \in Modes, NEW j \in 1..n, NEW c \in 1..k
        PROVE  /\ Cardinality({rank \in hits[Slot(queries, m, j)] : rank <= c}) = UpTo(R(m, j), c)
               /\ UpTo(R(m, j), c) \in Nat
    <3> DEFINE Q == R(m, j)
    <3>1. Q \in SUBSET (1..k)
      BY <1>3, JudgedRanks DEF ScoresAre
    <3>0. hits[Slot(queries, m, j)] = Q
      BY <1>2
    <3> HIDE DEF Q
    <3>2. {rank \in Q : rank <= c} = Q \cap (1..c)
      <4>1. \A rank \in Q : rank <= c <=> rank \in 1..c
        BY <1>1, <3>1
      <4>. QED
        BY <4>1
    <3>3. UpTo(Q, c) \in Nat
      BY <1>1, UpToCounts
    <3>4. Cardinality({rank \in Q : rank <= c}) = UpTo(Q, c)
      BY <3>2, Zenon DEF UpTo
    <3>. QED
      BY <3>0, <3>3, <3>4, Zenon DEF Q
  <2>2. \A j \in 1..n : \A c \in 1..k : UpTo(R(other, j), c) <= UpTo(R(mode, j), c)
    <3> HIDE DEF R
    <3>. QED
      BY <1>1, <1>8, <2>1, ZenonT(60)
  <2>3. \A j \in 1..n : S(metric, other)[j] <= S(metric, mode)[j]
    <3>1. ASSUME NEW j \in 1..n
          PROVE  S(metric, other)[j] <= S(metric, mode)[j]
      <4>1. Score(metric, answers[Slot(queries, other, j)], Gold(queries[j], labelled), k)
              <= Score(metric, answers[Slot(queries, mode, j)], Gold(queries[j], labelled), k)
        BY <1>3, <2>2, BetterScore
      <4>. QED
        BY <1>4, <4>1
    <3>. QED
      BY <3>1
  <2>4. Mean(S(metric, other)) <= Mean(S(metric, mode))
    <3>1. S(metric, other) \in [1..n -> Nat] /\ S(metric, mode) \in [1..n -> Nat]
      <4>1. 0..One \subseteq Nat
        BY DEF One
      <4>2. S(metric, other) \in [1..n -> 0..One] /\ S(metric, mode) \in [1..n -> 0..One]
        BY <1>5
      <4>. QED
        BY <4>1, <4>2
    <3> DEFINE less == S(metric, other)
               more == S(metric, mode)
    <3>2. \A i \in 1..n : less[i] <= more[i]
      BY <2>3
    <3> HIDE DEF less, more
    <3>3. less \in [1..n -> Nat] /\ more \in [1..n -> Nat]
      BY <3>1 DEF less, more
    <3>4. Mean(less) <= Mean(more)
      BY <1>1, <3>2, <3>3, MeanGrows
    <3>. QED
      BY <3>4 DEF less, more
  <2>5. results[mode][metric] = Mean(S(metric, mode)) /\ results[other][metric] = Mean(S(metric, other))
    BY <1>6
  <2>6. results[mode][metric] \in 0..One /\ results[other][metric] \in 0..One
    BY <1>7
  <2>. QED
    <3>1. \A x, y \in 0..One : x <= y => y >= x
      BY DEF One
    <3>. QED
      BY <2>4, <2>5, <2>6, <3>1, Zenon
<1>9. ASSUME NEW mode \in Modes
      PROVE  /\ Cardinality({j \in DOMAIN queries : hits[Slot(queries, mode, j)] = {}}) \in Nat
             /\ One * Cardinality({j \in DOMAIN queries : hits[Slot(queries, mode, j)] = {}})
                    <= n * (One - results[mode]["ndcg"])
  <2> DEFINE T == {j \in 1..n : hits[Slot(queries, mode, j)] = {}}
             list == S("ndcg", mode)
  <2>1. "ndcg" \in MetricNames
    BY DEF MetricNames
  <2>2. list \in [1..n -> 0..One]
    BY <1>5, <2>1
  <2>3. ASSUME NEW j \in 1..n, j \in T PROVE list[j] = 0
    <3>1. R(mode, j) = {}
      BY <1>2, <2>3
    <3>2. Judged(answers[Slot(queries, mode, j)], Gold(queries[j], labelled), k)
      BY <1>3
    <3>3. Score("ndcg", answers[Slot(queries, mode, j)], Gold(queries[j], labelled), k) = 0
      BY <3>1, <3>2, ScoreType
    <3>. QED
      BY <1>4, <2>1, <3>3
  <2>4. T \cap (1..n) = T /\ T = {j \in DOMAIN queries : hits[Slot(queries, mode, j)] = {}}
    BY <1>1
  <2>5. results[mode]["ndcg"] = Mean(list)
    BY <1>6, <2>1
  <2> HIDE DEF T, list
  <2>6. One * UpTo(T, n) <= n * (One - Mean(list))
    BY <1>1, <2>2, <2>3, MeanType
  <2>7. UpTo(T, n) \in Nat
    BY <1>1, UpToCounts
  <2>. QED
    BY <2>4, <2>5, <2>6, <2>7 DEF UpTo
<1>10. Measured(queries, hits, results, k)
  BY <1>1, <1>7, <1>8, <1>9 DEF Measured, n
<1>. QED
  BY <1>10 DEF hits, results

-----------------------------------------------------------------------------
(* Scores are what they promise.                                           *)

MeasuredRun(it) == Measured(it.queries, it.hits, it.results, it.k)

\* A run asks about what is labelled, keeps lists of at most k chunks, and has
\* no results before they are counted.
RunIsMeasured(it) ==
    /\ it.first \in Seq(Chunks)
    /\ it.pc \in {"idle", "labels", "asking"} => it.results = None
    /\ it.pc \in {"idle", "labels"} => it.answers = <<>>
    /\ it.pc \in {"labels", "asking"} =>
          it.queries \in QuerySets /\ it.k \in Ks /\ Cutoff <= it.k
    /\ it.pc = "asking" =>
          /\ it.labelled \in SUBSET Chunks
          /\ \A query \in Range(it.queries) : Gold(query, it.labelled) # {}
          /\ it.answers \in Seq(Seq(Chunks)) /\ \A i \in 1..Len(it.answers) : Listed(it.answers[i], it.k)
    /\ it.pc \in {"opening", "dumping", "table", "ended"} => MeasuredRun(it)
    /\ it.results # None => MeasuredRun(it)

ScoreInv ==
    /\ KeptInv
    /\ changes \in 0..Effort /\ index \in SUBSET Chunks
    /\ report \in [Dirs -> Report] /\ table \in [Dirs -> Runs \cup {None}]
    /\ \A d \in Dirs : report[d].state = "whole" =>
          report[d].by \in Runs /\ MeasuredRun(run[report[d].by])
    /\ \A r \in Runs : RunIsMeasured(run[r])

LEMMA ScoreInit == Init => ScoreInv
<1> SUFFICES ASSUME Init PROVE ScoreInv
  OBVIOUS
<1>1. KeptInv
  BY KeptInit
<1>2. changes \in 0..Effort /\ index \in SUBSET Chunks
  BY ConstantsAssumption DEF Init, Chunks
<1>3. /\ report \in [Dirs -> Report] /\ table \in [Dirs -> Runs \cup {None}]
      /\ \A d \in Dirs : report[d].state # "whole"
  BY DEF Init, Report
<1>4. RunIsMeasured(Idle)
  <2>1. /\ Idle.first = <<>> /\ Idle.pc = "idle" /\ Idle.results = None /\ Idle.answers = <<>>
    BY DEF Idle
  <2>2. <<>> \in Seq(Chunks)
    OBVIOUS
  <2>. QED
    BY <2>1, <2>2 DEF RunIsMeasured
<1>. QED
  BY <1>1, <1>2, <1>3, <1>4 DEF Init, ScoreInv

\* The index changes.
LEMMA ScoreNextIndex == ScoreInv /\ (Add(Corpus) \/ Add(Extra) \/ Reset) => ScoreInv'
<1> SUFFICES ASSUME ScoreInv, Add(Corpus) \/ Add(Extra) \/ Reset PROVE ScoreInv'
  OBVIOUS
<1> DEFINE Asked == {asked \in Runs \X (1..Effort) : asked[2] <= Len(run[asked[1]].queries)}
<1>1. Cardinality(Asked) \in Nat
  <2>1. IsFiniteSet(Runs) /\ IsFiniteSet(1..Effort)
    BY ConstantsAssumption, FS_Interval
  <2>2. IsFiniteSet(Runs \X (1..Effort))
    BY <2>1, FS_Product
  <2>3. Asked \in SUBSET (Runs \X (1..Effort))
    OBVIOUS
  <2> HIDE DEF Asked
  <2>. QED
    BY <2>2, <2>3, FS_Subset, FS_CardinalityType
<1>2. Spent = changes + Cardinality(Asked)
  BY DEF Spent
<1> HIDE DEF Asked
<1>3. changes + 1 \in 0..Effort /\ changes' = changes + 1
  <2>1. changes \in 0..Effort /\ Effort \in Nat /\ Spent < Effort /\ changes' = changes + 1
    BY ConstantsAssumption DEF ScoreInv, Add, Reset
  <2>. QED
    BY <1>1, <1>2, <2>1
<1>4. index' \in SUBSET Chunks
  <2>1. ASSUME NEW contents, contents \in SUBSET (Corpus \cup Extra), Add(contents)
        PROVE  index' \in SUBSET Chunks
    BY <1>3, <2>1 DEF Add, NewId, Chunks, ScoreInv
  <2>2. CASE Reset
    BY <2>2 DEF Reset
  <2>. QED
    BY <2>1, <2>2
<1>5. run' = run /\ report' = report /\ table' = table
  BY DEF Add, Reset
<1>6. KeptInv'
  BY KeptNext DEF ScoreInv, Next
<1>. QED
  BY <1>3, <1>4, <1>5, <1>6 DEF ScoreInv

\* What a step of one run has to establish when it leaves the reports alone.
LEMMA ScoreNextOne ==
    ASSUME ScoreInv, KeptInv', NEW r \in Runs, UNCHANGED <<index, changes, report, table>>,
           \A q \in Runs \ {r} : run'[q] = run[q], RunIsMeasured(run'[r]),
           run[r].pc \in Past /\ MeasuredRun(run[r]) => MeasuredRun(run'[r])
    PROVE  ScoreInv'
<1>1. ASSUME NEW d \in Dirs, report[d].state = "whole"
      PROVE  MeasuredRun(run'[report[d].by])
  <2>1. report[d].by \in Runs /\ MeasuredRun(run[report[d].by])
    BY <1>1 DEF ScoreInv
  <2>2. run[report[d].by].pc \in Past
    BY <2>1, ConstantsAssumption DEF ScoreInv, KeptInv
  <2>. QED
    BY <2>1, <2>2
<1>2. \A q \in Runs : RunIsMeasured(run'[q])
  BY DEF ScoreInv
<1>. QED
  BY <1>1, <1>2 DEF ScoreInv

\* Runs begin and read their labels.
LEMMA ScoreNextBegin ==
    ASSUME ScoreInv, KeptInv', NEW r \in Runs,
           \/ \E d \in Dirs, k \in Ks, queries \in QuerySets : Begin(r, d, k, queries)
           \/ Label(r)
    PROVE  ScoreInv'
<1>0. Shape /\ RunIsMeasured(run[r]) /\ index \in SUBSET Chunks
  BY DEF ScoreInv, KeptInv
<1>1. ASSUME NEW d \in Dirs, NEW k \in Ks, NEW queries \in QuerySets, Begin(r, d, k, queries)
      PROVE  ScoreInv'
  <2>1. /\ run[r].pc = "idle" /\ run'[r].pc = "labels" /\ run'[r].queries = queries /\ run'[r].k = k
        /\ run'[r].first = run[r].first /\ run'[r].results = run[r].results
        /\ run'[r].answers = run[r].answers
        /\ \A q \in Runs \ {r} : run'[q] = run[q]
    BY <1>0, <1>1 DEF Begin, Shape, Fields
  <2>2. Cutoff <= k
    <3>1. k \in 1..Len(Discount) /\ Len(Discount) \in Nat /\ Cutoff \in Nat
      BY ConstantsAssumption, DiscountFalls
    <3>2. k >= Cutoff
      BY <1>1 DEF Begin
    <3>. QED
      BY <3>1, <3>2
  <2>3. RunIsMeasured(run'[r])
    BY <1>0, <2>1, <2>2 DEF RunIsMeasured
  <2>. QED
    BY <1>1, <2>1, <2>3, ScoreNextOne DEF Begin, Past
<1>2. CASE Label(r)
  <2>1. /\ run[r].pc = "labels" /\ run'[r].pc = "asking" /\ run'[r].labelled = index
        /\ run'[r].queries = run[r].queries /\ run'[r].k = run[r].k
        /\ run'[r].first = run[r].first /\ run'[r].results = run[r].results
        /\ run'[r].answers = run[r].answers
        /\ \A query \in Range(run[r].queries) : Gold(query, index) # {}
        /\ \A q \in Runs \ {r} : run'[q] = run[q]
    BY <1>0, <1>2 DEF Label, Shape, Fields
  <2>2. run'[r].answers = <<>> /\ <<>> \in Seq(Seq(Chunks)) /\ Len(<<>>) = 0
    BY <1>0, <2>1 DEF RunIsMeasured
  <2>3. \A i \in 1..0 : Listed(run'[r].answers[i], run'[r].k)
    OBVIOUS
  <2>4. RunIsMeasured(run'[r])
    BY <1>0, <2>1, <2>2, <2>3 DEF RunIsMeasured
  <2>. QED
    BY <1>2, <2>1, <2>4, ScoreNextOne DEF Label, Past
<1>. QED
  BY <1>1, <1>2

\* The statements of a search return chunks, each once, and no more than their limit.
LEMMA StatementsReturn ==
    ASSUME ScoreInv, NEW r \in Runs, Asking(r)
    PROVE  /\ Mode(r) \in Modes /\ Query(r) \in DOMAIN Relevant /\ run[r].k \in Nat
           /\ ByKeyword(r) \in Seq(Chunks) /\ ByMeaning(r) \in Seq(Chunks)
           /\ Distinct(ByKeyword(r)) /\ Distinct(ByMeaning(r))
           /\ Mode(r) = "keyword" => Len(ByKeyword(r)) <= run[r].k
           /\ Mode(r) = "semantic" => Len(ByMeaning(r)) <= run[r].k
<1>1. /\ run[r].queries \in QuerySets /\ run[r].k \in Ks /\ Len(run[r].answers) \in Nat
      /\ Len(run[r].answers) < PlanLength(run[r].queries)
  BY DEF ScoreInv, RunIsMeasured, Asking
<1>2. Mode(r) \in Modes /\ Query(r) \in DOMAIN Relevant
  <2>1. PICK n \in Nat : n = Len(run[r].answers)
    BY <1>1
  <2>2. PlanLength(run[r].queries) \in Nat
    BY <1>1, Places
  <2>3. n + 1 \in 1..PlanLength(run[r].queries)
    BY <1>1, <2>1, <2>2
  <2>. QED
    BY <1>1, <2>1, <2>3, Places DEF Mode, Query
<1>3. run[r].k \in Nat
  <2>1. Ks \subseteq 1..Len(Discount)
    BY ConstantsAssumption
  <2>2. Len(Discount) \in Nat
    BY DiscountFalls
  <2>3. \A k \in 1..Len(Discount) : k \in Nat
    BY <2>2
  <2>. QED
    BY <1>1, <2>1, <2>3, Zenon
<1>4. Pool(Mode(r), run[r].k) \in Nat
  BY <1>3, ConstantsAssumption DEF Pool
<1>5. /\ KeywordOrder[Query(r)] \in Seq(Chunks) /\ SemanticOrder[Query(r)] \in Seq(Chunks)
  BY <1>2, ConstantsAssumption
<1>6. IsFiniteSet(Chunks)
  BY ChunksAreFinite
<1>7. ASSUME NEW order \in Seq(Chunks), NEW limit \in Nat
      PROVE  /\ Retrieve(order, index, limit) \in Seq(Chunks)
             /\ Len(Retrieve(order, index, limit)) <= limit
             /\ Distinct(Retrieve(order, index, limit))
  BY <1>6, RetrieveReturns
<1>8. /\ ByKeyword(r) \in Seq(Chunks) /\ Len(ByKeyword(r)) <= Pool(Mode(r), run[r].k)
      /\ Distinct(ByKeyword(r))
  BY <1>4, <1>5, <1>7 DEF ByKeyword, KeywordSearch
<1>9. /\ ByMeaning(r) \in Seq(Chunks) /\ Len(ByMeaning(r)) <= Pool(Mode(r), run[r].k)
      /\ Distinct(ByMeaning(r))
  BY <1>4, <1>5, <1>7 DEF ByMeaning, SemanticSearch
<1>. QED
  BY <1>2, <1>3, <1>8, <1>9 DEF Pool

\* A search answers with a list of at most k chunks.
LEMMA AnswerIsListed ==
    ASSUME ScoreInv, NEW r \in Runs, Asking(r)
    PROVE  Listed(Answer(r), run[r].k)
<1> DEFINE bm25 == IF Mode(r) = "hybrid" THEN run[r].first ELSE ByKeyword(r)
           semantic == IF Mode(r) = "rerank" THEN run[r].first ELSE ByMeaning(r)
<1>1. /\ Mode(r) \in Modes /\ Query(r) \in DOMAIN Relevant /\ run[r].k \in Nat
      /\ ByKeyword(r) \in Seq(Chunks) /\ ByMeaning(r) \in Seq(Chunks)
      /\ Mode(r) = "keyword" => Len(ByKeyword(r)) <= run[r].k /\ Distinct(ByKeyword(r))
      /\ Mode(r) = "semantic" => Len(ByMeaning(r)) <= run[r].k /\ Distinct(ByMeaning(r))
  BY StatementsReturn
<1>2. run[r].first \in Seq(Chunks)
  BY DEF ScoreInv, RunIsMeasured
<1>3. /\ bm25 \in Seq(Chunks) /\ semantic \in Seq(Chunks)
      /\ Mode(r) = "keyword" => Len(bm25) <= run[r].k /\ Distinct(bm25)
      /\ Mode(r) = "semantic" => Len(semantic) <= run[r].k /\ Distinct(semantic)
  BY <1>1, <1>2
<1>4. /\ \A id \in Chunks : Relevance[Query(r)][id] \in Int
      /\ RrfK \in Nat /\ HybridPool \in Nat
  BY <1>1, ConstantsAssumption
<1>5. Answer(r) = Dispatch(Query(r), Mode(r), run[r].k, bm25, semantic)
  BY DEF Answer
<1> HIDE DEF bm25, semantic
<1> DEFINE list == Dispatch(Query(r), Mode(r), run[r].k, bm25, semantic)
<1>6. list \in Seq(Chunks) /\ Len(list) <= run[r].k /\ Distinct(list)
  BY <1>1, <1>3, <1>4, DispatchReturns
<1>. QED
  BY <1>5, <1>6 DEF Listed

\* Runs ask, and count.
LEMMA ScoreNextAsk ==
    ASSUME ScoreInv, KeptInv', NEW r \in Runs, AskFirst(r) \/ AskLast(r) \/ Count(r)
    PROVE  ScoreInv'
<1>0. Shape /\ RunIsMeasured(run[r])
  BY DEF ScoreInv, KeptInv
<1>1. CASE AskFirst(r)
  <2>1. /\ run[r].pc = "asking" /\ run'[r].pc = "asking" /\ run'[r].labelled = run[r].labelled
        /\ run'[r].queries = run[r].queries /\ run'[r].k = run[r].k
        /\ run'[r].results = run[r].results /\ run'[r].answers = run[r].answers
        /\ run'[r].first = (IF Mode(r) = "hybrid" THEN ByKeyword(r) ELSE ByMeaning(r))
        /\ \A q \in Runs \ {r} : run'[q] = run[q]
    BY <1>0, <1>1 DEF AskFirst, Asking, Shape, Fields
  <2>2. run'[r].first \in Seq(Chunks)
    BY <1>1, <2>1, StatementsReturn DEF AskFirst
  <2>3. RunIsMeasured(run'[r])
    BY <1>0, <2>1, <2>2 DEF RunIsMeasured
  <2>. QED
    BY <1>1, <2>1, <2>3, ScoreNextOne DEF AskFirst, Past
<1>2. CASE AskLast(r)
  <2>1. /\ run[r].pc = "asking" /\ run'[r].pc = "asking" /\ run'[r].labelled = run[r].labelled
        /\ run'[r].queries = run[r].queries /\ run'[r].k = run[r].k
        /\ run'[r].results = run[r].results /\ run'[r].first = <<>>
        /\ run'[r].answers = Append(run[r].answers, Answer(r))
        /\ \A q \in Runs \ {r} : run'[q] = run[q]
    BY <1>0, <1>2 DEF AskLast, Asking, Shape, Fields
  <2>2. Listed(Answer(r), run[r].k)
    BY <1>2, AnswerIsListed DEF AskLast
  <2>3. /\ run[r].answers \in Seq(Seq(Chunks)) /\ Answer(r) \in Seq(Chunks)
        /\ \A i \in 1..Len(run[r].answers) : Listed(run[r].answers[i], run[r].k)
    BY <1>0, <2>1, <2>2 DEF RunIsMeasured, Listed
  <2> DEFINE more == Append(run[r].answers, Answer(r))
  <2>4. /\ more \in Seq(Seq(Chunks)) /\ Len(more) = Len(run[r].answers) + 1
        /\ \A i \in 1..Len(run[r].answers) : more[i] = run[r].answers[i]
        /\ more[Len(run[r].answers) + 1] = Answer(r)
    BY <2>3, AppendProperties
  <2> HIDE DEF more
  <2>5. \A i \in 1..Len(more) : Listed(more[i], run[r].k)
    <3>1. ASSUME NEW i \in 1..Len(more) PROVE Listed(more[i], run[r].k)
      <4>1. i \in 1..Len(run[r].answers) \/ i = Len(run[r].answers) + 1
        BY <2>3, <2>4
      <4>. QED
        BY <2>2, <2>3, <2>4, <4>1
    <3>. QED
      BY <3>1
  <2>6. run'[r].first \in Seq(Chunks) /\ run'[r].answers = more
    BY <2>1 DEF more
  <2>7. RunIsMeasured(run'[r])
    BY <1>0, <2>1, <2>4, <2>5, <2>6 DEF RunIsMeasured
  <2>. QED
    BY <1>2, <2>1, <2>7, ScoreNextOne DEF AskLast, Past
<1>3. CASE Count(r)
  <2>1. /\ run[r].pc = "asking" /\ run'[r].pc = "opening"
        /\ run'[r].queries = run[r].queries /\ run'[r].k = run[r].k
        /\ run'[r].results = ResultsOf(r) /\ run'[r].hits = HitsOf(r)
        /\ run'[r].first = run[r].first
        /\ Len(run[r].answers) = PlanLength(run[r].queries)
        /\ \A q \in Runs \ {r} : run'[q] = run[q]
    BY <1>0, <1>3 DEF Count, Complete, Shape, Fields
  <2>2. run[r].answers \in Seq(Seq(Chunks)) /\ DOMAIN run[r].answers = 1..PlanLength(run[r].queries)
    BY <1>0, <2>1 DEF RunIsMeasured
  <2>3. Answered(run[r].queries, run[r].k, run[r].labelled, run[r].answers)
    BY <1>0, <2>1, <2>2 DEF Answered, RunIsMeasured
  <2>4. Measured(run[r].queries, HitsOf(r), ResultsOf(r), run[r].k)
    BY <2>3, CompleteIsMeasured DEF HitsOf, ResultsOf
  <2>5. RunIsMeasured(run'[r])
    BY <1>0, <2>1, <2>4 DEF RunIsMeasured, MeasuredRun
  <2>. QED
    BY <1>3, <2>1, <2>5, ScoreNextOne DEF Count, Past
<1>. QED
  BY <1>1, <1>2, <1>3

\* Runs write their files, or stop.
LEMMA ScoreNextWrite ==
    ASSUME ScoreInv, KeptInv', NEW r \in Runs,
           OpenReport(r) \/ Dump(r) \/ WriteTable(r) \/ Stop(r)
    PROVE  ScoreInv'
<1>0. Shape /\ RunIsMeasured(run[r]) /\ run[r].dir = run[r].dir
  BY DEF ScoreInv, KeptInv
<1>1. ASSUME OpenReport(r) \/ Dump(r) \/ WriteTable(r)
      PROVE  /\ run[r].pc \in {"opening", "dumping", "table"}
             /\ run'[r].pc \in {"dumping", "table", "ended"} /\ run'[r].first = run[r].first
             /\ run'[r].queries = run[r].queries /\ run'[r].k = run[r].k
             /\ run'[r].hits = run[r].hits /\ run'[r].results = run[r].results
             /\ \A q \in Runs \ {r} : run'[q] = run[q]
             /\ index' = index /\ changes' = changes
  BY <1>0, <1>1 DEF OpenReport, Dump, WriteTable, Shape, Fields
<1>2. ASSUME OpenReport(r) \/ Dump(r) \/ WriteTable(r)
      PROVE  /\ \A q \in Runs : MeasuredRun(run[q]) => MeasuredRun(run'[q])
             /\ \A q \in Runs : RunIsMeasured(run'[q])
             /\ MeasuredRun(run[r]) /\ changes' \in 0..Effort /\ index' \in SUBSET Chunks
  <2>1. RunIsMeasured(run'[r]) /\ MeasuredRun(run[r]) /\ MeasuredRun(run'[r])
    BY <1>0, <1>1, <1>2 DEF RunIsMeasured, MeasuredRun
  <2>. QED
    BY <1>1, <1>2, <2>1 DEF ScoreInv
<1>3. CASE OpenReport(r)
  <2>1. /\ report' = [report EXCEPT ![run[r].dir] = [state |-> "empty", by |-> None]]
        /\ table' = table
    BY <1>3 DEF OpenReport
  <2>2. report' \in [Dirs -> Report] /\ table' \in [Dirs -> Runs \cup {None}]
    BY <2>1 DEF ScoreInv, Report
  <2>3. ASSUME NEW d \in Dirs, report'[d].state = "whole" PROVE report'[d] = report[d]
    BY <2>1, <2>3 DEF ScoreInv
  <2>. QED
    BY <1>2, <1>3, <2>2, <2>3 DEF ScoreInv
<1>4. CASE Dump(r)
  <2>1. /\ \/ report' = [report EXCEPT ![run[r].dir] = [state |-> "whole", by |-> r]]
           \/ report' = [report EXCEPT ![run[r].dir] = [state |-> "mixed", by |-> None]]
        /\ table' = table
    BY <1>4 DEF Dump
  <2>2. report' \in [Dirs -> Report] /\ table' \in [Dirs -> Runs \cup {None}]
    BY <2>1 DEF ScoreInv, Report
  <2>3. ASSUME NEW d \in Dirs, report'[d].state = "whole"
        PROVE  report'[d] = report[d] \/ report'[d].by = r
    BY <2>1, <2>3 DEF ScoreInv
  <2>. QED
    BY <1>2, <1>4, <2>2, <2>3 DEF ScoreInv
<1>5. CASE WriteTable(r)
  <2>1. table' = [table EXCEPT ![run[r].dir] = r] /\ report' = report
    BY <1>5 DEF WriteTable
  <2>2. table' \in [Dirs -> Runs \cup {None}]
    BY <2>1 DEF ScoreInv
  <2>. QED
    BY <1>2, <1>5, <2>1, <2>2 DEF ScoreInv
<1>6. CASE Stop(r)
  <2>1. /\ \A q \in Runs \ {r} : run'[q] = run[q]
        /\ UNCHANGED <<index, changes, report, table>>
    BY <1>0, <1>6 DEF Stop, Shape
  <2>2. ASSUME run[r].pc \in {"labels", "asking", "opening", "dumping"},
               run' = [run EXCEPT ![r] = [Idle EXCEPT !.pc = "stopped", !.queries = run[r].queries]]
        PROVE  RunIsMeasured(run'[r]) /\ run[r].pc \notin Past
    <3>1. /\ run'[r].pc = "stopped" /\ run'[r].first = <<>> /\ run'[r].results = None
      BY <1>0, <2>2 DEF Idle, Shape
    <3>2. <<>> \in Seq(Chunks)
      OBVIOUS
    <3>3. RunIsMeasured(run'[r])
      BY <3>1, <3>2 DEF RunIsMeasured
    <3>4. run[r].pc \notin Past
      BY <2>2 DEF Past
    <3>. QED
      BY <3>3, <3>4
  <2>3. ASSUME run[r].pc = "table", run' = [run EXCEPT ![r].pc = "stopped"]
        PROVE  RunIsMeasured(run'[r]) /\ (MeasuredRun(run[r]) => MeasuredRun(run'[r]))
    <3>1. /\ run'[r].pc = "stopped" /\ run'[r].first = run[r].first
          /\ run'[r].queries = run[r].queries /\ run'[r].k = run[r].k
          /\ run'[r].hits = run[r].hits /\ run'[r].results = run[r].results
      BY <1>0, <2>3 DEF Shape, Fields
    <3>. QED
      BY <1>0, <3>1 DEF RunIsMeasured, MeasuredRun
  <2>. QED
    BY <1>6, <2>1, <2>2, <2>3, ScoreNextOne DEF Stop
<1>. QED
  BY <1>3, <1>4, <1>5, <1>6

\* Every step keeps what the scores promise.
LEMMA ScoreNext == ScoreInv /\ [Next]_vars => ScoreInv'
<1> SUFFICES ASSUME ScoreInv, [Next]_vars PROVE ScoreInv'
  OBVIOUS
<1>1. KeptInv'
  BY KeptNext DEF ScoreInv
<1>2. CASE UNCHANGED vars
  BY <1>1, <1>2 DEF vars, ScoreInv
<1>. QED
  BY <1>1, <1>2, ScoreNextIndex, ScoreNextBegin, ScoreNextAsk, ScoreNextWrite DEF Next

\* The invariant of the scores holds throughout.
THEOREM ScoreInvariant == Spec => []ScoreInv
<1>1. Init => ScoreInv
  BY ScoreInit
<1>2. ScoreInv /\ [Next]_vars => ScoreInv'
  BY ScoreNext
<1>. QED
  BY <1>1, <1>2, PTL DEF Spec

\* Every variable keeps its type, and no metric of any mode is above one, whatever
\* the rankings, the labels, the discounts and k.
THEOREM BenchmarkIsTyped == Spec => []TypeOK
<1>1. ScoreInv => TypeOK
  <2> SUFFICES ASSUME ScoreInv, NEW r \in Runs, run[r].results # None, NEW mode \in Modes,
                      NEW metric \in MetricNames
               PROVE  run[r].results[mode][metric] \in 0..One
    BY DEF ScoreInv, TypeOK
  <2>1. run[r].results \in [Modes -> [MetricNames -> 0..One]]
    BY DEF ScoreInv, RunIsMeasured, MeasuredRun, Measured
  <2>. QED
    BY <2>1
<1>. QED
  BY <1>1, ScoreInvariant, PTL

\* A mode that is ahead of another in every beginning of every list scores no worse
\* in precision, recall, reciprocal rank and gain.
THEOREM BetterScoresHigher == Spec => []BetterRankingScoresHigher
<1>1. ScoreInv => BetterRankingScoresHigher
  BY DEF ScoreInv, RunIsMeasured, MeasuredRun, Measured, BetterRankingScoresHigher
<1>. QED
  BY <1>1, ScoreInvariant, PTL

\* What the gate passes was measured: the queries a mode found nothing for are
\* bounded by its floor, for every baseline and every drop that is allowed.
THEOREM PassedIsMeasured == Spec => []PassedModesAreMeasured
<1>1. ASSUME ScoreInv, NEW d \in Dirs, Passes(d), NEW mode \in DOMAIN Baseline.modes
      PROVE  One * Cardinality({j \in DOMAIN run[report[d].by].queries :
                                run[report[d].by].hits[Slot(run[report[d].by].queries, mode, j)] = {}})
                <= Len(run[report[d].by].queries) * (One - Floor[mode])
  <2> DEFINE it     == run[report[d].by]
             missed == Cardinality({j \in DOMAIN it.queries : it.hits[Slot(it.queries, mode, j)] = {}})
             n      == Len(it.queries)
             ndcg   == it.results[mode]["ndcg"]
             floor  == Floor[mode]
  <2>1. report[d].state = "whole" /\ ndcg >= floor /\ mode \in Modes
    BY <1>1, ConstantsAssumption DEF Passes
  <2>2. MeasuredRun(it)
    BY <1>1, <2>1 DEF ScoreInv
  <2>3. /\ it.results \in [Modes -> [MetricNames -> 0..One]]
        /\ missed \in Nat /\ n \in Nat
    BY <2>1, <2>2 DEF MeasuredRun, Measured
  <2>4. One * missed <= n * (One - ndcg)
    BY <2>1, <2>2 DEF MeasuredRun, Measured
  <2>5. ndcg \in Int
    <3>1. "ndcg" \in MetricNames
      BY DEF MetricNames
    <3>2. it.results[mode] \in [MetricNames -> 0..One]
      BY <2>1, <2>3
    <3>3. ndcg \in 0..One
      BY <3>1, <3>2
    <3>4. \A score \in 0..One : score \in Int
      BY DEF One
    <3>. QED
      BY <3>3, <3>4, Zenon
  <2>6. floor \in Int
    <3>1. Baseline.modes[mode] \in Int /\ MaxDrop \in Int
      BY <1>1, ConstantsAssumption
    <3>2. PICK product \in Int : product = Baseline.modes[mode] * (100 - MaxDrop)
      BY <3>1, SMT
    <3>3. product \div 100 \in Int
      OBVIOUS
    <3>. QED
      BY <1>1, <3>2, <3>3 DEF Floor
  <2> HIDE DEF missed, n, ndcg, floor
  <2>7. n * (One - ndcg) <= n * (One - floor)
    <3>1. One - ndcg \in Int /\ One - floor \in Int /\ One - ndcg <= One - floor
      BY <2>1, <2>5, <2>6 DEF One
    <3>2. PICK x, y \in Int : x = One - ndcg /\ y = One - floor /\ x <= y
      BY <3>1
    <3>3. n * x <= n * y
      BY <2>3, <3>2, SMT
    <3>. QED
      BY <3>2, <3>3
  <2>8. One * missed \in Int /\ n * (One - ndcg) \in Int /\ n * (One - floor) \in Int
    <3>1. \A x, y \in Int : x * y \in Int /\ One - x \in Int
      BY SMT DEF One
    <3>2. \A x \in Nat : x \in Int
      OBVIOUS
    <3>3. missed \in Int /\ n \in Int
      BY <2>3, <3>2, Zenon
    <3>4. One \in Int
      BY DEF One
    <3>. QED
      BY <2>5, <2>6, <3>1, <3>3, <3>4
  <2>9. One * missed <= n * (One - floor)
    BY <2>7, <2>8, <2>4
  <2>. QED
    BY <2>9 DEF missed, n, floor
<1>2. ScoreInv => PassedModesAreMeasured
  BY <1>1 DEF PassedModesAreMeasured
<1>. QED
  BY <1>2, ScoreInvariant, PTL
=============================================================================
