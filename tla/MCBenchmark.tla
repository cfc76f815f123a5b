---------------------------- MODULE MCBenchmark ----------------------------
(* An instance of Benchmark for TLC. *)
EXTENDS Benchmark, TLC

CONSTANTS a, b, c, x, p, q

\* One / log2(rank + 1)
TheDiscount == <<10000, 6309, 5000, 4307, 3869>>

TheRelevant  == (p :> {a, b}) @@ (q :> {c})
TheQuerySets == {<<p, q>>, <<q>>}

\* The chunks that copies of these contents have, older ones first.
Copies(contents) ==
    [i \in 1..(Len(contents) * (Effort + 1)) |->
        <<contents[1 + ((i - 1) \div (Effort + 1))], (i - 1) % (Effort + 1)>>]

TheKeywordOrder  == (p :> Copies(<<a, x, c>>)) @@ (q :> Copies(<<c, x>>))
TheSemanticOrder == (p :> Copies(<<x, b, a, c>>)) @@ (q :> Copies(<<a, c, b, x>>))
TheRelevance ==
    LET Graded(scores) == [id \in Chunks |-> scores[id[1]]]
    IN  (p :> Graded((a :> 4) @@ (b :> 3) @@ (c :> 1) @@ (x :> 2)))
        @@ (q :> Graded((a :> 1) @@ (b :> 2) @@ (c :> 4) @@ (x :> 3)))

\* The nDCG of IdealResults(2, <<p, q>>, Corpus \X {0}), a run over the corpus alone.
TheBaseline ==
    [k |-> 2, n_queries |-> 2,
     modes |-> [keyword |-> 8065, semantic |-> 8154, hybrid |-> 8065, rerank |-> 10000]]

Symmetry == Permutations(Runs) \cup Permutations(Dirs)
=============================================================================
