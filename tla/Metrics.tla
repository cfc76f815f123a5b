------------------------------ MODULE Metrics ------------------------------
(***************************************************************************)
(* The ranking metrics of the benchmark, with binary relevance: retrieved  *)
(* is a list of chunk ids, relevant a set of them.  Scores are fractions   *)
(* of One, as a report keeps four digits of them.                          *)
(***************************************************************************)
EXTENDS Naturals, Sequences, FiniteSets, FiniteSetsExt

CONSTANT Discount   \* by rank: One / log2(rank + 1)

ASSUME DiscountFalls ==
    /\ Discount \in Seq(Nat \ {0})
    /\ \A i, j \in 1..Len(Discount) : i <= j => Discount[j] <= Discount[i]

One == 10000

\* The sum of a list of numbers.
Total(list) ==
    LET length == Cardinality(DOMAIN list)
        sum[n \in 0..length] == IF n = 0 THEN 0 ELSE sum[n - 1] + list[n]
    IN  sum[length]

\* The ranks of the relevant hits among the first k.
HitRanks(retrieved, relevant, k) ==
    {rank \in DOMAIN retrieved : rank <= k /\ retrieved[rank] \in relevant}

PrecisionAt(retrieved, relevant, k) ==
    (One * Cardinality(HitRanks(retrieved, relevant, k))) \div k

RecallAt(retrieved, relevant, k) ==
    IF relevant = {} THEN 0
    ELSE LET found == {retrieved[rank] : rank \in HitRanks(retrieved, relevant, k)}
         IN  (One * Cardinality(found)) \div Cardinality(relevant)

\* Mutant: the last hit counts.
ByLastHit(retrieved, relevant) ==
    LET ranks == HitRanks(retrieved, relevant, Len(retrieved))
    IN  IF ranks = {} THEN 0 ELSE One \div Max(ranks)
ReciprocalRank(retrieved, relevant) ==
    LET ranks == HitRanks(retrieved, relevant, Len(retrieved))
    IN  IF ranks = {} THEN 0 ELSE One \div Min(ranks)

Dcg(ranks) == Total([rank \in 1..Len(Discount) |-> IF rank \in ranks THEN Discount[rank] ELSE 0])

\* Mutant: the gain is not normalized.
GainAt(retrieved, relevant, k) == Dcg(HitRanks(retrieved, relevant, k))
\* The ideal list has its min(|relevant|, k) hits first.
NdcgAt(retrieved, relevant, k) ==
    IF relevant = {} THEN 0
    ELSE (One * Dcg(HitRanks(retrieved, relevant, k)))
            \div Dcg(1..Min({Cardinality(relevant), k}))

\* Mutant: queries without a hit are left out of the mean.
MeanOfHits(scores) ==
    LET hit == {i \in DOMAIN scores : scores[i] > 0}
    IN  IF hit = {} THEN 0 ELSE Total(scores) \div Cardinality(hit)
Mean(scores) == Total(scores) \div Len(scores)
=============================================================================
