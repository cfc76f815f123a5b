--------------------------- MODULE RankingProofs ---------------------------
(* What the four search modes return, for any rankings, pools and k.       *)
EXTENDS Ranking, FiniteSetTheorems, SequenceTheorems, WellFoundedInduction, TLAPS

-----------------------------------------------------------------------------
(* Numbers and orders.                                                     *)

Smaller == {p \in Nat \X Nat : p[1] < p[2]}

\* A set of naturals that is not empty has a least one.
LEMMA Least ==
    ASSUME NEW S \in SUBSET Nat, S # {}
    PROVE  \E m \in S : \A n \in S : m <= n
<1>1. IsWellFoundedOn(Smaller, Nat)
  BY NatLessThanWellFounded DEF OpToRel, Smaller
<1>2. PICK m \in S : \A n \in S : <<n, m>> \notin Smaller
  BY <1>1, WFMin
<1>3. \A n \in S : ~(n < m)
  BY <1>2 DEF Smaller
<1>. QED
  BY <1>3

\* A set of naturals with a bound has a greatest one.
LEMMA Greatest ==
    ASSUME NEW S \in SUBSET Nat, S # {}, NEW bound \in Nat, \A n \in S : n <= bound
    PROVE  Max(S) \in S /\ \A n \in S : n <= Max(S)
<1> DEFINE T == {bound - n : n \in S}
<1>1. PICK t \in T : \A u \in T : t <= u
  <2>1. \A n \in S : bound - n \in Nat
    OBVIOUS
  <2>2. T \in SUBSET Nat /\ T # {}
    BY <2>1
  <2> HIDE DEF T
  <2>. QED
    BY <2>2, Least
<1>2. PICK m \in S : t = bound - m
  OBVIOUS
<1>3. \A n \in S : m >= n
  BY <1>1, <1>2
<1>. QED
  BY <1>3 DEF Max

StrictOrder(R, S) ==
    /\ \A a, b \in S : a # b => <<a, b>> \in R \/ <<b, a>> \in R
    /\ \A a, b, c \in S : <<a, b>> \in R /\ <<b, c>> \in R => <<a, c>> \in R
    /\ \A a \in S : <<a, a>> \notin R

\* How many members are ahead tells where a member is.
LEMMA FewerAhead ==
    ASSUME NEW S, IsFiniteSet(S), NEW R, StrictOrder(R, S)
    PROVE  /\ \A d \in S : Cardinality(Preceding(S, R, d)) \in 0..(Cardinality(S) - 1)
           /\ \A d, e \in S : <<d, e>> \in R <=>
                 Cardinality(Preceding(S, R, d)) < Cardinality(Preceding(S, R, e))
<1>1. ASSUME NEW T, T \in SUBSET S, NEW U, U \in SUBSET T, T # U
      PROVE  /\ Cardinality(U) < Cardinality(T)
             /\ Cardinality(U) \in Nat /\ Cardinality(T) \in Nat
  BY <1>1, FS_Subset, FS_CardinalityType
<1>2. ASSUME NEW d \in S PROVE Cardinality(Preceding(S, R, d)) \in 0..(Cardinality(S) - 1)
  <2>1. Preceding(S, R, d) \in SUBSET S /\ Preceding(S, R, d) # S
    BY DEF StrictOrder, Preceding
  <2>2. /\ Cardinality(Preceding(S, R, d)) < Cardinality(S)
        /\ Cardinality(Preceding(S, R, d)) \in Nat /\ Cardinality(S) \in Nat
    BY <1>1, <2>1
  <2>. QED
    BY <2>2
<1>3. ASSUME NEW d \in S, NEW e \in S, <<d, e>> \in R
      PROVE  Cardinality(Preceding(S, R, d)) < Cardinality(Preceding(S, R, e))
  <2>1. /\ Preceding(S, R, d) \in SUBSET Preceding(S, R, e) /\ Preceding(S, R, e) \in SUBSET S
        /\ Preceding(S, R, d) # Preceding(S, R, e)
    BY <1>3 DEF StrictOrder, Preceding
  <2>. QED
    BY <1>1, <2>1
<1>4. ASSUME NEW d \in S, NEW e \in S,
             Cardinality(Preceding(S, R, d)) < Cardinality(Preceding(S, R, e))
      PROVE  <<d, e>> \in R
  <2>1. Cardinality(Preceding(S, R, d)) \in Int /\ Cardinality(Preceding(S, R, e)) \in Int
    BY <1>2
  <2>2. d # e
    BY <1>4, <2>1
  <2>3. <<e, d>> \notin R
    BY <1>3, <1>4, <2>1
  <2>. QED
    BY <2>2, <2>3 DEF StrictOrder
<1>. QED
  BY <1>2, <1>3, <1>4

\* A listing has every member once, in the order's order.
LEMMA ListingOrders ==
    ASSUME NEW S, IsFiniteSet(S), NEW R, StrictOrder(R, S)
    PROVE  LET list == Listing(S, R) IN
           /\ list \in [1..Cardinality(S) -> S]
           /\ \A d \in S : \E i \in 1..Cardinality(S) : list[i] = d
           /\ \A i, j \in 1..Cardinality(S) : i < j <=> <<list[i], list[j]>> \in R
<1> DEFINE n == Cardinality(S)
           Place(d) == Cardinality(Preceding(S, R, d)) + 1
           place == [d \in S |-> Place(d)]
           list == Listing(S, R)
<1>1. /\ \A d \in S : Place(d) \in 1..n
      /\ \A d, e \in S : <<d, e>> \in R <=> Place(d) < Place(e)
  <2>1. n \in Nat
    BY FS_CardinalityType
  <2>. QED
    BY <2>1, FewerAhead
<1>2. n \in Nat /\ IsFiniteSet(1..n) /\ Cardinality(1..n) = n
  BY FS_CardinalityType, FS_Interval
<1>3. place \in Injection(S, 1..n)
  <2>1. place \in [S -> 1..n]
    BY <1>1
  <2>2. ASSUME NEW d \in S, NEW e \in S, place[d] = place[e] PROVE d = e
    <3>1. ~(Place(d) < Place(e)) /\ ~(Place(e) < Place(d))
      BY <1>1, <1>2, <2>2
    <3>. QED
      BY <1>1, <3>1 DEF StrictOrder
  <2>. QED
    BY <2>1, <2>2 DEF Injection, IsInjective
<1>4. place \in Surjection(S, 1..n)
  BY <1>2, <1>3, FS_Injection
<1>5. \A i \in 1..n : \E d \in S : Place(d) = i
  BY <1>4 DEF Surjection
<1>6. \A d, e \in S : Place(d) = Place(e) => d = e
  BY <1>3 DEF Injection, IsInjective
<1>7. \A i \in 1..n : \A d \in S : Place(d) = i <=> Cardinality(Preceding(S, R, d)) = i - 1
  BY <1>1, <1>2, FewerAhead
<1>8. \A i \in 1..n : list[i] \in S /\ Place(list[i]) = i
  BY <1>5, <1>7 DEF Listing
<1>9. list \in [1..n -> S]
  BY <1>8 DEF Listing
<1>10. \A d \in S : Place(d) \in 1..n /\ list[Place(d)] = d
  BY <1>1, <1>6, <1>8
<1>11. \A i, j \in 1..n : i < j <=> <<list[i], list[j]>> \in R
  BY <1>1, <1>8
<1>. QED
  BY <1>9, <1>10, <1>11

-----------------------------------------------------------------------------
(* The common denominator of the fused scores.                             *)

\* A first part of the product.
Begins(f, n) == /\ f \in [0..n -> Nat] /\ f[0] = 1
                /\ \A i \in 1..n : f[i] = f[i - 1] * (RrfK + i)

\* There is one of every length, and they agree.
LEMMA ProductBegins ==
    ASSUME RrfK \in Nat
    PROVE  /\ \A n \in Nat : \E f : Begins(f, n)
           /\ \A n, m \in Nat : \A f, g : Begins(f, n) /\ Begins(g, m) =>
                 \A i \in 0..n : i <= m => f[i] = g[i]
<1>1. ASSUME NEW n \in Nat, ~\E f : Begins(f, n) PROVE FALSE
  <2> DEFINE Missing == {k \in Nat : ~\E f : Begins(f, k)}
  <2>1. PICK k \in Missing : \A j \in Missing : k <= j
    <3>1. Missing \in SUBSET Nat /\ Missing # {}
      BY <1>1
    <3> HIDE DEF Missing
    <3>. QED
      BY <3>1, Least
  <2>2. k # 0
    <3>1. Begins([i \in 0..0 |-> 1], 0)
      BY DEF Begins
    <3>. QED
      BY <2>1, <3>1
  <2>3. k - 1 \in Nat /\ k - 1 \notin Missing
    BY <2>1, <2>2
  <2>4. PICK f : Begins(f, k - 1)
    BY <2>3
  <2> DEFINE g == [i \in 0..k |-> IF i = k THEN f[k - 1] * (RrfK + k) ELSE f[i]]
  <2>5. f[k - 1] * (RrfK + k) \in Nat /\ \A i \in 0..(k - 1) : f[i] \in Nat
    BY <2>3, <2>4 DEF Begins
  <2>6. g \in [0..k -> Nat]
    BY <2>3, <2>5
  <2>7. g[0] = 1 /\ g[k] = f[k - 1] * (RrfK + k) /\ \A i \in 0..(k - 1) : g[i] = f[i]
    BY <2>2, <2>3, <2>4 DEF Begins
  <2> HIDE DEF g
  <2>8. ASSUME NEW i \in 1..k PROVE g[i] = g[i - 1] * (RrfK + i)
    <3>1. CASE i = k
      <4>1. g[k - 1] = f[k - 1]
        BY <2>3, <2>7
      <4>. QED
        BY <2>7, <3>1, <4>1
    <3>2. CASE i # k
      <4>1. i \in 1..(k - 1) /\ i - 1 \in 0..(k - 1) /\ i \in 0..(k - 1)
        BY <2>3, <3>2
      <4>. QED
        BY <2>4, <2>7, <4>1 DEF Begins
    <3>. QED
      BY <3>1, <3>2
  <2>9. Begins(g, k)
    BY <2>6, <2>7, <2>8 DEF Begins
  <2>. QED
    BY <2>1, <2>9
<1>2. ASSUME NEW n \in Nat, NEW m \in Nat, NEW f, NEW g, Begins(f, n), Begins(g, m),
             NEW i \in 0..n, i <= m, f[i] # g[i]
      PROVE  FALSE
  <2> DEFINE Differs == {k \in Nat : k <= n /\ k <= m /\ f[k] # g[k]}
  <2>1. PICK k \in Differs : \A j \in Differs : k <= j
    <3>1. Differs \in SUBSET Nat /\ Differs # {}
      BY <1>2
    <3> HIDE DEF Differs
    <3>. QED
      BY <3>1, Least
  <2>2. k # 0
    BY <1>2, <2>1 DEF Begins
  <2>3. k - 1 \in Nat /\ k - 1 \notin Differs
    BY <2>1, <2>2
  <2>4. f[k - 1] = g[k - 1] /\ k \in 1..n /\ k \in 1..m
    BY <2>1, <2>2, <2>3
  <2>. QED
    BY <1>2, <2>1, <2>4 DEF Begins
<1>. QED
  BY <1>1, <1>2

\* The product is a natural number.
LEMMA DenominatorType ==
    ASSUME RrfK \in Nat, HybridPool \in Nat
    PROVE  Denominator \in Nat
<1> DEFINE First(n) == CHOOSE f : Begins(f, n)
           F == [n \in Nat |-> First(n)[n]]
<1>1. \A n \in Nat : Begins(First(n), n)
  BY ProductBegins
<1> HIDE DEF First
<1>2. \A n \in Nat : First(n)[n] \in Nat
  BY <1>1 DEF Begins
<1>3. First(0)[0] = 1
  BY <1>1 DEF Begins
<1>4. ASSUME NEW n \in Nat, n # 0 PROVE First(n)[n] = First(n - 1)[n - 1] * (RrfK + n)
  <2>1. n - 1 \in Nat /\ n - 1 \in 0..n /\ n - 1 \in 0..(n - 1) /\ n \in 1..n /\ n - 1 <= n
    BY <1>4
  <2>2. First(n)[n - 1] = First(n - 1)[n - 1]
    BY <1>1, <2>1, ProductBegins
  <2>. QED
    BY <1>1, <2>1, <2>2 DEF Begins
<1>5. F = [n \in Nat |-> IF n = 0 THEN 1 ELSE F[n - 1] * (RrfK + n)]
  BY <1>3, <1>4
<1>6. Product = [n \in Nat |-> IF n = 0 THEN 1 ELSE Product[n - 1] * (RrfK + n)]
  <2> HIDE DEF F
  <2>. QED
    BY <1>5 DEF Product
<1>7. \A n \in Nat : Product[n] \in Nat
  <2>1. SUFFICES ASSUME NEW n \in Nat, Product[n] \notin Nat PROVE FALSE
    OBVIOUS
  <2> DEFINE Wrong == {k \in Nat : Product[k] \notin Nat}
  <2>2. PICK k \in Wrong : \A j \in Wrong : k <= j
    <3>1. Wrong \in SUBSET Nat /\ Wrong # {}
      BY <2>1
    <3> HIDE DEF Wrong
    <3>. QED
      BY <3>1, Least
  <2>3. k # 0
    BY <1>6, <2>2
  <2>4. Product[k - 1] \in Nat
    BY <2>2, <2>3
  <2>5. Product[k] = Product[k - 1] * (RrfK + k)
    BY <1>6, <2>2, <2>3
  <2>. QED
    BY <2>2, <2>4, <2>5
<1>. QED
  BY <1>7 DEF Denominator

-----------------------------------------------------------------------------
(* What the two retrievers and the two sorts return.                       *)

\* The length of a list of n hits, cut at k.
Cut(n, k) == IF n < k THEN n ELSE k

\* The cut of a list is its beginning.
LEMMA TopKeeps ==
    ASSUME NEW S, NEW list \in Seq(S), NEW k \in Nat
    PROVE  /\ TopK(list, k) \in Seq(S) /\ Len(TopK(list, k)) = Cut(Len(list), k)
           /\ Cut(Len(list), k) \in Nat /\ Cut(Len(list), k) <= Len(list) /\ Cut(Len(list), k) <= k
           /\ \A i \in 1..Cut(Len(list), k) : TopK(list, k)[i] = list[i]
<1> DEFINE n == Cut(Len(list), k)
<1>1. n \in Nat /\ n <= Len(list) /\ n <= k
  BY DEF Cut
<1>2. TopK(list, k) = SubSeq(list, 1, n)
  BY DEF TopK, Cut
<1> HIDE DEF n
<1>3. \A i \in 1..n : list[i] \in S
  BY <1>1
<1>4. /\ SubSeq(list, 1, n) \in Seq(S) /\ Len(SubSeq(list, 1, n)) = n
      /\ \A i \in 1..n : SubSeq(list, 1, n)[i] = list[i]
  BY <1>1, <1>3, SubSeqProperties
<1>. QED
  BY <1>1, <1>2, <1>4 DEF n

\* The rank of a hit is a place where it is.
LEMMA RankIsPlace ==
    ASSUME NEW list, NEW d \in Range(list)
    PROVE  Rank(list, d) \in DOMAIN list /\ list[Rank(list, d)] = d
  BY DEF Range, Rank

Distinct(list) == \A i, j \in DOMAIN list : list[i] = list[j] => i = j

\* A cut list without repetition has none.
LEMMA TopDistinct ==
    ASSUME NEW S, NEW list \in Seq(S), NEW k \in Nat, Distinct(list)
    PROVE  Distinct(TopK(list, k))
<1>1. /\ TopK(list, k) \in Seq(S) /\ Len(TopK(list, k)) = Cut(Len(list), k)
      /\ Cut(Len(list), k) \in Nat /\ Cut(Len(list), k) <= Len(list)
      /\ \A i \in 1..Cut(Len(list), k) : TopK(list, k)[i] = list[i]
  BY TopKeeps
<1>2. /\ DOMAIN TopK(list, k) = 1..Cut(Len(list), k) /\ DOMAIN list = 1..Len(list)
      /\ 1..Cut(Len(list), k) \subseteq 1..Len(list)
  BY <1>1
<1>. QED
  BY <1>1, <1>2 DEF Distinct

\* A strict order has each member once in its listing.
LEMMA ListingIsList ==
    ASSUME NEW S, IsFiniteSet(S), NEW R, StrictOrder(R, S)
    PROVE  /\ Listing(S, R) \in Seq(S) /\ Len(Listing(S, R)) = Cardinality(S)
           /\ Distinct(Listing(S, R))
<1>1. Cardinality(S) \in Nat /\ Listing(S, R) \in [1..Cardinality(S) -> S]
  BY ListingOrders, FS_CardinalityType
<1>2. ASSUME NEW i \in 1..Cardinality(S), NEW j \in 1..Cardinality(S),
             Listing(S, R)[i] = Listing(S, R)[j], i # j
      PROVE  FALSE
  <2>1. Listing(S, R)[i] \in S
    BY <1>1
  <2>2. \/ <<Listing(S, R)[i], Listing(S, R)[j]>> \in R
        \/ <<Listing(S, R)[j], Listing(S, R)[i]>> \in R
    BY <1>1, <1>2, ListingOrders
  <2>. QED
    BY <1>2, <2>1, <2>2 DEF StrictOrder
<1>3. Distinct(Listing(S, R))
  BY <1>1, <1>2 DEF Distinct
<1> DEFINE list == Listing(S, R)
           n == Cardinality(S)
<1>4. list \in [1..n -> S] /\ n \in Nat
  BY <1>1
<1> HIDE DEF list, n
<1>5. list \in Seq(S) /\ Len(list) = n
  BY <1>4
<1>. QED
  BY <1>3, <1>5 DEF list, n

\* A statement returns visible documents, each once, and no more than its limit.
LEMMA RetrieveReturns ==
    ASSUME NEW S, IsFiniteSet(S), NEW order \in Seq(S), NEW visible, NEW limit \in Nat
    PROVE  LET list == Retrieve(order, visible, limit) IN
           /\ list \in Seq(S) /\ Len(list) <= limit /\ Len(list) <= Cardinality(S)
           /\ Distinct(list)
<1> DEFINE hits == Range(order) \cap visible
           R == {p \in hits \X hits : Rank(order, p[1]) < Rank(order, p[2])}
           all == Listing(hits, R)
<1>1. hits \in SUBSET S
  BY DEF Range
<1>2. \A d \in hits : Rank(order, d) \in Nat /\ order[Rank(order, d)] = d
  BY RankIsPlace
<1>3. StrictOrder(R, hits)
  <2>1. \A a, b \in hits : <<a, b>> \in R <=> Rank(order, a) < Rank(order, b)
    OBVIOUS
  <2> HIDE DEF R, hits
  <2>2. \A a, b \in hits : a # b => Rank(order, a) # Rank(order, b)
    BY <1>2
  <2>. QED
    BY <1>2, <2>1, <2>2 DEF StrictOrder
<1>4. Retrieve(order, visible, limit) = TopK(all, limit)
  BY DEF Retrieve
<1> HIDE DEF R, hits
<1>5. /\ IsFiniteSet(hits) /\ Cardinality(hits) \in Nat /\ Cardinality(S) \in Nat
      /\ Cardinality(hits) <= Cardinality(S)
  BY <1>1, FS_Subset, FS_CardinalityType
<1>6. all \in Seq(hits) /\ Len(all) = Cardinality(hits) /\ Distinct(all)
  BY <1>3, <1>5, ListingIsList
<1> HIDE DEF all
<1>7. all \in Seq(S)
  BY <1>1, <1>6
<1>8. /\ TopK(all, limit) \in Seq(S) /\ Len(TopK(all, limit)) <= limit
      /\ Len(TopK(all, limit)) <= Len(all)
  BY <1>7, TopKeeps
<1>9. Distinct(TopK(all, limit))
  BY <1>6, <1>7, TopDistinct
<1>. QED
  BY <1>4, <1>5, <1>6, <1>8, <1>9

\* d goes before e in an answer sorted by score.
Outranks(score, first, second, d, e) ==
    \/ score[d] > score[e]
    \/ score[d] = score[e] /\ Position(first, second, d) < Position(first, second, e)

Found(first, second) == Range(first) \cup Range(second)

\* A list has finitely many members, all of its kind.
LEMMA ListHolds ==
    ASSUME NEW S, NEW list \in Seq(S)
    PROVE  Range(list) \in SUBSET S /\ IsFiniteSet(Range(list))
<1>1. IsFiniteSet(1..Len(list)) /\ DOMAIN list = 1..Len(list)
  BY FS_Interval
<1>2. list \in Surjection(1..Len(list), Range(list))
  BY <1>1 DEF Surjection, Range
<1>3. IsFiniteSet(Range(list))
  BY <1>1, <1>2, FS_Surjection
<1>. QED
  BY <1>1, <1>3 DEF Range

\* A sort returns what was found, each once, and by score.
LEMMA SortReturns ==
    ASSUME NEW S, NEW first \in Seq(S), NEW second \in Seq(S), NEW score,
           \A d \in Found(first, second) : score[d] \in Int
    PROVE  LET n == Cardinality(Found(first, second))
               list == SortedBy(score, first, second)
           IN  /\ list \in Seq(Found(first, second)) /\ list \in Seq(S)
               /\ n \in Nat /\ Len(list) = n /\ Distinct(list)
               /\ \A d \in Found(first, second) : \E i \in 1..n : list[i] = d
               /\ \A i, j \in 1..n : i < j <=> Outranks(score, first, second, list[i], list[j])
<1> DEFINE F == Found(first, second)
           R == {p \in F \X F : Outranks(score, first, second, p[1], p[2])}
           At(d) == Position(first, second, d)
           list == Listing(F, R)
<1>1. /\ DOMAIN first = 1..Len(first) /\ Len(first) \in Nat
      /\ DOMAIN second = 1..Len(second) /\ Len(second) \in Nat
  OBVIOUS
<1>2. F \in SUBSET S /\ IsFiniteSet(F) /\ Cardinality(F) \in Nat
  BY ListHolds, FS_Union, FS_CardinalityType DEF Found
<1>3. ASSUME NEW c \in Range(first)
      PROVE  At(c) \in 1..Len(first) /\ first[At(c)] = c
  BY <1>1, <1>3, RankIsPlace DEF Position
<1>4. ASSUME NEW c \in F, c \notin Range(first)
      PROVE  /\ At(c) - Len(first) \in 1..Len(second) /\ second[At(c) - Len(first)] = c
             /\ At(c) \in Nat /\ At(c) > Len(first)
  <2>1. /\ Rank(second, c) \in 1..Len(second) /\ second[Rank(second, c)] = c
        /\ At(c) = Len(first) + Rank(second, c)
    BY <1>1, <1>4, RankIsPlace DEF Position, Found
  <2>2. At(c) - Len(first) = Rank(second, c) /\ At(c) > Len(first) /\ At(c) \in Nat
    BY <1>1, <2>1
  <2>. QED
    BY <2>1, <2>2
<1>5. \A d \in F : At(d) \in Nat
  BY <1>1, <1>3, <1>4
<1>6. \A d, e \in F : At(d) = At(e) => d = e
  <2> SUFFICES ASSUME NEW d \in F, NEW e \in F, At(d) = At(e) PROVE d = e
    OBVIOUS
  <2>1. CASE d \in Range(first) /\ e \in Range(first)
    BY <1>3, <2>1
  <2>2. CASE d \notin Range(first) /\ e \notin Range(first)
    BY <1>4, <2>2
  <2>3. CASE d \in Range(first) <=> e \notin Range(first)
    BY <1>1, <1>3, <1>4, <2>3
  <2>. QED
    BY <2>1, <2>2, <2>3
<1>7. SortedBy(score, first, second) = list
  BY DEF SortedBy, Outranks, Found
<1>8. \A a, b \in F : <<a, b>> \in R <=> Outranks(score, first, second, a, b)
  OBVIOUS
<1> HIDE DEF F, R, At
<1>9. StrictOrder(R, F)
  <2>1. \A d \in F : score[d] \in Int
    BY DEF F
  <2>. QED
    BY <1>5, <1>6, <1>8, <2>1 DEF StrictOrder, Outranks, At
<1>10. /\ list \in Seq(F) /\ Len(list) = Cardinality(F) /\ Distinct(list)
       /\ \A i \in 1..Cardinality(F) : list[i] \in F
  BY <1>2, <1>9, ListingIsList
<1>11. /\ \A d \in F : \E i \in 1..Cardinality(F) : list[i] = d
       /\ \A i, j \in 1..Cardinality(F) : i < j <=> <<list[i], list[j]>> \in R
  BY <1>2, <1>9, ListingOrders
<1> HIDE DEF list
<1>12. \A i, j \in 1..Cardinality(F) :
           i < j <=> Outranks(score, first, second, list[i], list[j])
  BY <1>8, <1>10, <1>11
<1>13. list \in Seq(S)
  BY <1>2, <1>10
<1>. QED
  BY <1>2, <1>7, <1>10, <1>11, <1>12, <1>13 DEF F

\* The cut of a sorted answer is the beginning of it.
CutKeeps(S, score, first, second, k) ==
    LET list == SortedBy(score, first, second)
        n == Cardinality(Found(first, second))
        top == TopK(list, k)
    IN  /\ top \in Seq(S) /\ Len(top) <= k /\ Distinct(top)
        /\ n \in Nat /\ Cut(n, k) \in Nat /\ Cut(n, k) <= n
        /\ n > 0 /\ k > 0 => Cut(n, k) > 0
        /\ DOMAIN top = 1..Cut(n, k)
        /\ \A i \in 1..Cut(n, k) : top[i] = list[i]

\* What the cut of a sorted answer keeps.
LEMMA CutOfSort ==
    ASSUME NEW S, NEW first \in Seq(S), NEW second \in Seq(S), NEW score,
           \A d \in Found(first, second) : score[d] \in Int, NEW k \in Nat
    PROVE  CutKeeps(S, score, first, second, k)
<1> DEFINE n == Cardinality(Found(first, second))
           list == SortedBy(score, first, second)
<1>1. n \in Nat /\ list \in Seq(S) /\ Len(list) = n /\ Distinct(list)
  BY SortReturns
<1> HIDE DEF n, list
<1>2. n > 0 /\ k > 0 => Cut(n, k) > 0
  BY <1>1 DEF Cut
<1>3. /\ TopK(list, k) \in Seq(S) /\ Len(TopK(list, k)) = Cut(n, k)
      /\ Cut(n, k) \in Nat /\ Cut(n, k) <= n /\ Cut(n, k) <= k
      /\ \A i \in 1..Cut(n, k) : TopK(list, k)[i] = list[i]
  BY <1>1, TopKeeps
<1>4. Distinct(TopK(list, k))
  BY <1>1, TopDistinct
<1>. QED
  BY <1>1, <1>2, <1>3, <1>4 DEF CutKeeps, n, list

\* A fused score is a natural number.
LEMMA FusedType ==
    ASSUME RrfK \in Nat, HybridPool \in Nat,
           NEW S, NEW first \in Seq(S), NEW second \in Seq(S), NEW d
    PROVE  /\ Weight(first, d) \in Nat /\ Weight(second, d) \in Nat
           /\ FusedScore(first, second, d) \in Nat
<1>1. ASSUME NEW list \in Seq(S) PROVE Weight(list, d) \in Nat
  <2>1. CASE d \in Range(list)
    <3>1. Rank(list, d) \in Nat \ {0}
      BY <2>1, RankIsPlace
    <3>2. Denominator \in Nat
      BY DenominatorType
    <3>3. RrfK + Rank(list, d) \in Nat \ {0}
      BY <3>1
    <3>. QED
      BY <2>1, <3>2, <3>3, SMTT(30) DEF Weight
  <2>2. CASE d \notin Range(list)
    BY <2>2 DEF Weight
  <2>. QED
    BY <2>1, <2>2
<1>. QED
  BY <1>1 DEF FusedScore

\* Each mode answers with at most k hits, each once.
LEMMA DispatchReturns ==
    ASSUME NEW S, NEW query, \A d \in S : Relevance[query][d] \in Int,
           RrfK \in Nat, HybridPool \in Nat, NEW k \in Nat, NEW m \in Modes,
           NEW bm25 \in Seq(S), NEW semantic \in Seq(S),
           m = "keyword" => Len(bm25) <= k /\ Distinct(bm25),
           m = "semantic" => Len(semantic) <= k /\ Distinct(semantic)
    PROVE  LET list == Dispatch(query, m, k, bm25, semantic) IN
           list \in Seq(S) /\ Len(list) <= k /\ Distinct(list)
<1> DEFINE Good(list) == list \in Seq(S) /\ Len(list) <= k /\ Distinct(list)
<1>1. Good(HybridSearch(k, bm25, semantic))
  <2>1. \A d \in Found(bm25, semantic) : Fused(bm25, semantic)[d] \in Int
    BY FusedType DEF Fused, Found
  <2>. QED
    BY <2>1, CutOfSort DEF CutKeeps, HybridSearch
<1>2. Good(RerankSearch(query, k, bm25, semantic))
  <2>1. \A d \in Found(semantic, bm25) : Relevance[query][d] \in Int
    BY ListHolds DEF Found
  <2>. QED
    BY <2>1, CutOfSort DEF CutKeeps, RerankSearch
<1>3. (m = "keyword" => Good(bm25)) /\ (m = "semantic" => Good(semantic))
  OBVIOUS
<1>4. Good(Dispatch(query, m, k, bm25, semantic))
  <2> HIDE DEF Good
  <2>. QED
    BY <1>1, <1>2, <1>3 DEF Dispatch, Modes
<1>. QED
  BY <1>4

\* A quotient does not grow with its divisor.
LEMMA QuotientFalls ==
    ASSUME NEW n \in Nat, NEW a \in Nat \ {0}, NEW b \in Nat \ {0}, a <= b
    PROVE  n \div b <= n \div a
<1> DEFINE p == n \div a
           q == n \div b
<1>1. p \in Nat /\ q \in Nat /\ n < a * (p + 1) /\ b * q <= n
  OBVIOUS
<1> HIDE DEF p, q
<1>2. a * q <= b * q
  BY <1>1
<1>3. a * q < a * (p + 1)
  BY <1>1, <1>2
<1>4. q < p + 1
  BY <1>1, <1>3
<1>. QED
  BY <1>1, <1>4 DEF p, q
=============================================================================
