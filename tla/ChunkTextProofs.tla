-------------------------- MODULE ChunkTextProofs --------------------------
(* The packing loop, the hard split and chunk_text as a whole keep the        *)
(* budgets and lose nothing, for texts, sentences, budgets and tokenizers of  *)
(* any size.                                                                  *)
EXTENDS ChunkText, FiniteSetTheorems, WellFoundedInduction, TLAPS

(***************************************************************************)
(* The packing loop.                                                       *)
(***************************************************************************)

\* A non-empty set of numbers has a smallest member.
LEMMA SmallestExists ==
    ASSUME NEW S \in SUBSET Nat, S # {}
    PROVE  Smallest(S) \in S /\ \A j \in S : Smallest(S) <= j
<1> DEFINE R == {ss \in Nat \X Nat : ss[1] < ss[2]}
<1>1. IsWellFoundedOn(R, Nat)
  BY NatLessThanWellFounded DEF OpToRel
<1> HIDE DEF R
<1>2. PICK i \in S : \A j \in S : ~(<<j, i>> \in R)
  BY <1>1, WFMin
<1>3. \A j \in S : i <= j
  <2>1. TAKE j \in S
  <2>2. <<j, i>> \in Nat \X Nat /\ <<j, i>> \notin R
    BY <1>2
  <2>. QED
    BY <2>2 DEF R
<1>. QED
  BY <1>3 DEF Smallest

\* What cur holds, and what the chunks before it hold.
Current ==
    /\ pos > 0 => first <= pos /\ tokens[first][pos] <= MaxTokens
    /\ pos = 0 => first = 1

\* The last chunk ends before the last unit taken, and shares with cur what the
\* overlap budget allows.
LastChunk ==
    LET c == Len(chunks) IN
    IF c = 0 THEN first = 1
    ELSE /\ chunks[c].to < pos /\ chunks[c].from < first
         /\ first <= chunks[c].to + 1
         /\ first <= chunks[c].to => tokens[first][chunks[c].to] <= OverlapTokens

\* Every unit taken is in a chunk or in cur.
Covered ==
    \A i \in 1..pos : first <= i \/ \E c \in DOMAIN chunks :
                                        chunks[c].from <= i /\ i <= chunks[c].to

ChunkInv == /\ TypeOK /\ tokens \in Tokenizers
            /\ (finished => pos = Units) /\ (pos = 0 => chunks = <<>>)
            /\ Current /\ Covered /\ (~finished => LastChunk)
            /\ ChunksFit /\ OverlapFits /\ ChunksAdvance /\ NothingIsLost

\* The types, one by one.
LEMMA Types ==
    ASSUME ChunkInv
    PROVE  /\ Units \in Nat /\ MaxTokens \in Nat /\ OverlapTokens \in Nat
           /\ pos \in Nat /\ pos <= Units /\ first \in Nat /\ first >= 1
           /\ Index = 1..Units
           /\ \A i, j \in 1..Units : tokens[i][j] \in Nat
           /\ \A i \in 1..Units : tokens[i][i] <= MaxTokens
           /\ chunks \in Seq(Span) /\ Len(chunks) \in Nat /\ DOMAIN chunks = 1..Len(chunks)
           /\ \A c \in 1..Len(chunks) :
                 /\ chunks[c] \in Span /\ chunks[c].from \in Nat /\ chunks[c].to \in Nat
                 /\ chunks[c].from \in 1..Units /\ chunks[c].to \in 1..Units
<1> USE ConstantsAssumption DEF ChunkInv, TypeOK, Index
<1>1. chunks \in Seq(Span) /\ Len(chunks) \in Nat /\ DOMAIN chunks = 1..Len(chunks)
  OBVIOUS
<1>2. \A c \in 1..Len(chunks) : chunks[c] \in Span
  BY <1>1
<1>3. \A sp \in Span : sp.from \in 1..Units /\ sp.to \in 1..Units
  BY DEF Span
<1>4. Units \in Nat /\ MaxTokens \in Nat /\ OverlapTokens \in Nat
  OBVIOUS
<1>5. \A i, j \in 1..Units : tokens[i][j] \in Nat
  OBVIOUS
<1>6. \A i \in 1..Units : tokens[i][i] <= MaxTokens
  OBVIOUS
<1>7. pos \in Nat /\ pos <= Units /\ first \in Nat /\ first >= 1
  BY <1>4
<1>. QED
  BY <1>1, <1>2, <1>3, <1>4, <1>5, <1>6, <1>7

\* The loop of chunk_text starts with the invariant.
LEMMA ChunkInit == Init => ChunkInv
<1> SUFFICES ASSUME Init PROVE ChunkInv
  OBVIOUS
<1> USE ConstantsAssumption DEF Init
<1>1. TypeOK
  <2>1. tokens \in [Index -> [Index -> Nat]]
    OBVIOUS
  <2>2. pos \in 0..Units /\ first \in 1..(Units + 1)
    OBVIOUS
  <2>3. chunks \in Seq(Span)
    OBVIOUS
  <2>4. finished \in BOOLEAN
    OBVIOUS
  <2>5. pos > 0 => first <= pos
    BY SMT
  <2> HIDE ConstantsAssumption DEF Init
  <2>. QED
    BY <2>1, <2>2, <2>3, <2>4, <2>5 DEF TypeOK
<1>2. /\ Current /\ Covered /\ LastChunk /\ ChunksFit /\ OverlapFits /\ ChunksAdvance
      /\ NothingIsLost
  BY DEF Current, Covered, LastChunk, ChunksFit, OverlapFits, ChunksAdvance, NothingIsLost
<1>. QED
  BY <1>1, <1>2 DEF ChunkInv

\* Where the next chunk starts: somewhere after the start of this one, with an
\* overlap within its budget and room for the next unit.
LEMMA NewFirstStep ==
    ASSUME ChunkInv, pos < Units, Overflow
    PROVE  /\ NewFirst \in (first + 1)..(pos + 1)
           /\ NewFirst <= pos => /\ tokens[NewFirst][pos] <= OverlapTokens
                                 /\ tokens[NewFirst][pos + 1] <= MaxTokens
<1> DEFINE start == OverlapStart
<1>0. /\ Units \in Nat /\ MaxTokens \in Nat /\ pos \in Nat /\ first \in Nat
      /\ 1 <= first /\ first <= pos /\ pos + 1 \in 1..Units
      /\ \A i, j \in 1..Units : tokens[i][j] \in Nat
      /\ tokens[first][pos + 1] > MaxTokens
  BY Types DEF Overflow
<1>1. OverlapStarts \in SUBSET Nat /\ pos + 1 \in OverlapStarts
  BY <1>0 DEF OverlapStarts
<1>2. start \in OverlapStarts
  BY <1>1, SmallestExists DEF OverlapStart
<1>3. start \in first..(pos + 1) /\ \A j \in start..pos : tokens[j][pos] <= OverlapTokens
  BY <1>2 DEF OverlapStarts
<1> HIDE DEF start
<1>4. RoomyStarts(start) \in SUBSET Nat /\ pos + 1 \in RoomyStarts(start)
  BY <1>0, <1>3 DEF RoomyStarts
<1>5. NewFirst \in RoomyStarts(start)
  BY <1>4, SmallestExists DEF NewFirst, Shrunk, start
<1>6. /\ NewFirst \in start..(pos + 1)
      /\ NewFirst <= pos => tokens[NewFirst][pos + 1] <= MaxTokens
  BY <1>5 DEF RoomyStarts
<1>7. NewFirst \in Nat /\ NewFirst # first
  BY <1>0, <1>3, <1>6
<1>. QED
  BY <1>0, <1>3, <1>6, <1>7

\* The chunks after one more is appended.
LEMMA AppendStep ==
    ASSUME ChunkInv, ~finished, 0 < pos,
           chunks' = Append(chunks, [from |-> first, to |-> pos]), tokens' = tokens
    PROVE  /\ chunks' \in Seq(Span) /\ Len(chunks') = Len(chunks) + 1
           /\ DOMAIN chunks' = 1..(Len(chunks) + 1)
           /\ chunks'[Len(chunks')] = [from |-> first, to |-> pos]
           /\ ChunksFit' /\ OverlapFits' /\ ChunksAdvance'
           /\ \A i \in 1..pos : \E c \in DOMAIN chunks' :
                                    chunks'[c].from <= i /\ i <= chunks'[c].to
<1> DEFINE n == Len(chunks)  new == [from |-> first, to |-> pos]
<1>0. /\ first <= pos /\ tokens[first][pos] <= MaxTokens
      /\ new.from = first /\ new.to = pos
      /\ pos \in Nat /\ pos <= Units /\ first \in Nat /\ 1 <= first
  BY Types DEF ChunkInv, Current
<1>1. new \in Span
  BY <1>0, Types DEF Span
<1>2. n \in Nat /\ DOMAIN chunks = 1..n
  BY Types
<1>3. /\ chunks' \in Seq(Span) /\ Len(chunks') = n + 1 /\ DOMAIN chunks' = 1..(n + 1)
      /\ \A c \in 1..n : chunks'[c] = chunks[c]
      /\ chunks'[n + 1] = new
  BY <1>1, Types
<1>4. \A c \in 1..n : chunks[c].from \in Nat /\ chunks[c].to \in Nat
  BY Types
<1> HIDE DEF n, new
<1>5. n > 0 => /\ chunks[n].to < pos /\ chunks[n].from < first
               /\ first <= chunks[n].to + 1
               /\ first <= chunks[n].to => tokens[first][chunks[n].to] <= OverlapTokens
  BY <1>2 DEF ChunkInv, LastChunk, n
<1>6. ChunksFit'
  BY <1>0, <1>2, <1>3 DEF ChunkInv, ChunksFit
<1>7. OverlapFits'
  <2>1. \A c \in 1..(n + 1) : c + 1 \in 1..(n + 1) => c \in 1..n /\ (c = n \/ c + 1 \in 1..n)
    BY <1>2
  <2>. QED
    BY <1>0, <1>2, <1>3, <1>5, <2>1 DEF ChunkInv, OverlapFits
<1>8. ChunksAdvance'
  <2>1. \A c \in 1..(n + 1) : c = n + 1 \/ c \in 1..n
    BY <1>2
  <2>2. \A c \in 1..n : c + 1 \in 1..(n + 1) /\ (c = n \/ c + 1 \in 1..n)
    BY <1>2
  <2>3. n + 2 \notin 1..(n + 1)
    BY <1>2
  <2>. QED
    BY <1>0, <1>2, <1>3, <1>5, <2>1, <2>2, <2>3 DEF ChunkInv, ChunksAdvance
<1>9. ASSUME NEW i \in 1..pos
      PROVE  \E c \in DOMAIN chunks' : chunks'[c].from <= i /\ i <= chunks'[c].to
  <2>1. CASE first <= i
    <3>1. n + 1 \in DOMAIN chunks' /\ chunks'[n + 1].from <= i /\ i <= chunks'[n + 1].to
      BY <1>0, <1>2, <1>3, <2>1
    <3>. QED
      BY <3>1
  <2>2. CASE \E c \in DOMAIN chunks : chunks[c].from <= i /\ i <= chunks[c].to
    BY <1>2, <1>3, <2>2
  <2>. QED
    BY <2>1, <2>2 DEF ChunkInv, Covered
<1>. QED
  BY <1>3, <1>6, <1>7, <1>8, <1>9 DEF n, new

\* Every pass of the loop, and its final flush, keeps the invariant.
LEMMA ChunkNext == ChunkInv /\ [Next]_vars => ChunkInv'
<1> SUFFICES ASSUME ChunkInv, [Next]_vars PROVE ChunkInv'
  OBVIOUS
<1>1. CASE Take
  <2>0. /\ pos' = pos + 1 /\ first' = first /\ chunks' = chunks /\ tokens' = tokens
        /\ finished' = finished /\ pos < Units /\ ~finished /\ ~Overflow
    BY <1>1, Types DEF Take, ChunkInv
  <2>1. first <= pos + 1
    BY Types DEF ChunkInv, Current
  <2>2. tokens[first][pos + 1] <= MaxTokens
    <3>1. CASE first <= pos
      BY <2>0, <3>1, Types DEF Overflow
    <3>2. CASE first = pos + 1
      BY <2>0, <3>2, Types
    <3>. QED
      BY <2>1, <3>1, <3>2, Types
  <2>3. TypeOK' /\ Current'
    <3>1. pos + 1 \in 0..Units
      BY <2>0, Types
    <3>2. TypeOK'
      BY <2>0, <2>1, <3>1 DEF ChunkInv, TypeOK
    <3>3. Current'
      BY <2>0, <2>1, <2>2, Types DEF Current
    <3>. QED
      BY <3>2, <3>3
  <2>4. Covered'
    <3>1. \A i \in 1..(pos + 1) : i \in 1..pos \/ first <= i
      BY <2>1, Types
    <3>. QED
      BY <2>0, <3>1 DEF ChunkInv, Covered
  <2>5. LastChunk'
    BY <2>0, Types DEF ChunkInv, LastChunk
  <2>6. ChunksFit' /\ OverlapFits' /\ ChunksAdvance' /\ NothingIsLost'
    BY <2>0 DEF ChunkInv, ChunksFit, OverlapFits, ChunksAdvance, NothingIsLost
  <2>. QED
    BY <2>0, <2>3, <2>4, <2>5, <2>6, Types DEF ChunkInv
<1>2. CASE Close
  <2>0. /\ pos' = pos + 1 /\ first' = NewFirst /\ tokens' = tokens /\ finished' = finished
        /\ chunks' = Append(chunks, [from |-> first, to |-> pos])
        /\ pos < Units /\ first <= pos /\ 0 < pos /\ ~finished
    BY <1>2, Types DEF Close, Overflow, ChunkInv
  <2>1. /\ NewFirst \in (first + 1)..(pos + 1)
        /\ NewFirst <= pos => /\ tokens[NewFirst][pos] <= OverlapTokens
                              /\ tokens[NewFirst][pos + 1] <= MaxTokens
    BY <1>2, NewFirstStep DEF Close
  <2>2. /\ chunks' \in Seq(Span) /\ Len(chunks') = Len(chunks) + 1
        /\ DOMAIN chunks' = 1..(Len(chunks) + 1)
        /\ chunks'[Len(chunks')] = [from |-> first, to |-> pos]
        /\ ChunksFit' /\ OverlapFits' /\ ChunksAdvance'
        /\ \A i \in 1..pos : \E c \in DOMAIN chunks' :
                                 chunks'[c].from <= i /\ i <= chunks'[c].to
    BY <2>0, AppendStep
  <2>3. NewFirst \in Nat /\ first < NewFirst /\ NewFirst <= pos + 1
    BY <2>1, Types
  <2>4. tokens[NewFirst][pos + 1] <= MaxTokens
    BY <2>0, <2>1, <2>3, Types
  <2>5. TypeOK' /\ Current'
    <3>1. pos + 1 \in 0..Units /\ NewFirst \in 1..(Units + 1)
      BY <2>0, <2>3, Types
    <3>2. TypeOK'
      BY <2>0, <2>2, <2>3, <3>1 DEF ChunkInv, TypeOK
    <3>3. Current'
      BY <2>0, <2>3, <2>4, Types DEF Current
    <3>. QED
      BY <3>2, <3>3
  <2>6. Covered'
    <3>1. \A i \in 1..(pos + 1) : i \in 1..pos \/ NewFirst <= i
      BY <2>3, Types
    <3>. QED
      BY <2>0, <2>2, <3>1 DEF Covered
  <2>7. LastChunk'
    BY <2>0, <2>1, <2>2, <2>3, Types DEF LastChunk
  <2>. QED
    BY <2>0, <2>2, <2>5, <2>6, <2>7, Types DEF ChunkInv, NothingIsLost
<1>3. CASE Flush
  <2>0. /\ pos' = pos /\ first' = first /\ tokens' = tokens /\ finished' = TRUE
        /\ pos = Units /\ ~finished /\ chunks' = Rest
    BY <1>3 DEF Flush
  <2>1. CASE pos = 0
    <3>1. chunks' = chunks /\ chunks = <<>>
      BY <2>0, <2>1 DEF ChunkInv, Current, Rest
    <3>. QED
      BY <2>0, <2>1, <3>1, Types DEF ChunkInv, TypeOK, Current, Covered, ChunksFit,
         OverlapFits, ChunksAdvance, NothingIsLost
  <2>2. CASE pos > 0
    <3>1. chunks' = Append(chunks, [from |-> first, to |-> pos])
      BY <2>0, <2>2 DEF Rest, ChunkInv, Current
    <3>2. /\ chunks' \in Seq(Span)
          /\ ChunksFit' /\ OverlapFits' /\ ChunksAdvance'
          /\ \A i \in 1..pos : \E c \in DOMAIN chunks' :
                                   chunks'[c].from <= i /\ i <= chunks'[c].to
      BY <2>0, <2>2, <3>1, AppendStep
    <3>3. TypeOK' /\ Current'
      BY <2>0, <2>2, <3>2 DEF ChunkInv, TypeOK, Current
    <3>4. Covered' /\ NothingIsLost'
      BY <2>0, <3>2, Types DEF Covered, NothingIsLost
    <3>. QED
      BY <2>0, <2>2, <3>2, <3>3, <3>4 DEF ChunkInv
  <2>. QED
    BY <2>1, <2>2, Types
<1>4. CASE UNCHANGED vars
  BY <1>4 DEF vars, ChunkInv, TypeOK, Current, Covered, LastChunk, ChunksFit,
     OverlapFits, ChunksAdvance, NothingIsLost
<1>. QED
  BY <1>1, <1>2, <1>3, <1>4 DEF Next

\* The overlap takes in every run that ends where the chunk ends and fits.
LEMMA OverlapTakesFitting ==
    ASSUME ChunkInv, Monotone, pos < Units, Overflow,
           NEW i \in first..pos, tokens[i][pos + 1] <= OverlapTokens
    PROVE  NewFirst <= i
<1>0. /\ Units \in Nat /\ MaxTokens \in Nat /\ OverlapTokens \in Nat /\ pos \in Nat /\ first \in Nat
      /\ 1 <= first /\ first <= pos /\ i \in 1..Units /\ pos + 1 \in 1..Units /\ Index = 1..Units
      /\ \A a, b \in 1..Units : tokens[a][b] \in Nat
  BY Types DEF Overflow
<1>1. \A j \in i..pos : tokens[j][pos] <= OverlapTokens
  <2>1. TAKE j \in i..pos
  <2>2. tokens[j][pos] <= tokens[i][pos + 1]
    BY <1>0 DEF Monotone
  <2>3. tokens[j][pos] \in Nat /\ tokens[i][pos + 1] \in Nat
    BY <1>0
  <2>. QED
    BY <1>0, <2>2, <2>3
<1>2. i \in OverlapStarts
  BY <1>0, <1>1 DEF OverlapStarts
<1>3. OverlapStarts \in SUBSET Nat
  BY <1>0 DEF OverlapStarts
<1>4. OverlapStart \in Nat /\ OverlapStart <= i
  BY <1>2, <1>3, SmallestExists DEF OverlapStart
<1>5. OverlapTokens < MaxTokens
  BY ConstantsAssumption
<1>6. tokens[i][pos + 1] \in Nat
  BY <1>0
<1>7. i \in RoomyStarts(OverlapStart)
  BY <1>0, <1>4, <1>5, <1>6 DEF RoomyStarts
<1>8. RoomyStarts(OverlapStart) \in SUBSET Nat
  BY <1>0, <1>4 DEF RoomyStarts
<1>. QED
  BY <1>7, <1>8, SmallestExists DEF NewFirst, Shrunk

\* Every run that fits into the overlap is whole in cur while it ends there, and
\* whole in cur or in a chunk ever after.
FactInv ==
    /\ ChunkInv
    /\ Monotone => \A i \in 1..pos : tokens[i][pos] <= OverlapTokens => first <= i
    /\ FactsSurvive

LEMMA FactNext == FactInv /\ [Next]_vars => FactInv'
<1> SUFFICES ASSUME FactInv, [Next]_vars PROVE FactInv'
  OBVIOUS
<1>0. ChunkInv /\ ChunkInv' /\ tokens' = tokens /\ (Monotone' <=> Monotone)
  BY ChunkNext DEF FactInv, Next, Take, Close, Flush, vars, Monotone
<1>1. /\ Units \in Nat /\ OverlapTokens \in Nat /\ pos \in Nat /\ pos <= Units /\ first \in Nat /\ 1 <= first
      /\ Len(chunks) \in Nat /\ DOMAIN chunks = 1..Len(chunks) /\ Index = 1..Units
      /\ \A a, b \in 1..Units : tokens[a][b] \in Nat
  BY <1>0, Types
<1> SUFFICES ASSUME Monotone
             PROVE  /\ \A i \in 1..pos' : tokens[i][pos'] <= OverlapTokens => first' <= i
                    /\ \A i \in 1..pos', j \in 1..pos' :
                          i <= j /\ tokens[i][j] <= OverlapTokens
                          => first' <= i \/ \E c \in DOMAIN chunks' : chunks'[c].from <= i /\ j <= chunks'[c].to
  BY <1>0 DEF FactInv, FactsSurvive
<1>2. /\ \A i \in 1..pos : tokens[i][pos] <= OverlapTokens => first <= i
      /\ \A i \in 1..pos, j \in 1..pos :
            i <= j /\ tokens[i][j] <= OverlapTokens
            => first <= i \/ \E c \in DOMAIN chunks : chunks[c].from <= i /\ j <= chunks[c].to
  BY DEF FactInv, FactsSurvive
<1>3. ASSUME pos < Units, NEW i \in 1..pos, tokens[i][pos + 1] <= OverlapTokens
      PROVE  first <= i
  <2>1. i \in Index /\ pos + 1 \in Index /\ pos \in 1..Units /\ i \in 1..Units
    BY <1>1, <1>3
  <2>2. tokens[i][pos] <= tokens[i][pos + 1]
    BY <1>1, <2>1 DEF Monotone
  <2>3. tokens[i][pos] \in Nat /\ tokens[i][pos + 1] \in Nat
    BY <1>1, <2>1
  <2>. QED
    BY <1>1, <1>2, <1>3, <2>2, <2>3
<1>4. CASE Take
  <2>0. pos' = pos + 1 /\ first' = first /\ chunks' = chunks /\ pos < Units
    BY <1>4 DEF Take
  <2>1. pos' = pos + 1 /\ first' = first /\ chunks' = chunks /\ pos < Units /\ first <= pos + 1
    <3>1. (pos > 0 => first <= pos) /\ (pos = 0 => first = 1)
      BY <1>0 DEF ChunkInv, Current
    <3>. QED
      BY <1>1, <2>0, <3>1
  <2>2. \A i \in 1..(pos + 1) : tokens[i][pos + 1] <= OverlapTokens => first <= i
    BY <1>1, <1>3, <2>1
  <2>3. ASSUME NEW i \in 1..(pos + 1), NEW j \in 1..(pos + 1), i <= j, tokens[i][j] <= OverlapTokens
        PROVE  first <= i \/ \E c \in DOMAIN chunks : chunks[c].from <= i /\ j <= chunks[c].to
    <3>1. CASE j = pos + 1
      BY <2>2, <2>3, <3>1
    <3>2. CASE j \in 1..pos
      <4>1. i \in 1..pos
        BY <1>1, <2>3, <3>2
      <4>. QED
        BY <1>2, <2>3, <3>2, <4>1
    <3>. QED
      BY <1>1, <3>1, <3>2
  <2>. QED
    BY <2>1, <2>2, <2>3
<1>5. CASE Close
  <2>1. /\ pos' = pos + 1 /\ first' = NewFirst /\ pos < Units /\ Overflow /\ first <= pos
        /\ chunks' = Append(chunks, [from |-> first, to |-> pos])
    BY <1>5 DEF Close, Overflow
  <2>2. NewFirst \in Nat /\ NewFirst <= pos + 1
    BY <1>0, <1>1, <2>1, NewFirstStep
  <2>3. \A i \in 1..(pos + 1) : tokens[i][pos + 1] <= OverlapTokens => NewFirst <= i
    <3>1. SUFFICES ASSUME NEW i \in 1..(pos + 1), tokens[i][pos + 1] <= OverlapTokens
                   PROVE  NewFirst <= i
      OBVIOUS
    <3>2. CASE i = pos + 1
      BY <2>2, <3>2
    <3>3. CASE i \in 1..pos
      BY <1>0, <1>1, <1>3, <2>1, <3>1, <3>3, OverlapTakesFitting
    <3>. QED
      BY <1>1, <3>2, <3>3
  <2>4. /\ DOMAIN chunks' = 1..(Len(chunks) + 1)
        /\ \A c \in DOMAIN chunks : c \in DOMAIN chunks' /\ chunks'[c] = chunks[c]
        /\ chunks'[Len(chunks) + 1].from = first /\ chunks'[Len(chunks) + 1].to = pos
    <3>1. chunks \in Seq(Span) /\ [from |-> first, to |-> pos] \in Span
      BY <1>0, <1>1, <2>1, Types DEF Span
    <3>. QED
      BY <1>1, <2>1, <3>1
  <2>5. ASSUME NEW i \in 1..(pos + 1), NEW j \in 1..(pos + 1), i <= j, tokens[i][j] <= OverlapTokens
        PROVE  NewFirst <= i \/ \E c \in DOMAIN chunks' : chunks'[c].from <= i /\ j <= chunks'[c].to
    <3>1. CASE j = pos + 1
      BY <2>3, <2>5, <3>1
    <3>2. CASE j \in 1..pos
      <4>1. i \in 1..pos
        BY <1>1, <2>5, <3>2
      <4>2. CASE first <= i
        <5>1. Len(chunks) + 1 \in DOMAIN chunks'
          BY <1>1, <2>4
        <5>. QED
          BY <1>1, <2>4, <3>2, <4>2, <5>1
      <4>3. CASE \E c \in DOMAIN chunks : chunks[c].from <= i /\ j <= chunks[c].to
        BY <2>4, <4>3
      <4>. QED
        BY <1>2, <2>5, <3>2, <4>1, <4>2, <4>3
    <3>. QED
      BY <1>1, <3>1, <3>2
  <2>. QED
    BY <2>1, <2>3, <2>5
<1>6. CASE Flush
  <2>1. pos' = pos /\ first' = first /\ chunks' = Rest
    BY <1>6 DEF Flush
  <2>2. \A c \in DOMAIN chunks : c \in DOMAIN chunks' /\ chunks'[c] = chunks[c]
    <3>1. CASE first <= pos
      <4>1. chunks \in Seq(Span) /\ [from |-> first, to |-> pos] \in Span
        BY <1>0, <1>1, <3>1, Types DEF Span
      <4>. QED
        BY <1>1, <2>1, <3>1, <4>1 DEF Rest
    <3>2. CASE ~(first <= pos)
      BY <2>1, <3>2 DEF Rest
    <3>. QED
      BY <3>1, <3>2
  <2>. QED
    BY <1>2, <2>1, <2>2
<1>7. CASE UNCHANGED vars
  BY <1>2, <1>7 DEF vars
<1>. QED
  BY <1>4, <1>5, <1>6, <1>7 DEF Next

\* The packing loop of chunk_text keeps the inductive invariant, for every text,
\* tokenizer and pair of budgets.
THEOREM ChunkInvariant == Spec => []ChunkInv
  BY ChunkInit, ChunkNext, PTL DEF Spec

\* chunk_text never exceeds max_tokens, whatever the tokenizer makes of joined
\* units, as long as each unit alone fits.
THEOREM ChunkBudget == Spec => []ChunksFit
<1>1. ChunkInv => ChunksFit
  BY DEF ChunkInv
<1>. QED
  BY <1>1, ChunkInvariant, PTL

\* The overlap of two chunks stays within overlap_tokens.
THEOREM OverlapBudget == Spec => []OverlapFits
<1>1. ChunkInv => OverlapFits
  BY DEF ChunkInv
<1>. QED
  BY <1>1, ChunkInvariant, PTL

\* The chunks advance through the text without a gap.
THEOREM ChunkOrder == Spec => []ChunksAdvance
<1>1. ChunkInv => ChunksAdvance
  BY DEF ChunkInv
<1>. QED
  BY <1>1, ChunkInvariant, PTL

\* chunk_text loses no unit of the text.
THEOREM ChunkCoverage == Spec => []NothingIsLost
<1>1. ChunkInv => NothingIsLost
  BY DEF ChunkInv
<1>. QED
  BY <1>1, ChunkInvariant, PTL

\* What fits into the overlap is never split by chunk_text, for every text and every
\* tokenizer that counts no more tokens in a part than in the whole.
THEOREM FactsAreWhole == Spec => []FactsSurvive
<1>1. Init => FactInv
  BY ChunkInit DEF FactInv, FactsSurvive, Init
<1>2. FactInv => FactsSurvive
  BY DEF FactInv
<1>. QED
  BY <1>1, <1>2, FactNext, PTL DEF Spec

(***************************************************************************)
(* The hard split.                                                         *)
(***************************************************************************)

LastEnd == ends[Len(ends)]

\* Tokens, cursor and pieces while _hard_split runs.
SplitTypes ==
    /\ outcome \in {"running", "done", "raised"}
    /\ count \in [Slices -> Nat]
    /\ ends \in Seq(1..Length) /\ Len(ends) > PieceTokens
    /\ cursor \in 0..Length /\ index \in Nat
    /\ pieces \in Seq(Slices)

\* Once no token is left, what follows the cursor has none.
RestIsEmpty ==
    /\ \A s \in Slices : LastEnd <= s[1] => count[s] = 0
    /\ index >= Len(ends) => LastEnd <= cursor

\* The pieces are in order, and hold what is before the cursor.
Behind ==
    /\ \A p \in DOMAIN pieces : p + 1 \in DOMAIN pieces => pieces[p][2] <= pieces[p + 1][1]
    /\ outcome # "done" =>
          /\ pieces # <<>> => pieces[Len(pieces)][2] <= cursor
          /\ \A i \in (1..cursor) \ Blank :
                \E p \in DOMAIN pieces : pieces[p][1] < i /\ i <= pieces[p][2]

SplitInv == SplitTypes /\ RestIsEmpty /\ PiecesFit /\ Behind /\ TextIsKept

\* What the cut is: the last place up to which the slice fits, or a place where
\* the loop gets no further.
LEMMA CutFits ==
    ASSUME SplitTypes, index < Len(ends)
    PROVE  /\ Cut \in 0..Length
           /\ Cut <= cursor \/ Fits(cursor, Cut)
<1> USE SplitAssumption
<1>1. TokenEnd \in 1..Length
  <2>1. index + PieceTokens \in 1..Len(ends) \/ ~(index + PieceTokens < Len(ends))
    BY DEF SplitTypes
  <2>2. \A i \in 1..Len(ends) : ends[i] \in 1..Length
    BY DEF SplitTypes
  <2>3. Len(ends) \in 1..Len(ends)
    BY DEF SplitTypes
  <2>. QED
    BY <2>1, <2>2, <2>3 DEF TokenEnd
<1> DEFINE Ok(b) == b <= cursor \/ Fits(cursor, b)
           Distances == {t \in 0..TokenEnd : Ok(TokenEnd - t)}
           Nearest == Smallest(Distances)
<1>2. Distances \in SUBSET Nat /\ TokenEnd \in Distances
  BY <1>1 DEF SplitTypes
<1>3. Nearest \in Distances /\ \A t \in Distances : Nearest <= t
  BY <1>2, SmallestExists
<1>4. /\ TokenEnd - Nearest \in 0..TokenEnd /\ Ok(TokenEnd - Nearest)
      /\ \A c \in 0..TokenEnd : c > TokenEnd - Nearest => ~Ok(c)
  <2>1. Nearest \in Nat /\ Nearest <= TokenEnd /\ Ok(TokenEnd - Nearest)
    BY <1>1, <1>3
  <2>2. ASSUME NEW c \in 0..TokenEnd, c > TokenEnd - Nearest, Ok(c) PROVE FALSE
    <3>1. TokenEnd - c \in 0..TokenEnd /\ TokenEnd - (TokenEnd - c) = c
      BY <1>1
    <3>2. TokenEnd - c \in Distances
      BY <3>1, <2>2
    <3>. QED
      BY <1>1, <1>3, <2>1, <2>2, <3>2
  <2>. QED
    BY <1>1, <2>1, <2>2
<1>5. Cut \in 0..TokenEnd /\ Ok(Cut)
  BY <1>4 DEF Cut
<1>. QED
  BY <1>1, <1>5

\* When every token is counted as consumed, the last one ends before the cut.
LEMMA AllConsumed ==
    ASSUME SplitTypes, index < Len(ends)
    PROVE  Consumed \in Nat /\ (Consumed >= Len(ends) => LastEnd <= Cut)
<1> DEFINE N == Len(ends)
           Before == {i \in DOMAIN ends : ends[i] <= Cut}
<1>1. N \in Nat /\ N >= 1 /\ DOMAIN ends = 1..N
  BY SplitAssumption DEF SplitTypes
<1>2. IsFiniteSet(1..N) /\ Cardinality(1..N) = N
  BY <1>1, FS_Interval
<1>3. Before \in SUBSET (1..N)
  BY <1>1
<1>4. /\ IsFiniteSet(Before) /\ Cardinality(Before) <= N
      /\ Cardinality(Before) = N => Before = 1..N
  BY <1>2, <1>3, FS_Subset
<1>5. Cardinality(Before) \in Nat
  BY <1>4, FS_CardinalityType
<1>6. Consumed = Cardinality(Before)
  BY DEF Consumed
<1>7. N \in Before => LastEnd <= Cut
  BY DEF LastEnd
<1>. QED
  BY <1>1, <1>4, <1>5, <1>6, <1>7

\* A slice that is added to the pieces, or is blank.
LEMMA AddedKeeps ==
    ASSUME SplitInv, outcome = "running", NEW b \in 0..Length, cursor <= b,
           cursor < b => count[<<cursor, b>>] <= PieceTokens,
           pieces' = Added(cursor, b), UNCHANGED <<count, ends>>
    PROVE  /\ pieces' \in Seq(Slices) /\ PiecesFit'
           /\ \A p \in DOMAIN pieces' : p + 1 \in DOMAIN pieces' => pieces'[p][2] <= pieces'[p + 1][1]
           /\ pieces' # <<>> => pieces'[Len(pieces')][2] <= b
           /\ \A i \in (1..b) \ Blank : \E p \in DOMAIN pieces' : pieces'[p][1] < i /\ i <= pieces'[p][2]
<1> USE SplitAssumption
<1>0. /\ cursor \in Nat /\ b \in Nat /\ Length \in Nat /\ PieceTokens \in Nat
      /\ pieces \in Seq(Slices) /\ Len(pieces) \in Nat /\ DOMAIN pieces = 1..Len(pieces)
      /\ \A p \in 1..Len(pieces) : pieces[p] \in Slices
  BY DEF SplitInv, SplitTypes
<1>a. \A s \in Slices : s[1] \in Nat /\ s[2] \in Nat
  BY <1>0 DEF Slices
<1>1. CASE IsBlank(cursor, b)
  <2>1. pieces' = pieces
    BY <1>1 DEF Added
  <2>2. \A i \in (1..b) \ Blank : i \in (1..cursor) \ Blank
    BY <1>0, <1>1 DEF IsBlank, Inked
  <2>3. pieces # <<>> => pieces[Len(pieces)][2] \in Nat
    BY <1>0, <1>a
  <2>. QED
    BY <1>0, <2>1, <2>2, <2>3 DEF SplitInv, PiecesFit, Behind
<1>2. CASE ~IsBlank(cursor, b)
  <2> DEFINE L == Len(pieces)
             new == <<cursor, b>>
  <2>1. cursor < b
    BY <1>0, <1>2 DEF IsBlank, Inked
  <2>2. new \in Slices
    BY <1>0, <2>1 DEF Slices, SplitInv, SplitTypes
  <2>3. pieces' = Append(pieces, new)
    BY <1>2 DEF Added
  <2>4. /\ pieces' \in Seq(Slices) /\ Len(pieces') = L + 1 /\ DOMAIN pieces' = 1..(L + 1)
        /\ pieces'[L + 1] = new /\ \A p \in 1..L : pieces'[p] = pieces[p]
    BY <1>0, <2>2, <2>3
  <2>5. PiecesFit'
    <3>1. SUFFICES ASSUME NEW p \in 1..(L + 1) PROVE count[pieces'[p]] <= PieceTokens
      BY <2>4 DEF PiecesFit
    <3>2. CASE p = L + 1
      BY <2>1, <2>4, <3>2
    <3>3. CASE p \in 1..L
      BY <1>0, <2>4, <3>3 DEF SplitInv, PiecesFit
    <3>. QED
      BY <1>0, <3>2, <3>3
  <2>6. ASSUME NEW p \in 1..L PROVE pieces'[p][2] <= pieces'[p + 1][1]
    <3>1. CASE p = L
      <4>1. pieces # <<>> /\ pieces[L][2] <= cursor
        BY <1>0, <2>6, <3>1 DEF SplitInv, Behind
      <4>. QED
        BY <1>0, <2>4, <3>1, <4>1
    <3>2. CASE p < L
      <4>1. p + 1 \in 1..L
        BY <1>0, <2>6, <3>2
      <4>. QED
        BY <1>0, <2>4, <2>6, <4>1 DEF SplitInv, Behind
    <3>3. p \in Nat /\ p <= L /\ L \in Nat
      <4>1. L \in Nat
        BY <1>0
      <4>. HIDE DEF L
      <4>. QED
        BY <4>1
    <3>4. p = L \/ p < L
      BY <3>3
    <3>. QED
      BY <3>1, <3>2, <3>4
  <2>7. ASSUME NEW i \in (1..b) \ Blank
        PROVE  \E p \in 1..(L + 1) : pieces'[p][1] < i /\ i <= pieces'[p][2]
    <3>1. CASE i <= cursor
      <4>1. i \in (1..cursor) \ Blank
        BY <1>0, <2>7, <3>1
      <4>2. PICK p \in 1..L : pieces[p][1] < i /\ i <= pieces[p][2]
        BY <1>0, <4>1 DEF SplitInv, Behind
      <4>. QED
        BY <1>0, <2>4, <4>2
    <3>2. CASE ~(i <= cursor)
      <4>1. L + 1 \in 1..(L + 1) /\ pieces'[L + 1][1] = cursor /\ pieces'[L + 1][2] = b
        BY <1>0, <2>4
      <4>. QED
        BY <1>0, <2>7, <3>2, <4>1
    <3>. QED
      BY <3>1, <3>2
  <2>8. pieces'[Len(pieces')][2] <= b
    BY <1>0, <2>4
  <2>9. \A p \in 1..(L + 1) : p + 1 \in 1..(L + 1) => p \in 1..L
    BY <1>0
  <2>. QED
    BY <2>4, <2>5, <2>6, <2>7, <2>8, <2>9
<1>. QED
  BY <1>1, <1>2

\* The split starts with the invariant.
LEMMA SplitStarts == SplitInit => SplitInv
<1> SUFFICES ASSUME SplitInit PROVE SplitInv
  OBVIOUS
<1> USE SplitAssumption
<1> DEFINE N == count[<<0, Length>>]
<1>1. count \in [Slices -> Nat]
  BY DEF SplitInit
<1>2. <<0, Length>> \in Slices
  BY DEF Slices
<1>3. N \in Nat /\ N > PieceTokens /\ ends \in [1..N -> 1..Length]
  BY <1>1, <1>2 DEF SplitInit
<1>4. ends \in Seq(1..Length) /\ Len(ends) = N
  BY <1>3
<1>5. SplitTypes
  BY <1>1, <1>3, <1>4 DEF SplitTypes, SplitInit
<1>6. RestIsEmpty
  <2>1. \A s \in Slices : LastEnd <= s[1] => count[s] = 0
    BY DEF LastEnd, SplitInit
  <2>2. index = 0 /\ Len(ends) > 0 /\ Len(ends) \in Nat
    <3>1. index = 0
      BY DEF SplitInit
    <3>. HIDE DEF N
    <3>2. N > 0
      BY <1>3
    <3>. QED
      BY <1>3, <1>4, <3>1, <3>2
  <2>. QED
    BY <2>1, <2>2 DEF RestIsEmpty
<1>7. PiecesFit /\ Behind /\ TextIsKept
  BY DEF PiecesFit, Behind, TextIsKept, SplitInit
<1>. QED
  BY <1>5, <1>6, <1>7 DEF SplitInv

\* Every step of the split keeps it.
LEMMA SplitStep == SplitInv /\ SplitNext => SplitInv'
<1> SUFFICES ASSUME SplitInv, SplitNext PROVE SplitInv'
  OBVIOUS
<1> USE SplitAssumption
<1>0. /\ SplitTypes /\ cursor \in Nat /\ Length \in Nat /\ index \in Nat /\ Len(ends) \in Nat
  BY DEF SplitInv, SplitTypes
<1>1. CASE Split
  <2>1. /\ Cut \in 0..Length /\ cursor < Cut /\ Fits(cursor, Cut)
        /\ Consumed \in Nat /\ (Consumed >= Len(ends) => LastEnd <= Cut)
    BY <1>0, <1>1, CutFits, AllConsumed DEF Split, Stuck
  <2>2. count[<<cursor, Cut>>] <= PieceTokens
    BY <2>1 DEF Fits
  <2>3. outcome = "running" /\ pieces' = Added(cursor, Cut) /\ UNCHANGED <<count, ends>>
    BY <1>1 DEF Split
  <2>4. /\ pieces' \in Seq(Slices) /\ PiecesFit'
        /\ \A p \in DOMAIN pieces' : p + 1 \in DOMAIN pieces' => pieces'[p][2] <= pieces'[p + 1][1]
        /\ pieces' # <<>> => pieces'[Len(pieces')][2] <= Cut
        /\ \A i \in (1..Cut) \ Blank : \E p \in DOMAIN pieces' : pieces'[p][1] < i /\ i <= pieces'[p][2]
    <3>1. cursor <= Cut
      BY <1>0, <2>1
    <3>. QED
      BY <2>1, <2>2, <2>3, <3>1, AddedKeeps
  <2>5. cursor' = Cut /\ index' = Consumed /\ outcome' = "running" /\ UNCHANGED <<count, ends>>
    BY <1>1 DEF Split
  <2>6. SplitTypes'
    BY <2>1, <2>4, <2>5 DEF SplitInv, SplitTypes
  <2>7. RestIsEmpty'
    BY <2>1, <2>5 DEF SplitInv, RestIsEmpty, LastEnd
  <2>8. Behind' /\ TextIsKept'
    BY <2>4, <2>5 DEF Behind, TextIsKept
  <2>. QED
    BY <2>4, <2>6, <2>7, <2>8 DEF SplitInv
<1>2. CASE Raise
  <2>1. outcome' = "raised" /\ UNCHANGED <<count, ends, cursor, index, pieces>>
    BY <1>2 DEF Raise
  <2>2. outcome = "running"
    BY <1>2 DEF Raise
  <2>3. SplitTypes' /\ RestIsEmpty' /\ PiecesFit'
    BY <2>1 DEF SplitInv, SplitTypes, RestIsEmpty, LastEnd, PiecesFit
  <2>4. Behind' /\ TextIsKept'
    BY <2>1, <2>2 DEF SplitInv, Behind, TextIsKept
  <2>. QED
    BY <2>3, <2>4 DEF SplitInv
<1>3. CASE Finish
  <2>1. /\ outcome = "running" /\ outcome' = "done" /\ pieces' = Added(cursor, Length)
        /\ UNCHANGED <<count, ends, cursor, index>> /\ index >= Len(ends)
    BY <1>3 DEF Finish, Remainder
  <2>2. cursor < Length => count[<<cursor, Length>>] <= PieceTokens
    <3>1. cursor < Length => <<cursor, Length>> \in Slices
      BY <1>0 DEF Slices
    <3>2. LastEnd <= cursor
      BY <2>1 DEF SplitInv, RestIsEmpty
    <3>3. cursor < Length => count[<<cursor, Length>>] = 0
      BY <3>1, <3>2 DEF SplitInv, RestIsEmpty
    <3>. QED
      BY <3>3
  <2>3. Length \in 0..Length /\ cursor <= Length
    BY <1>0 DEF SplitTypes
  <2>4. /\ pieces' \in Seq(Slices) /\ PiecesFit'
        /\ \A p \in DOMAIN pieces' : p + 1 \in DOMAIN pieces' => pieces'[p][2] <= pieces'[p + 1][1]
        /\ \A i \in (1..Length) \ Blank : \E p \in DOMAIN pieces' : pieces'[p][1] < i /\ i <= pieces'[p][2]
    BY <2>1, <2>2, <2>3, AddedKeeps
  <2>5. SplitTypes' /\ RestIsEmpty'
    BY <2>1, <2>4 DEF SplitInv, SplitTypes, RestIsEmpty, LastEnd
  <2>6. Behind' /\ TextIsKept'
    BY <2>1, <2>4 DEF Behind, TextIsKept
  <2>. QED
    BY <2>4, <2>5, <2>6 DEF SplitInv
<1>. QED
  BY <1>1, <1>2, <1>3 DEF SplitNext

(***************************************************************************)
(* The stages.                                                             *)
(***************************************************************************)

\* The split is there or has nothing.
SplitHalf == IF stage = "split" THEN SplitInv ELSE SplitAbsent

\* Nothing is packed before the units are known.
PackIdle == stage # "pack" => PackInit
Packing  == stage = "pack"

\* The invariant of the packing loop holds from the first texts on.
LEMMA PackingStarts == Init => FactInv
  BY ChunkInit DEF FactInv, FactsSurvive, Init

\* The steps of chunk_text keep what the split keeps.
LEMMA SplitHalfNext == SplitHalf /\ [TextNext]_textVars => SplitHalf'
<1> SUFFICES ASSUME SplitHalf, [TextNext]_textVars PROVE SplitHalf'
  OBVIOUS
<1>1. CASE HardSplitStep
  BY <1>1, SplitStep DEF HardSplitStep, SplitHalf
<1>2. CASE Extend
  BY <1>2 DEF Extend, SplitHalf, SplitAbsent, NoSplit
<1>3. CASE Collected
  BY <1>3 DEF Collected, SplitHalf, SplitAbsent, NoSplit, splitVars
<1>4. CASE UNCHANGED <<stage, splitVars>>
  BY <1>4 DEF SplitHalf, SplitAbsent, NoSplit, splitVars, SplitInv, SplitTypes, RestIsEmpty,
     LastEnd, PiecesFit, Behind, TextIsKept
<1>. QED
  BY <1>1, <1>2, <1>3, <1>4 DEF TextNext, PackStep, textVars

\* The packing starts when the units are known, and goes on as the loop does.
LEMMA PackNext ==
    PackIdle /\ (Packing => FactInv) /\ [TextNext]_textVars
    => PackIdle' /\ (Packing' => FactInv' \/ Init')
<1> SUFFICES ASSUME PackIdle, Packing => FactInv, [TextNext]_textVars
             PROVE  PackIdle' /\ (Packing' => FactInv' \/ Init')
  OBVIOUS
<1>1. CASE HardSplitStep
  BY <1>1 DEF HardSplitStep, PackIdle, Packing, PackInit, vars
<1>2. CASE Extend
  BY <1>2 DEF Extend, PackIdle, Packing, PackInit, vars
<1>3. CASE Collected
  BY <1>3 DEF Collected, PackIdle, Packing, PackInit, Init
<1>4. CASE PackStep
  <2>1. FactInv'
    BY <1>4, FactNext DEF PackStep, Packing
  <2>. QED
    BY <1>4, <2>1 DEF PackStep, PackIdle, Packing
<1>5. CASE UNCHANGED textVars
  <2>1. UNCHANGED vars /\ UNCHANGED stage
    BY <1>5 DEF textVars
  <2>2. Packing => FactInv'
    BY <2>1, FactNext
  <2>. QED
    BY <2>1, <2>2 DEF vars, PackIdle, Packing, PackInit
<1>. QED
  BY <1>1, <1>2, <1>3, <1>4, <1>5 DEF TextNext

\* Every piece of a hard split fits the budget, whatever slicing does to the tokens:
\* the cut is verified, and what follows the last token has none.
THEOREM SplitBudget == TextSpec => []PiecesFit
<1>1. TextInit => SplitHalf
  BY SplitStarts DEF TextInit, SplitHalf
<1>2. SplitHalf => PiecesFit
  BY DEF SplitHalf, SplitInv, SplitAbsent, PiecesFit
<1>. QED
  BY <1>1, <1>2, SplitHalfNext, PTL DEF TextSpec

\* The pieces hold the whole sentence but for blanks, in order.
THEOREM SplitCoverage == TextSpec => []TextIsKept
<1>1. TextInit => SplitHalf
  BY SplitStarts DEF TextInit, SplitHalf
<1>2. SplitHalf => TextIsKept
  BY DEF SplitHalf, SplitInv, SplitAbsent, TextIsKept
<1>. QED
  BY <1>1, <1>2, SplitHalfNext, PTL DEF TextSpec

\* What is proved of the packing loop holds of chunk_text: the chunks fit, overlap
\* within the budget, advance, lose nothing, and split no fact that fits the overlap.
THEOREM ChunksOfText ==
    TextSpec => [](ChunksFit /\ OverlapFits /\ ChunksAdvance /\ NothingIsLost /\ FactsSurvive)
<1>1. TextInit => PackIdle /\ ~Packing
  BY DEF TextInit, PackIdle, Packing
<1>2. PackIdle /\ ~Packing => ChunksFit /\ OverlapFits /\ ChunksAdvance /\ NothingIsLost /\ FactsSurvive
  BY DEF PackIdle, Packing, PackInit, ChunksFit, OverlapFits, ChunksAdvance, NothingIsLost, FactsSurvive
<1>3. FactInv => ChunksFit /\ OverlapFits /\ ChunksAdvance /\ NothingIsLost /\ FactsSurvive
  BY DEF FactInv, ChunkInv
<1>. QED
  BY <1>1, <1>2, <1>3, PackNext, PackingStarts, PTL DEF TextSpec
=============================================================================
