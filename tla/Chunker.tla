------------------------------ MODULE Chunker ------------------------------
(***************************************************************************)
(* The packing loop of chunk_text: units of text, each within the token    *)
(* budget, are packed into chunks that overlap by whole units.             *)
(*                                                                         *)
(* What the loop holds in lists of strings is always a run of consecutive  *)
(* units, so a chunk is the pair of its first and its last unit.  The      *)
(* tokenizer is any function from such runs to numbers: joining texts may  *)
(* merge or split tokens.                                                  *)
(***************************************************************************)
EXTENDS Naturals, Sequences

CONSTANTS
    Units,          \* how many units the text has
    MaxTokens,      \* max_tokens
    OverlapTokens,  \* overlap_tokens
    Tokenizers      \* functions that give, for i and j, the tokens of units i to j

Index == 1..Units

ASSUME ConstantsAssumption ==
    /\ Units \in Nat
    /\ MaxTokens \in Nat \ {0}
    /\ OverlapTokens \in 0..(MaxTokens - 1)
    /\ \A t \in Tokenizers :
          /\ t \in [Index -> [Index -> Nat]]
          /\ \A i \in Index : t[i][i] <= MaxTokens

VARIABLES
    tokens,   \* count_tokens of the joined units
    pos,      \* units taken by the loop so far
    first,    \* cur is the units from first to pos
    chunks,   \* the chunks appended so far
    finished

vars == <<tokens, pos, first, chunks, finished>>

Span == [from : Index, to : Index]

Init ==
    /\ tokens \in Tokenizers
    /\ pos = 0
    /\ first = 1
    /\ chunks = <<>>
    /\ finished = FALSE

Smallest(S) == CHOOSE i \in S : \A j \in S : i <= j

\* The overlap grows backwards until one more unit makes it too large.
OverlapStarts == {i \in first..(pos + 1) : \A j \in i..pos : tokens[j][pos] <= OverlapTokens}

\* Mutants: everything is repeated that leaves room for the next unit; nothing is.
WholeStart   == first
NoOverlap    == pos + 1
OverlapStart == Smallest(OverlapStarts)

\* It loses units from the front until the next unit fits.
RoomyStarts(start) ==
    {i \in start..(pos + 1) : i <= pos => tokens[i][pos + 1] <= MaxTokens}

\* Mutant: the overlap is kept whole.
KeptWhole(start) == start
Shrunk(start)    == Smallest(RoomyStarts(start))

\* Mutant: the unit that did not fit is forgotten.
Forgetful == pos + 2
NewFirst  == Shrunk(OverlapStart)

Overflow == first <= pos /\ tokens[first][pos + 1] > MaxTokens

Take ==
    /\ pos < Units /\ ~Overflow
    /\ pos' = pos + 1
    /\ UNCHANGED <<tokens, first, chunks, finished>>

Close ==
    /\ pos < Units /\ Overflow
    /\ chunks' = Append(chunks, [from |-> first, to |-> pos])
    /\ first' = NewFirst
    /\ pos' = pos + 1
    /\ UNCHANGED <<tokens, finished>>

\* Mutant: what is left over is forgotten.
NoRest == chunks
Rest   == IF first <= pos THEN Append(chunks, [from |-> first, to |-> pos]) ELSE chunks

Flush ==
    /\ pos = Units /\ ~finished
    /\ chunks' = Rest
    /\ finished' = TRUE
    /\ UNCHANGED <<tokens, pos, first>>

Next == Take \/ Close \/ Flush

Spec == Init /\ [][Next]_vars

-----------------------------------------------------------------------------
(* Properties.                                                             *)

\* Every variable keeps its type: after each unit, cur has at least that unit.
TypeOK ==
    /\ tokens \in [Index -> [Index -> Nat]]
    /\ pos \in 0..Units
    /\ first \in 1..(Units + 1) /\ (pos > 0 => first <= pos)
    /\ chunks \in Seq(Span)
    /\ finished \in BOOLEAN

\* No chunk exceeds the token budget, whatever the overlap and the tokenizer do.
ChunksFit ==
    \A c \in DOMAIN chunks : tokens[chunks[c].from][chunks[c].to] <= MaxTokens

\* What two consecutive chunks share is within the overlap budget.
OverlapFits ==
    \A c \in DOMAIN chunks :
        c + 1 \in DOMAIN chunks /\ chunks[c + 1].from <= chunks[c].to
        => tokens[chunks[c + 1].from][chunks[c].to] <= OverlapTokens

\* The chunks go through the text in order, without a gap, and each brings
\* something new.
ChunksAdvance ==
    \A c \in DOMAIN chunks :
        /\ chunks[c].from <= chunks[c].to
        /\ c + 1 \in DOMAIN chunks => /\ chunks[c].to < chunks[c + 1].to
                                      /\ chunks[c + 1].from <= chunks[c].to + 1
                                      /\ chunks[c].from < chunks[c + 1].from

\* Every unit of the text is in a chunk once the loop is over.
NothingIsLost ==
    finished => \A i \in Index : \E c \in DOMAIN chunks :
                    chunks[c].from <= i /\ i <= chunks[c].to

\* A part of a text never has more tokens than the text.
Monotone ==
    \A i, j \in Index : i <= j =>
        \A a \in i..j, b \in i..j : a <= b => tokens[a][b] <= tokens[i][j]

\* What fits into the overlap is never split: every run of units within the overlap
\* budget is whole in one chunk, or in the one that is being filled.
FactsSurvive ==
    Monotone => \A i \in 1..pos, j \in 1..pos :
        i <= j /\ tokens[i][j] <= OverlapTokens
        => first <= i \/ \E c \in DOMAIN chunks : chunks[c].from <= i /\ j <= chunks[c].to
=============================================================================
