----------------------------- MODULE HardSplit -----------------------------
(***************************************************************************)
(* _hard_split: a sentence over the token budget is cut at the ends of its *)
(* tokens.  A slice of a word can have more tokens than the word, so every *)
(* cut is verified, and moved back until the slice fits.                   *)
(*                                                                         *)
(* A slice <<a, b>> is the characters a + 1 to b.                          *)
(***************************************************************************)
EXTENDS Naturals, Sequences, FiniteSets

CONSTANTS
    Length,      \* characters of the sentence
    PieceTokens, \* max_tokens, for the pieces
    Blank,       \* its characters that strip() removes
    Counts       \* numbers of tokens that a slice may have

Slices == {s \in (0..Length) \X (0..Length) : s[1] < s[2]}

ASSUME SplitAssumption ==
    /\ Length \in Nat \ {0} /\ PieceTokens \in Nat \ {0} /\ Counts \subseteq Nat
    /\ Blank \subseteq 1..Length

VARIABLES
    count,    \* count_tokens of each slice
    ends,     \* where each token of the sentence ends
    cursor,   \* characters consumed
    index,    \* tokens consumed
    pieces,
    outcome

splitVars == <<count, ends, cursor, index, pieces, outcome>>

\* The characters of a slice that strip() leaves, but for the blanks between them.
Inked(s) == ((s[1] + 1)..s[2]) \ Blank

\* The sentence has more tokens than the budget, their ends do not decrease, there are
\* none in what follows the last of them, and blanks around a text add none to it.
SplitInit ==
    /\ count \in [Slices -> Counts]
    /\ count[<<0, Length>>] > PieceTokens
    /\ ends \in [1..count[<<0, Length>>] -> 1..Length]
    /\ \A i, j \in DOMAIN ends : i <= j => ends[i] <= ends[j]
    /\ \A s \in Slices : ends[Len(ends)] <= s[1] => count[s] = 0
    /\ \A s \in Slices : /\ Inked(s) = {} => count[s] = 0
                         /\ \A r \in Slices : Inked(r) = Inked(s) => count[r] = count[s]
    /\ cursor = 0 /\ index = 0
    /\ pieces = <<>>
    /\ outcome = "running"

Fits(a, b)    == count[<<a, b>>] <= PieceTokens
IsBlank(a, b) == Inked(<<a, b>>) = {}

\* A piece that is all blank is left out.
Added(a, b) == IF IsBlank(a, b) THEN pieces ELSE Append(pieces, <<a, b>>)

\* The end of the last token that the budget allows.
TokenEnd == ends[IF index + PieceTokens < Len(ends) THEN index + PieceTokens ELSE Len(ends)]

\* Mutant: the slice is not verified.
Unverified == TokenEnd

\* The cut moves back one character at a time, to the cursor at worst.
Cut ==
    LET Ok(b) == b <= cursor \/ Fits(cursor, b)
    IN  CHOOSE b \in 0..TokenEnd : /\ Ok(b)
                                   /\ \A c \in 0..TokenEnd : c > b => ~Ok(c)

\* Mutant: a cut that got nowhere is accepted.
NeverStuck == FALSE
Stuck      == Cut <= cursor

Consumed == Cardinality({i \in DOMAIN ends : ends[i] <= Cut})

Split ==
    /\ outcome = "running" /\ index < Len(ends) /\ ~Stuck
    /\ pieces' = Added(cursor, Cut)
    /\ cursor' = Cut
    /\ index' = Consumed
    /\ UNCHANGED <<count, ends, outcome>>

Raise ==
    /\ outcome = "running" /\ index < Len(ends) /\ Stuck
    /\ outcome' = "raised"
    /\ UNCHANGED <<count, ends, cursor, index, pieces>>

\* Mutant: what has no tokens is dropped.
NoRemainder == pieces
Remainder == Added(cursor, Length)

Finish ==
    /\ outcome = "running" /\ index >= Len(ends)
    /\ pieces' = Remainder
    /\ outcome' = "done"
    /\ UNCHANGED <<count, ends, cursor, index>>

SplitNext == Split \/ Raise \/ Finish

-----------------------------------------------------------------------------
(* Properties.                                                             *)

\* No piece exceeds the budget, however slicing changes the tokens.
PiecesFit == \A p \in DOMAIN pieces : count[pieces[p]] <= PieceTokens

\* The pieces are in order, and hold every character that is not blank.
TextIsKept ==
    /\ \A p \in DOMAIN pieces : p + 1 \in DOMAIN pieces => pieces[p][2] <= pieces[p + 1][1]
    /\ outcome = "done" =>
          \A i \in (1..Length) \ Blank : \E p \in DOMAIN pieces :
              pieces[p][1] < i /\ i <= pieces[p][2]
=============================================================================
