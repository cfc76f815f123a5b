----------------------------- MODULE ChunkText -----------------------------
(***************************************************************************)
(* chunk_text as a whole: it collects the units of the text, a sentence    *)
(* over the budget as the pieces of its hard split, and packs them.  A     *)
(* split that raises ends it before any chunk is made.                     *)
(*                                                                         *)
(* A text starts with at most one long sentence; what follows are units of *)
(* any size.                                                               *)
(***************************************************************************)
EXTENDS Chunker, HardSplit

\* chunk_text passes its own budget on.
ASSUME OneBudget == PieceTokens = MaxTokens

VARIABLES
    stage,  \* "split", "units" or "pack"
    units   \* count_tokens of the units known so far

textVars == <<stage, units, vars, splitVars>>

\* The locals of _hard_split while it does not run.
NoSplit == [s \in Slices |-> 0]
SplitAbsent ==
    /\ count = NoSplit /\ ends = <<>> /\ cursor = 0 /\ index = 0
    /\ pieces = <<>> /\ outcome = "none"

PackInit ==
    /\ tokens = [i \in Index |-> [j \in Index |-> 0]]
    /\ pos = 0 /\ first = 1 /\ chunks = <<>> /\ finished = FALSE

TextInit ==
    /\ units = <<>>
    /\ PackInit
    /\ \/ stage = "split" /\ SplitInit
       \/ stage = "units" /\ SplitAbsent

HardSplitStep ==
    /\ stage = "split"
    /\ SplitNext
    /\ UNCHANGED <<stage, units, vars>>

\* units.extend(...): _hard_split returns.
Extend ==
    /\ stage = "split" /\ outcome = "done"
    /\ units' = [p \in DOMAIN pieces |-> count[pieces[p]]]
    /\ stage' = "units"
    /\ count' = NoSplit /\ ends' = <<>> /\ cursor' = 0 /\ index' = 0
    /\ pieces' = <<>> /\ outcome' = "none"
    /\ UNCHANGED vars

\* The text that has these units first, if they all fit.
HasUnits(text) == \A p \in DOMAIN units : p \in Index /\ text[p][p] = units[p]

Collected ==
    /\ stage = "units"
    /\ stage' = "pack"
    /\ tokens' \in Tokenizers /\ HasUnits(tokens')
    /\ UNCHANGED <<units, pos, first, chunks, finished, splitVars>>

PackStep ==
    /\ stage = "pack"
    /\ Next
    /\ UNCHANGED <<stage, units, splitVars>>

TextNext == HardSplitStep \/ Extend \/ Collected \/ PackStep

\* A call runs until it returns or raises.
TextSpec == TextInit /\ [][TextNext]_textVars /\ WF_textVars(TextNext)

-----------------------------------------------------------------------------

\* However slicing and joining change the tokens, the call ends: with all chunks
\* made, or with the error that one character exceeds the budget.
ChunkTextEnds == <>(finished \/ outcome = "raised")
=============================================================================
