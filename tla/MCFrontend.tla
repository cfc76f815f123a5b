----------------------------- MODULE MCFrontend -----------------------------
(* An instance of Frontend for TLC. *)
EXTENDS Frontend, TLC

CONSTANTS short, long

TwoFiles  == {short, long}
TwoCounts == short :> 1 @@ long :> 2

Symmetry == Permutations(Searches) \cup Permutations(Queries)
=============================================================================
