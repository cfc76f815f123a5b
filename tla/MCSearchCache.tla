--------------------------- MODULE MCSearchCache ---------------------------
(* Instances of SearchCache for TLC. *)
EXTENDS SearchCache, TLC

CONSTANTS a, b, c, q

ThreeKeyword   == q :> <<b, a, c>>
ThreeSemantic  == q :> <<c, b, a>>
ThreeRelevance == q :> ((a :> 1) @@ (b :> 2) @@ (c :> 3))

Symmetry == Permutations(Requests)
=============================================================================
