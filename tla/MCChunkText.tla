---------------------------- MODULE MCChunkText ----------------------------
(* An instance of ChunkText for TLC. *)
EXTENDS ChunkText

CONSTANTS Sizes,    \* tokens a unit may have
          Seams     \* tokens that joining two units may add

UpTo(amount) ==
    LET sum[n \in 0..Units] == IF n = 0 THEN 0 ELSE sum[n - 1] + amount[n] IN sum

\* A text of Units units: what each has alone, and what each seam adds.
Tokenizer(size, seam) ==
    LET sizes == UpTo(size)
        seams == UpTo(seam)
    IN  [i \in Index |-> [j \in Index |->
            IF i > j THEN 0 ELSE (sizes[j] - sizes[i - 1]) + (seams[j] - seams[i])]]

AllTokenizers ==
    {Tokenizer(size, seam) : size \in [Index -> Sizes],
                             seam \in {f \in [Index -> Seams] : f[1] = 0}}

\* TLC evaluates a definition once, but not one that replaces a constant.
SmallTokenizers == AllTokenizers
=============================================================================
