--------------------------- MODULE MCMemoryManager ---------------------------
(***************************************************************************)
(* Instances of MemoryManager: three contents, two of them near-duplicates.*)
(***************************************************************************)
EXTENDS MemoryManager, TLC

CONSTANTS k1, k2, u1, x1, x2, y, c1, c2

NearDuplicates ==
    {<<x1, x1>>, <<x2, x2>>, <<y, y>>, <<x1, x2>>, <<x2, x1>>}

\* The callers, the keys, and the two near-duplicates differ in name only.
MemorySymmetry ==
    Permutations({c1, c2}) \cup Permutations({k1, k2}) \cup Permutations({x1, x2})
=============================================================================
