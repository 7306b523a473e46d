---------------------------- MODULE MCModelCache ----------------------------
(* Small instances of ModelCache: symmetric threads.                       *)
EXTENDS ModelCache, TLC

Symmetry == Permutations(Threads)

=============================================================================
