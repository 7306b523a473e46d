------------------------- MODULE MCSeparationEngine -------------------------
(* Small instances of SeparationEngine: symmetric constants.                *)
EXTENDS SeparationEngine, TLC

Symmetry == Permutations(Workers) \union Permutations(Profiles) \union Permutations(Stems)

=============================================================================
