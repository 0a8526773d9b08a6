--------------------------- MODULE MC_ObjectStore ---------------------------
(* Instances of ObjectStore for TLC. *)
EXTENDS ObjectStore, TLC

CONSTANTS b1, b2, c1, c2

SomeBlocks   == {b1, b2}
SomeChannels == {c1, c2}
Symmetry     == Permutations(SomeBlocks) \union Permutations(SomeChannels)
=============================================================================
