-------------------------- MODULE MCPoolAllocator --------------------------
(* Pages of eight bytes with a header of two, aligned at two; sizes that    *)
(* leave room, that fill a page exactly and that need pages of their own,   *)
(* and no size at all.                                                      *)
EXTENDS PoolAllocator, TLC

CONSTANTS p1, p2, p3, p4

MCPages == {p1, p2, p3, p4}
MCSymmetry == Permutations(MCPages)
MCSizes == {0, 1, 5, 6, 7}
=============================================================================
