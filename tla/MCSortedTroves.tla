--------------------------- MODULE MCSortedTroves ---------------------------
(* SortedTroves for TLC: no hint, no capacity and no NICR is left out, the *)
(* sizes are small.                                                        *)
EXTENDS SortedTroves, TLC

Symmetry == Permutations(Ids)
=============================================================================
