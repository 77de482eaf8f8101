----------------------------- MODULE MCArcShiftCell -----------------------------
(***************************************************************************)
(* Instances of ArcShiftCell for TLC.                                      *)
(***************************************************************************)
EXTENDS ArcShiftCellInv, TLC

CONSTANTS c1, c2, s1, s2, k1, k2

\* the cells, the slots and the chains are interchangeable
Symmetry == Permutations(Cells) \cup Permutations(Slots) \cup Permutations(Chains)
=============================================================================
