----------------------------- MODULE MCLibrary -----------------------------
(* Copies of one file; what they are told apart by is the filter of the list. *)
EXTENDS Library, TLC

Symmetry == Permutations(Matching) \cup Permutations(Ids \ Matching)

ASSUME SymmetryAssumption == Copies = Ids
=============================================================================
