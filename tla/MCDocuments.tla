---------------------------- MODULE MCDocuments ----------------------------
(* Symmetry for the runs of Documents. *)
EXTENDS Documents, TLC

RunSymmetry == Permutations(Texts)
=============================================================================
