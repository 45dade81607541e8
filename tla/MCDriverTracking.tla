-------------------------- MODULE MCDriverTracking --------------------------
(* Symmetry for the run of DriverTracking. *)
EXTENDS DriverTracking, TLC

RunSymmetry == Permutations(Calls)
=============================================================================
