--------------------------- MODULE MCFleetService ---------------------------
(* Symmetry for the run of DriverReport and FleetService. *)
EXTENDS DriverReport, TLC

RunSymmetry == Permutations(Calls) \union Permutations(Drivers)
=============================================================================
