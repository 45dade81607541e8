------------------------- MODULE MCContractService -------------------------
(* Symmetry for the runs of ContractService. *)
EXTENDS ContractService, TLC

RunSymmetry == Permutations(Calls)
=============================================================================
