--------------------------- MODULE MCClaimService ---------------------------
(* Model values and symmetry for the run of ClaimService. *)
EXTENDS ClaimService, TLC

\* Calls are alike, and so are transits: every one is dear.
RunSymmetry == Permutations(Calls) \union Permutations(Transits)
=============================================================================
