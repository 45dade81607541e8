-------------------------- MODULE MCAwardsService ---------------------------
(* Model values and symmetry for the runs of AwardsService. *)
EXTENDS AwardsService

CONSTANTS ann, bob, cat

TwoClients == {ann, bob}

\* One of them has no account yet.
ThreeClients == {ann, bob, cat}

\* Calls are alike until they choose a method.
CallSymmetry == Permutations(Calls)
=============================================================================
