---------------------------- MODULE MCOwnership ----------------------------
(* Instances of Ownership for TLC. *)
EXTENDS Ownership, TLC

CONSTANTS t1, t2, a1, a2

OneRepository == [t \in Tasks |-> "r"]
TwoRepositories == t1 :> "r1" @@ t2 :> "r2"
SameGlob == {<<g, g>> : g \in Globs}

Symmetry ==
  Permutations(ClaimIds) \cup Permutations(HandoffIds)
    \cup Permutations(Branches) \cup Permutations(Globs)
=============================================================================
