---------------------------- MODULE MCAuthority ----------------------------
(* Instances of Authority for TLC. *)
EXTENDS Authority, TLC

AnyoneTwice ==
  [threshold |-> 2, roles |-> {"operator", "worker"}, requesterMayVote |-> TRUE,
   quorum |-> FALSE]
OperatorQuorum ==
  [threshold |-> 1, roles |-> {"operator"}, requesterMayVote |-> TRUE, quorum |-> TRUE]
WorkersJoin ==
  [threshold |-> Inherit, roles |-> {"operator", "worker"}, requesterMayVote |-> FALSE,
   quorum |-> TRUE]
TwoVotes ==
  [threshold |-> 2, roles |-> {}, requesterMayVote |-> Inherit, quorum |-> Inherit]

TwoDefaults == {AnyoneTwice, TwoVotes}
OneOverride == {WorkersJoin}
QuorumOnly == {OperatorQuorum}
None == {}

Symmetry == Permutations(Agents)
=============================================================================
