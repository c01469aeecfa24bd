----------------------------- MODULE MCPushGate -----------------------------
(* Instances of PushGate for TLC. *)
EXTENDS PushGate, TLC

CONSTANTS zero, r1, op1

(* Every update that takes the ref away from r1 needs an approval. *)
LeavingR1Governed == [line \in Lines |-> IF line[1] = r1 THEN {op1} ELSE {}]

(* Left out of a run: the branch is claimed or frozen.  Nothing is lost for a *)
(* property that does not name the owner: an owner only keeps a push from     *)
(* going on, and a push may stop, or be refused under the lock, at any time.  *)
Unclaimed == owner = NoOne

Symmetry == Permutations(Pushes) \cup Permutations(Agents)
=============================================================================
