------------------------------ MODULE PaidRef ------------------------------
(***************************************************************************)
(* What the gate promises of a protected ref, without hooks, locks, ledger *)
(* or crashes: a move of the ref spends one approved instance of every     *)
(* operation the move needs, in the same step, and what is spent is never  *)
(* used again.  PushGate implements it as long as outcome hooks arrive.    *)
(***************************************************************************)
EXTENDS Sequences

CONSTANTS Revs, Ops, Needs

VARIABLES
  ref,
  purse      \* the instances that were ever requested: op and status

PaidInit == ref \in Revs /\ purse = << >>

(* Exactly one instance of each operation the move needs, and no other. *)
Price(paid, old, new) ==
  /\ {purse[a].op : a \in paid} = Needs[<<old, new>>]
  /\ \A a, b \in paid : purse[a].op = purse[b].op => a = b

Move(new) ==
  /\ new # ref
  /\ \E paid \in SUBSET {a \in DOMAIN purse : purse[a].status = "approved"} :
       /\ Price(paid, ref, new)
       /\ purse' = [a \in DOMAIN purse |->
                      IF a \in paid THEN [purse[a] EXCEPT !.status = "spent"] ELSE purse[a]]
  /\ ref' = new

Ask(op) ==
  /\ purse' = Append(purse, [op |-> op, status |-> "pending"])
  /\ ref' = ref

(* What was approved may be reopened or denied, until it is spent. *)
Answer(a) ==
  /\ purse[a].status \in {"pending", "approved"}
  /\ \E outcome \in {"pending", "approved", "denied"} \ {purse[a].status} :
       purse' = [purse EXCEPT ![a].status = outcome]
  /\ ref' = ref

PaidNext ==
  \/ \E new \in Revs : Move(new)
  \/ \E op \in Ops : Ask(op)
  \/ \E a \in DOMAIN purse : Answer(a)

PaidSpec == PaidInit /\ [][PaidNext]_<<ref, purse>>

=============================================================================
