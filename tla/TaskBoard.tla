----------------------------- MODULE TaskBoard -----------------------------
(***************************************************************************)
(* What the task, claim and handoff commands promise together, without     *)
(* leases, branches, scopes or tables: a task has at most one owner, an    *)
(* offer excludes every owner until it is taken or withdrawn, and only an  *)
(* owner can finish a task.  Ownership implements this specification.      *)
(***************************************************************************)
CONSTANTS Tasks, Agents, Nobody

VARIABLE board   \* per task: st, its owners, its offers <<from, to>>

BoardInit == board = [t \in Tasks |-> [st |-> "absent", owners |-> {}, offers |-> {}]]

Become(t, st, owners, offers) ==
  board' = [board EXCEPT ![t] = [st |-> st, owners |-> owners, offers |-> offers]]

Create(t) ==
  /\ board[t].st = "absent"
  /\ Become(t, "open", {}, {})

(* A free task is taken, an owned one taken over, an offered one continued by
   whom it was offered to. *)
Take(t, a) ==
  /\ \/ board[t].st \in {"open", "claimed"}
     \/ /\ board[t].st = "handoff"
        /\ \E from \in Agents :
             board[t].offers \in {{<<from, a>>}, {<<from, Nobody>>}}
  /\ Become(t, "claimed", {a}, {})

Drop(t) ==
  /\ board[t].st = "claimed"
  /\ Become(t, "open", {}, {})

Offer(t, a, to) ==
  /\ board[t].st = "claimed" /\ board[t].owners = {a}
  /\ Become(t, "handoff", {}, {<<a, to>>})

Withdraw(t) ==
  /\ board[t].st = "handoff"
  /\ Become(t, "open", {}, {})

Finish(t) ==
  /\ board[t].st = "claimed"
  /\ Become(t, "done", {}, {})

Reopen(t) ==
  /\ board[t].st = "done"
  /\ Become(t, "open", {}, {})

BoardNext ==
  \E t \in Tasks :
    \/ Create(t) \/ Drop(t) \/ Withdraw(t) \/ Finish(t) \/ Reopen(t)
    \/ \E a \in Agents : Take(t, a) \/ \E to \in Agents \cup {Nobody} : Offer(t, a, to)

BoardSpec == BoardInit /\ [][BoardNext]_board

=============================================================================
