----------------------------- MODULE Worktrees -----------------------------
(***************************************************************************)
(* Managed worktrees (src/quorumgit/trees.py): the worktrees table, the    *)
(* checkouts it records, and the commands and `doctor --repair' that keep  *)
(* the two together while people work in, move and delete the checkouts.   *)
(*                                                                         *)
(* A command is one SQLite transaction with Git run inside it.  Git's      *)
(* effect is not undone by a rollback, so a command that dies before its   *)
(* commit leaves the effect without the record.  Claims appear with what   *)
(* decides on a worktree; module Ownership has the rest of them.           *)
(***************************************************************************)
EXTENDS Naturals, Sequences

CONSTANTS
  Tasks, Branches,
  Elsewhere,       \* HEAD of a checkout: detached, or a branch no claim names
  Unregistered,    \* Git does not know the directory as a worktree (any more)
  MaxClaims,       \* bound on the claims table
  MaxCheckouts     \* bound on the `git worktree add' of commands

ASSUME HeadsAssumption ==
  Elsewhere \notin Branches /\ Unregistered \notin Branches /\ Elsewhere # Unregistered
ASSUME BoundsAssumption == MaxClaims \in Nat /\ MaxCheckouts \in Nat

VARIABLES
  claims,   \* the claims table and, per claim, the handoff made from it
  rows,     \* the worktrees table
  disk      \* what is at each path and what Git registers for it

vars == <<claims, rows, disk>>

(* "handoff": released, with an open handoff from it. *)
Claim == [task : Tasks, branch : Branches,
          state : {"live", "expired", "handoff", "released"}]
Row == [claim : 1..MaxClaims, path : 1..MaxCheckouts, branch : Branches, removed : BOOLEAN]
Checkout == [dir : {"none", "clean", "dirty"},
             head : Branches \cup {Elsewhere, Unregistered}]
Gone == [dir |-> "none", head |-> Unregistered]

TypeOK ==
  /\ claims \in Seq(Claim) /\ Len(claims) <= MaxClaims
  /\ rows \in Seq(Row)
  /\ disk \in Seq(Checkout) /\ Len(disk) <= MaxCheckouts

----------------------------------------------------------------------------
(* claims *)

Unreleased(c) == claims[c].state \in {"live", "expired"}

(* Seeded bug: an open handoff does not count. *)
BugReserved(c) == Unreleased(c)
Reserved(c) == Unreleased(c) \/ claims[c].state = "handoff"

(* Seeded bug: the reason of a release is stored in place of the state. *)
BugWithState(c, state) == [claims EXCEPT ![c].state = "done"]
WithState(c, state) == [claims EXCEPT ![c].state = state]
Holders(t) == {c \in DOMAIN claims : claims[c].task = t /\ Unreleased(c)}
WithoutHolder(t) ==
  [c \in DOMAIN claims |->
    IF c \in Holders(t) THEN [claims[c] EXCEPT !.state = "released"] ELSE claims[c]]

NoHandoff(t, b) ==
  \A c \in DOMAIN claims : claims[c].state = "handoff" => /\ claims[c].task # t
                                                          /\ claims[c].branch # b
NoRival(t, b) ==
  \A c \in DOMAIN claims : claims[c].state = "live" /\ claims[c].branch = b
                             => claims[c].task = t
(* claim_task() grants the claim.  A live holder gives way to an approved
   takeover; other scopes and approvals are left out. *)
Grantable(t, b) == NoHandoff(t, b) /\ NoRival(t, b) /\ Len(claims) < MaxClaims

----------------------------------------------------------------------------
(* Git *)

(* `git worktree add' refuses a branch that any worktree has checked out, one
   whose directory is missing included. *)
CanAdd(b) ==
  /\ Len(disk) < MaxCheckouts
  /\ \A p \in DOMAIN disk : disk[p].head # b
Added(b) == Append(disk, [dir |-> "clean", head |-> b])

(* Seeded bug: `git worktree remove --force'. *)
BugCanRemove(p) == disk[p].head # Unregistered
(* `git worktree remove': needs a worktree, and one without changes. *)
CanRemove(p) == disk[p].head # Unregistered /\ disk[p].dir # "dirty"

----------------------------------------------------------------------------
(* The table *)

Active(r) == ~rows[r].removed
ActiveOf(c) == {r \in DOMAIN rows : rows[r].claim = c /\ Active(r)}
Present(r) == disk[rows[r].path].dir # "none"

(* Seeded bug: whatever is checked out there will do. *)
BugMatches(r) == TRUE
(* checkout_identity_issue() finds nothing. *)
Matches(r) == disk[rows[r].path].head = rows[r].branch

MarkRemoved(R) == [r \in DOMAIN rows |-> [rows[r] EXCEPT !.removed = @ \/ r \in R]]
Transferred(r, c) == [rows EXCEPT ![r].claim = c]

(* _retained_worktree_for_branch(): the newest active row of the branch *)
Retained(b) ==
  LET R == {r \in DOMAIN rows : Active(r) /\ rows[r].branch = b}
  IN {r \in R : \A s \in R : s <= r}

Init == claims = << >> /\ rows = << >> /\ disk = << >>

----------------------------------------------------------------------------
(* claim *)

Granted(t, b) ==
  Append(WithoutHolder(t), [task |-> t, branch |-> b, state |-> "live"])

(* cmd_claim --no-worktree *)
ClaimOnly(t, b) ==
  /\ Grantable(t, b)
  /\ claims' = Granted(t, b)
  /\ UNCHANGED <<rows, disk>>

(* continue_or_create_worktree() goes on to create_worktree(). *)
NothingToContinue(b) == \A r \in Retained(b) : ~Present(r)

CreateWorktree(t, b) ==
  /\ Grantable(t, b)
  /\ NothingToContinue(b)
  /\ CanAdd(b)
  /\ claims' = Granted(t, b)
  /\ disk' = Added(b)
  /\ rows' = Append(rows, [claim |-> Len(claims) + 1, path |-> Len(disk) + 1,
                           branch |-> b, removed |-> FALSE])

(* The command dies between `git worktree add' and its commit. *)
DieCreating(t, b) ==
  /\ Grantable(t, b)
  /\ NothingToContinue(b)
  /\ CanAdd(b)
  /\ disk' = Added(b)
  /\ UNCHANGED <<claims, rows>>

(* Seeded bug: any task may continue it. *)
BugMayContinue(r, t) == WithoutHolder(t)[rows[r].claim].state = "released"
(* The retained checkout is of the same task, and its claim is released, by this
   command or before. *)
MayContinue(r, t) ==
  LET c == rows[r].claim
  IN claims[c].task = t /\ WithoutHolder(t)[c].state = "released"

(* continue_or_create_worktree() adopts the retained checkout. *)
ContinueWorktree(t, b) ==
  /\ Grantable(t, b)
  /\ \E r \in Retained(b) :
       /\ Present(r)
       /\ MayContinue(r, t)
       /\ Matches(r)
       /\ rows' = Transferred(r, Len(claims) + 1)
  /\ claims' = Granted(t, b)
  /\ UNCHANGED disk

(* A refused claim commits the release of the lapsed holder. *)
ClaimRefused(t, b) ==
  /\ NoHandoff(t, b)
  /\ \E c \in Holders(t) : claims[c].state = "expired"
  /\ claims' = WithoutHolder(t)
  /\ UNCHANGED <<rows, disk>>

Expire(c) ==
  /\ claims[c].state = "live"
  /\ claims' = WithState(c, "expired")
  /\ UNCHANGED <<rows, disk>>

----------------------------------------------------------------------------
(* release, task done, handoffs *)

KeepCheckout == UNCHANGED <<rows, disk>>

(* remove_worktree() and cleanup_released_worktree(): no active row, nothing to
   do; a checkout Git will not remove fails the command. *)
RemoveCheckout(c) ==
  IF ActiveOf(c) = {} THEN KeepCheckout
  ELSE \E r \in ActiveOf(c) : /\ CanRemove(rows[r].path)
                              /\ disk' = [disk EXCEPT ![rows[r].path] = Gone]
                              /\ rows' = MarkRemoved({r})

(* cmd_release, with or without --remove-worktree *)
Release(c) ==
  /\ Unreleased(c)
  /\ claims' = WithState(c, "released")
  /\ KeepCheckout \/ RemoveCheckout(c)

(* cmd_task_done; the task may be reopened afterwards. *)
TaskDone(c) ==
  /\ claims[c].state = "live"
  /\ claims' = WithState(c, "released")
  /\ KeepCheckout \/ RemoveCheckout(c)

CreateHandoff(c) ==
  /\ Unreleased(c)
  /\ claims' = WithState(c, "handoff")
  /\ UNCHANGED <<rows, disk>>

(* Seeded bug: the successor starts without the checkout. *)
BugHandedOn(c) == rows
(* The active row of c, if it has one, goes to the next claim. *)
HandedOn(c) ==
  [r \in DOMAIN rows |->
    IF r \in ActiveOf(c) THEN [rows[r] EXCEPT !.claim = Len(claims) + 1] ELSE rows[r]]

AcceptHandoff(c) ==
  LET t == claims[c].task
      b == claims[c].branch
  IN /\ claims[c].state = "handoff"
     /\ Len(claims) < MaxClaims
     /\ \A d \in DOMAIN claims : claims[d].state = "handoff" /\ claims[d].branch = b => d = c
     /\ NoRival(t, b)
     /\ claims' = Append(WithState(c, "released"),
                         [task |-> t, branch |-> b, state |-> "live"])
     /\ rows' = HandedOn(c)
     /\ UNCHANGED disk

(* decline_handoff(), cancel_handoff() *)
ResolveHandoff(c) ==
  /\ claims[c].state = "handoff"
  /\ claims' = WithState(c, "released")
  /\ RemoveCheckout(c)

(* One of these dies between `git worktree remove' and its commit. *)
DieRemoving(c) ==
  /\ Reserved(c)
  /\ \E r \in ActiveOf(c) : /\ CanRemove(rows[r].path)
                            /\ disk' = [disk EXCEPT ![rows[r].path] = Gone]
  /\ UNCHANGED <<claims, rows>>

----------------------------------------------------------------------------
(* doctor_worktrees(repair=True): one transaction, row by row *)

Missing(r) == Active(r) /\ ~Present(r)
Orphaned(r) == Active(r) /\ Present(r) /\ Matches(r) /\ ~Reserved(rows[r].claim)
Unexpected(r) == ~Active(r) /\ Present(r) /\ Matches(r)

(* Seeded bug: doctor stops at the first row that cannot be repaired. *)
BugRemovable(R) ==
  LET Due == {r \in R : Orphaned(r) \/ Unexpected(r)}
  IN {r \in Due : \A s \in Due : s <= r => CanRemove(rows[s].path)}
(* Git's refusal of one row is reported and does not stop the others. *)
Removable(R) ==
  {r \in R : (Orphaned(r) \/ Unexpected(r)) /\ CanRemove(rows[r].path)}

(* Seeded bug: the record is closed without `git worktree prune'. *)
BugSwept(R) ==
  [p \in DOMAIN disk |->
    IF \E r \in Removable(R) : rows[r].path = p THEN Gone ELSE disk[p]]
(* Git's part, for the rows in R: prune for a missing one drops the
   registration of every missing directory. *)
Swept(R) ==
  [p \in DOMAIN disk |->
    IF \/ \E r \in Removable(R) : rows[r].path = p
       \/ disk[p].dir = "none" /\ \E r \in R : Missing(r)
    THEN Gone ELSE disk[p]]

Doctor ==
  /\ disk' = Swept(DOMAIN rows)
  /\ rows' = MarkRemoved({r \in DOMAIN rows : Missing(r)} \cup Removable(DOMAIN rows))
  /\ UNCHANGED claims

(* It dies after some rows: what Git did stays. *)
DieRepairing ==
  /\ \E n \in DOMAIN rows : disk' = Swept(1..n)
  /\ UNCHANGED <<claims, rows>>

----------------------------------------------------------------------------
(* People and Git *)

Edit(p) ==
  /\ disk[p].dir = "clean"
  /\ disk' = [disk EXCEPT ![p].dir = "dirty"]
  /\ UNCHANGED <<claims, rows>>

Commit(p) ==
  /\ disk[p].dir = "dirty" /\ disk[p].head # Unregistered
  /\ disk' = [disk EXCEPT ![p].dir = "clean"]
  /\ UNCHANGED <<claims, rows>>

(* `git switch' in the checkout: to a branch that is free, or away *)
Switch(p, head) ==
  /\ disk[p].dir # "none" /\ disk[p].head \notin {Unregistered, head}
  /\ \A q \in DOMAIN disk : head # Elsewhere => disk[q].head # head
  /\ disk' = [disk EXCEPT ![p].head = head]
  /\ UNCHANGED <<claims, rows>>

(* The directory is deleted or moved away. *)
Vanish(p) ==
  /\ disk[p].dir # "none"
  /\ disk' = [disk EXCEPT ![p].dir = "none"]
  /\ UNCHANGED <<claims, rows>>

(* It is moved back, or someone adds a worktree of a free branch there. *)
Reappear(p, dir, head) ==
  /\ disk[p].dir = "none" /\ dir # "none"
  /\ \/ head = disk[p].head
     \/ /\ disk[p].head = Unregistered /\ dir = "clean"
        /\ \A q \in DOMAIN disk : disk[q].head # head
  /\ disk' = [disk EXCEPT ![p] = [dir |-> dir, head |-> head]]
  /\ UNCHANGED <<claims, rows>>

(* `git worktree prune', by hand or by `git gc' *)
Prune ==
  /\ disk' = [p \in DOMAIN disk |-> IF disk[p].dir = "none" THEN Gone ELSE disk[p]]
  /\ UNCHANGED <<claims, rows>>

----------------------------------------------------------------------------
Claiming ==
  \E t \in Tasks, b \in Branches :
    \/ ClaimOnly(t, b)
    \/ CreateWorktree(t, b)
    \/ DieCreating(t, b)
    \/ ContinueWorktree(t, b)
    \/ ClaimRefused(t, b)

Resolving ==
  \E c \in DOMAIN claims :
    \/ Expire(c)
    \/ Release(c)
    \/ TaskDone(c)
    \/ CreateHandoff(c)
    \/ AcceptHandoff(c)
    \/ ResolveHandoff(c)
    \/ DieRemoving(c)

Outside ==
  \/ \E p \in DOMAIN disk :
       \/ Edit(p)
       \/ Commit(p)
       \/ Vanish(p)
       \/ \E head \in Branches \cup {Elsewhere, Unregistered} :
            \/ head # Unregistered /\ Switch(p, head)
            \/ \E dir \in {"clean", "dirty"} : Reappear(p, dir, head)
  \/ Prune

Next == Claiming \/ Resolving \/ Doctor \/ DieRepairing \/ Outside

(* Someone runs doctor again and again, and not every run is killed. *)
Spec == Init /\ [][Next]_vars /\ WF_vars(Doctor)

----------------------------------------------------------------------------
(* Properties *)

(* A checkout changes owner only from a claim on the same task and branch that
   ends with, or before, that step; and unless a handoff passes it on, it is
   there with the branch checked out (continue_or_create_worktree: `is verified
   and transferred', `belonging to a different task is never adopted'). *)
AdoptionIsVerified ==
  [][\A r \in DOMAIN rows :
       LET from == rows[r].claim
           to == rows'[r].claim
       IN from # to =>
            /\ claims'[from].task = claims'[to].task
            /\ claims'[from].branch = claims'[to].branch
            /\ claims'[from].state = "released" /\ claims'[to].state = "live"
            /\ \/ claims[from].state = "handoff"
               \/ /\ disk[rows[r].path].dir # "none"
                  /\ disk[rows[r].path].head = rows[r].branch]_vars

(* The checkout of a claim that still owns its branch, or whose handoff is open,
   is not closed under it: its record is closed only when the directory is gone
   already or when the claim gives up the branch in that step. *)
ReservedIsKept ==
  [][\A r \in DOMAIN rows :
       Active(r) /\ rows'[r].removed =>
         \/ ~Present(r)
         \/ claims'[rows[r].claim].state = "released"]_vars

(* What an open handoff offers is still there for the successor: the active row
   of the claim handed over is the successor's after acceptance. *)
HandoffPassesCheckout ==
  [][\A c \in DOMAIN claims :
       claims[c].state = "handoff" /\ claims'[c].state = "released" =>
         \A r \in ActiveOf(c) : rows'[r].removed \/ claims'[rows'[r].claim].state = "live"]_vars

(* No command and no repair takes away a checkout with unfinished work: it stays
   a worktree of its repository until its owner commits or moves it. *)
WorkIsKept ==
  [][\A p \in DOMAIN disk :
       disk[p].dir = "dirty" =>
         \/ disk'[p].dir # "none"
         \/ disk'[p].head = disk[p].head]_vars

(* A closed record leaves nothing behind that would keep the branch from being
   checked out again, whichever of the commands closed it. *)
ClosedMeansGone ==
  [][\A r \in DOMAIN rows :
       Active(r) /\ rows'[r].removed => disk'[rows[r].path] = Gone]_vars

(* What a doctor run can put right *)
Repairable(r) ==
  \/ Missing(r)
  \/ Orphaned(r) /\ CanRemove(rows[r].path)
  \/ Unexpected(r) /\ CanRemove(rows[r].path)

(* A record and a checkout that disagree in a way doctor may repair do not stay
   so, however many other rows it cannot repair: after a command died in
   between, a directory was deleted, or a released claim left its checkout. *)
DriftIsReconciled ==
  \A n \in 1..MaxCheckouts :
    (n \in DOMAIN rows /\ Repairable(n)) ~> (n \in DOMAIN rows /\ ~Repairable(n))

(* README.md:292: `A recorded checkout whose directory is gone has nothing to
   continue, so a fresh worktree is created': with no other checkout of the
   branch about, Git lets create_worktree() add one. *)
GoneCheckoutIsReplaced ==
  \A t \in Tasks, b \in Branches :
    /\ Grantable(t, b) /\ Len(disk) < MaxCheckouts
    /\ \E r \in Retained(b) : ~Present(r)
    /\ \A p \in DOMAIN disk : disk[p].dir # "none" => disk[p].head # b
    => CanAdd(b)
=============================================================================
