------------------------------ MODULE PushGate ------------------------------
(***************************************************************************)
(* A push to the hub, from pre-receive to the outcome Git reports          *)
(* (src/quorumgit/gate.py), for one protected ref.                         *)
(*                                                                         *)
(* pre-receive and the three states of the reference-transaction hook run  *)
(* in separate processes.  Git locks the ref between pre-receive and       *)
(* `prepared', and releases the lock before it runs `committed' or         *)
(* `aborted', so another push may slip in before either hook.  Each hook   *)
(* run is one SQLite transaction.                                          *)
(***************************************************************************)
EXTENDS Integers, Sequences, FiniteSets

CONSTANTS
  Pushes,        \* attempts to push, each made at most once
  Agents,
  Revs,          \* values of the ref
  Zero,          \* the zero OID: the ref does not exist, or is not checked
  Ops,           \* operations that need approval (operation hashes)
  Needs,         \* what governed_operations() asks for each <<oldrev, newrev>>
  NoOne, Frozen, \* no live claim on the branch; open handoff on the branch
  Free,          \* the ref is not locked
  MaxApprovals,  \* bound on the approvals table
  MayLose,       \* outcome hooks may be lost or minutes late
  MayDie,        \* Git may die under the lock
  MayRace,       \* pushes of the same update may be in flight together
  MayMaintain    \* the ref may be updated outside any push

Lines == {line \in Revs \X Revs : line[1] # line[2]}

ASSUME RevsAssumption == Zero \in Revs
ASSUME NeedsAssumption == Needs \in [Lines -> SUBSET Ops]
ASSUME BoundsAssumption ==
  /\ MaxApprovals \in Nat
  /\ {MayLose, MayDie, MayRace, MayMaintain} \subseteq BOOLEAN
ASSUME NamesAssumption ==
  NoOne \notin Agents /\ Frozen \notin Agents /\ NoOne # Frozen /\ Free \notin Pushes

VARIABLES
  ref,        \* the ref in the hub
  lock,       \* the push whose transaction holds <ref>.lock
  owner,      \* who holds the branch: the agent of its live claim
  push,       \* where Git is with each push
  ledger,     \* the ref_updates table
  approvals   \* the approvals table

vars == <<ref, lock, owner, push, ledger, approvals>>

(* "connected": the ref was advertised.  "received": pre-receive passed.
   "locked": Git holds the lock.  "prepared": the prepared hook passed.
   "aborting": it refused, the aborted hook is next.  "landed": the ref has
   moved, the committed hook is next.  "dead": Git died with its lock in place.
   "failed", "moved": over. *)
Phases == {"idle", "connected", "received", "locked", "prepared", "aborting", "landed",
           "dead", "failed", "moved"}
Push ==
  [phase : Phases, old : Revs, new : Revs, who : Agents,
   row : Nat,                     \* the row its prepared hook used, 0 before
   spent : SUBSET (1..MaxApprovals)]   \* the approvals that hook consumed
Row ==
  [old : Revs, new : Revs, who : Agents,
   status : {"validated", "prepared", "committed", "aborted"},
   stale : BOOLEAN,               \* older than VALIDATION_TTL_SECONDS
   spent : SUBSET (1..MaxApprovals)]
Approval == [op : Ops, status : {"pending", "approved", "denied", "consumed"}]

TypeOK ==
  /\ ref \in Revs
  /\ lock \in Pushes \cup {Free}
  /\ owner \in Agents \cup {NoOne, Frozen}
  /\ push \in [Pushes -> Push]
  /\ ledger \in Seq(Row)
  /\ approvals \in Seq(Approval) /\ Len(approvals) <= MaxApprovals

----------------------------------------------------------------------------
(* approvals *)

InstancesOf(op) == {a \in DOMAIN approvals : approvals[a].op = op}
LiveInstances(op) ==
  {a \in InstancesOf(op) : approvals[a].status \in {"pending", "approved"}}

(* approved_instance(): only the newest instance counts. *)
Usable(op) ==
  {a \in InstancesOf(op) : /\ approvals[a].status = "approved"
                           /\ \A b \in InstancesOf(op) : b <= a}

(* Seeded bug: preparing an update leaves its approvals usable. *)
BugConsumeNothing(paid) == approvals

(* consume_approval() *)
Consume(paid) ==
  [a \in DOMAIN approvals |->
    IF a \in paid THEN [approvals[a] EXCEPT !.status = "consumed"] ELSE approvals[a]]

(* Seeded bugs: an approval stays spent when its update is aborted; it comes
   back beside a newer live one. *)
BugRestoreNothing(paid) == approvals
BugRestoreAlways(paid) ==
  [a \in DOMAIN approvals |->
    IF a \in paid THEN [approvals[a] EXCEPT !.status = "approved"] ELSE approvals[a]]

(* _restore_approval(): the unique index approvals_one_live_per_operation
   makes it skip an instance that a newer live one has replaced. *)
Restore(paid) ==
  [a \in DOMAIN approvals |->
    IF /\ a \in paid /\ approvals[a].status = "consumed"
       /\ LiveInstances(approvals[a].op) = {}
    THEN [approvals[a] EXCEPT !.status = "approved"]
    ELSE approvals[a]]

----------------------------------------------------------------------------
(* The ledger: _find_update() takes the newest fresh row of the update; a zero
   old value matches every recorded one. *)

(* Seeded bug: any fresh row will do. *)
BugMatching(status, old, new) ==
  {r \in DOMAIN ledger : /\ ledger[r].new = new
                         /\ ledger[r].old = old \/ old = Zero
                         /\ ~ledger[r].stale}

Matching(status, old, new) ==
  {r \in DOMAIN ledger : /\ ledger[r].status = status
                         /\ ledger[r].new = new
                         /\ ledger[r].old = old \/ old = Zero
                         /\ ~ledger[r].stale}
Newest(rows) == {r \in rows : \A s \in rows : s <= r}
FoundRow(status, old, new) == Newest(Matching(status, old, new))

FreshValidated == {r \in DOMAIN ledger : ledger[r].status = "validated" /\ ~ledger[r].stale}

(* Seeded bug: the outcome is stored under a name the table does not know. *)
BugResolved(rows, outcome) ==
  [r \in DOMAIN ledger |->
    IF r \in rows THEN [ledger[r] EXCEPT !.status = "resolved"] ELSE ledger[r]]

(* _resolve_updates(), for the rows a hook reports on *)
Resolved(rows, outcome) ==
  [r \in DOMAIN ledger |->
    IF r \in rows THEN [ledger[r] EXCEPT !.status = outcome] ELSE ledger[r]]
SpentBy(rows) == UNION {ledger[r].spent : r \in rows}

ToAbort(old, new) ==
  IF Matching("prepared", old, new) # {} THEN FoundRow("prepared", old, new)
                                         ELSE FoundRow("validated", old, new)

(* Seeded bug: the claim excuses missing approvals. *)
BugAllowedByClaim(who, old, new) == owner \in {who, NoOne}

(* evaluate_ref_update(): the branch is not frozen nor someone else's, and
   every operation has a usable approval. *)
Allowed(who, old, new) ==
  /\ owner \in {who, NoOne}
  /\ \A op \in Needs[<<old, new>>] : Usable(op) # {}
Granted(old, new) == UNION {Usable(op) : op \in Needs[<<old, new>>]}

(* Two updates a hook could take for one another *)
Alike(p, old, new) ==
  push[p].new = new /\ (push[p].old = old \/ Zero \in {push[p].old, old})
InFlight(p) == push[p].phase \notin {"idle", "connected", "failed", "moved"}

----------------------------------------------------------------------------
Init ==
  /\ ref \in Revs
  /\ lock = Free
  /\ owner = NoOne
  /\ push \in [Pushes -> {[phase |-> "idle", old |-> Zero, new |-> Zero, who |-> a,
                           row |-> 0, spent |-> {}] : a \in Agents}]
  /\ ledger = << >>
  /\ approvals = << >>

Step(p, phase) == push' = [push EXCEPT ![p].phase = phase]

(* Git advertises the ref to the pusher, who bases the push on that value. *)
Connect(p) ==
  /\ push[p].phase = "idle"
  /\ push' = [push EXCEPT ![p].phase = "connected", ![p].old = ref]
  /\ UNCHANGED <<ref, lock, owner, ledger, approvals>>

(* run_pre_receive() accepts the update and records it; nothing is spent. *)
PreReceive(p, new) ==
  LET old == push[p].old
  IN /\ push[p].phase = "connected"
     /\ new # old
     /\ MayRace \/ \A q \in Pushes \ {p} : ~(InFlight(q) /\ Alike(q, old, new))
     /\ Allowed(push[p].who, old, new)
     /\ push' = [push EXCEPT ![p].phase = "received", ![p].new = new]
     /\ ledger' = Append(ledger, [old |-> old, new |-> new, who |-> push[p].who,
                                  status |-> "validated", stale |-> FALSE, spent |-> {}])
     /\ UNCHANGED <<ref, lock, owner, approvals>>

(* Git locks the ref and verifies its old value. *)
LockRef(p) ==
  /\ push[p].phase = "received"
  /\ lock = Free
  /\ ref = push[p].old
  /\ lock' = p
  /\ Step(p, "locked")
  /\ UNCHANGED <<ref, owner, ledger, approvals>>

(* Git gives up before any hook runs: the lock is taken or the ref moved. *)
LockFails(p) ==
  /\ push[p].phase = "received"
  /\ lock # Free \/ ref # push[p].old
  /\ Step(p, "failed")
  /\ UNCHANGED <<ref, lock, owner, ledger, approvals>>

(* _prepare_updates() re-validates under the lock and spends the approvals. *)
PreparedHook(p) ==
  /\ push[p].phase = "locked"
  /\ \E r \in FoundRow("validated", push[p].old, push[p].new) :
       LET granted == Granted(ledger[r].old, ledger[r].new)
       IN /\ ledger[r].who = push[p].who
          /\ Allowed(push[p].who, ledger[r].old, ledger[r].new)
          /\ approvals' = Consume(granted)
          /\ ledger' = [ledger EXCEPT ![r].status = "prepared", ![r].spent = granted]
          /\ push' = [push EXCEPT ![p] =
               [@ EXCEPT !.phase = "prepared", !.row = r, !.spent = granted]]
  /\ UNCHANGED <<ref, lock, owner>>

(* It refuses, for a rule or because anything failed (a busy store): Git
   releases the lock, then runs the aborted hook. *)
PreparedRefused(p) ==
  /\ push[p].phase = "locked"
  /\ lock' = Free
  /\ Step(p, "aborting")
  /\ UNCHANGED <<ref, owner, ledger, approvals>>

Abort(old, new) ==
  LET rows == ToAbort(old, new)
  IN /\ ledger' = Resolved(rows, "aborted")
     /\ approvals' = Restore(SpentBy(rows))

AbortedHook(p) ==
  /\ push[p].phase = "aborting"
  /\ Abort(push[p].old, push[p].new)
  /\ Step(p, "failed")
  /\ UNCHANGED <<ref, lock, owner>>

(* Git moves the ref, which releases the lock, then runs the committed hook. *)
Commit(p) ==
  /\ push[p].phase = "prepared"
  /\ ref' = push[p].new
  /\ lock' = Free
  /\ Step(p, "landed")
  /\ UNCHANGED <<owner, ledger, approvals>>

CommittedHook(p) ==
  /\ push[p].phase = "landed"
  /\ ledger' = Resolved(FoundRow("prepared", push[p].old, push[p].new), "committed")
  /\ Step(p, "moved")
  /\ UNCHANGED <<ref, lock, owner, approvals>>

(* The outcome hook never runs, or cannot reach the store. *)
HookLost(p) ==
  /\ MayLose
  /\ \/ push[p].phase = "aborting" /\ Step(p, "failed")
     \/ push[p].phase = "landed" /\ Step(p, "moved")
  /\ UNCHANGED <<ref, lock, owner, ledger, approvals>>

(* Git dies under the lock, or fails to move the ref. *)
Die(p) ==
  /\ MayDie
  /\ push[p].phase \in {"locked", "prepared"}
  /\ Step(p, "dead")
  /\ UNCHANGED <<ref, lock, owner, ledger, approvals>>

(* Git's exit handlers, or an operator, remove the lock file. *)
CleanLock(p) ==
  /\ push[p].phase = "dead"
  /\ lock' = Free
  /\ Step(p, "failed")
  /\ UNCHANGED <<ref, owner, ledger, approvals>>

(* An unidentified update: a pass-through unless some validation of the ref is
   fresh.  Its own outcome hooks run too. *)
Maintain(old, new) ==
  /\ MayMaintain
  /\ lock = Free
  /\ ref # new
  /\ old \in {ref, Zero}
  /\ \/ /\ FreshValidated = {}
        /\ ref' = new
        /\ ledger' = Resolved(FoundRow("prepared", old, new), "committed")
        /\ UNCHANGED approvals
     \/ /\ FreshValidated # {}
        /\ Abort(old, new)
        /\ UNCHANGED ref
  /\ UNCHANGED <<lock, owner, push>>

----------------------------------------------------------------------------
(* Seeded bug: doctor does not wait for the outcome hook. *)
BugDoctorImpatient(r) ==
  /\ r \in DOMAIN ledger
  /\ ledger[r].status = "prepared"
  /\ lock = Free
  /\ \/ /\ ref = ledger[r].new
        /\ ledger' = Resolved({r}, "committed")
        /\ UNCHANGED approvals
     \/ /\ ref = ledger[r].old
        /\ ledger' = Resolved({r}, "aborted")
        /\ approvals' = Restore(ledger[r].spent)
  /\ UNCHANGED <<ref, lock, owner, push>>

(* Seeded bug: doctor repairs only updates that Git made. *)
BugDoctorHalf(r) ==
  /\ r \in DOMAIN ledger
  /\ ledger[r].status = "prepared" /\ ledger[r].stale
  /\ lock = Free
  /\ ref = ledger[r].new
  /\ ledger' = Resolved({r}, "committed")
  /\ UNCHANGED <<ref, lock, owner, push, approvals>>

(* doctor_ref_updates(): a stale prepared row is settled by what the unlocked
   ref shows. *)
Doctor(r) ==
  /\ r \in DOMAIN ledger
  /\ ledger[r].status = "prepared" /\ ledger[r].stale
  /\ lock = Free
  /\ \/ /\ ref = ledger[r].new
        /\ ledger' = Resolved({r}, "committed")
        /\ UNCHANGED approvals
     \/ /\ ref = ledger[r].old
        /\ ledger' = Resolved({r}, "aborted")
        /\ approvals' = Restore(ledger[r].spent)
  /\ UNCHANGED <<ref, lock, owner, push>>

(* VALIDATION_TTL_SECONDS pass for the rows up to r.  Unless hooks may be late,
   Git reports the outcome of an update sooner than that. *)
Age(r) ==
  /\ r \in DOMAIN ledger
  /\ ~ledger[r].stale
  /\ MayLose \/ \A p \in Pushes :
       push[p].phase \in {"prepared", "landed"} => push[p].row > r
  /\ ledger' = [s \in DOMAIN ledger |->
       IF s <= r THEN [ledger[s] EXCEPT !.stale = TRUE] ELSE ledger[s]]
  /\ UNCHANGED <<ref, lock, owner, push, approvals>>

(* request_approval() reuses a live instance. *)
Request(op) ==
  /\ Len(approvals) < MaxApprovals
  /\ LiveInstances(op) = {}
  /\ approvals' = Append(approvals, [op |-> op, status |-> "pending"])
  /\ UNCHANGED <<ref, lock, owner, push, ledger>>

(* vote() decides a live instance; one that is approved and no longer meets the
   policy is reopened by a vote, which may also deny it.  Whether it does meet
   the policy is Authority's question; here it may fall short at any moment. *)
Decide(a) ==
  /\ a \in DOMAIN approvals
  /\ approvals[a].status \in {"pending", "approved"}
  /\ \E outcome \in {"pending", "approved", "denied"} \ {approvals[a].status} :
       approvals' = [approvals EXCEPT ![a].status = outcome]
  /\ UNCHANGED <<ref, lock, owner, push, ledger>>

(* Claims and handoffs of the branch change (module Ownership). *)
OwnerChanges ==
  /\ owner' \in (Agents \cup {NoOne, Frozen}) \ {owner}
  /\ UNCHANGED <<ref, lock, push, ledger, approvals>>

Git(p) ==
  \/ LockRef(p) \/ LockFails(p) \/ PreparedHook(p) \/ PreparedRefused(p)
  \/ AbortedHook(p) \/ Commit(p) \/ CommittedHook(p) \/ CleanLock(p)

Next ==
  \/ \E p \in Pushes :
       \/ Connect(p) \/ Git(p) \/ HookLost(p) \/ Die(p)
       \/ \E new \in Revs : PreReceive(p, new)
  \/ \E line \in Revs \X Revs : Maintain(line[1], line[2])
  \/ \E r \in DOMAIN ledger : Doctor(r) \/ Age(r)
  \/ \E op \in Ops : Request(op)
  \/ \E a \in DOMAIN approvals : Decide(a)
  \/ OwnerChanges

Spec == Init /\ [][Next]_vars

(* Git finishes what it started, time passes, and doctor --repair is run. *)
Fairness ==
  /\ \A p \in Pushes : WF_vars(Git(p) \/ HookLost(p))
  /\ \A r \in 1..Cardinality(Pushes) : WF_vars(Age(r)) /\ WF_vars(Doctor(r))

FairSpec == Spec /\ Fairness

----------------------------------------------------------------------------
(* Properties. *)

Moved(p) == push[p].phase \in {"landed", "moved"}

(* One approval never authorizes two updates (README.md, "What is never
   possible"): no two pushes that moved the ref were paid with one instance. *)
ApprovalAuthorizesOnce ==
  \A p, q \in Pushes : p # q /\ Moved(p) /\ Moved(q) => push[p].spent \cap push[q].spent = {}

(* The move Git makes is the move that was paid for: the approvals a push spent
   cover every operation of the change from the value the ref really has. *)
MovesArePaid ==
  [][\A p \in Pushes :
       push[p].phase = "prepared" /\ push'[p].phase = "landed"
         => Needs[<<ref, ref'>>] \subseteq {approvals[a].op : a \in push[p].spent}]_vars

(* A push is one purchase: the ref moves and the approvals of that very move
   are spent in one step of PaidRef, the moment Git moves the ref.  Until then
   what the prepared hook consumed is only held back; what moved the ref stays
   spent. *)
Purse ==
  [a \in DOMAIN approvals |->
    [op |-> approvals[a].op,
     status |-> IF \E p \in Pushes : Moved(p) /\ a \in push[p].spent THEN "spent"
                ELSE IF approvals[a].status = "consumed" THEN "approved"
                ELSE approvals[a].status]]
PR == INSTANCE PaidRef WITH purse <- Purse
ImplementsPaidRef == PR!PaidSpec

(* What Git did is never recorded as undone: the row of a push that moved the
   ref is not `aborted'. *)
LedgerTellsTruth ==
  \A p \in Pushes : Moved(p) => ledger[push[p].row].status \in {"prepared", "committed"}

(* Rows are found by value and may belong to somebody else's identical push;
   still no two pushes ever rest on one row, and each on one of its own pusher
   and of the value it pushed. *)
RowsAreNotShared ==
  \A p \in Pushes : push[p].row # 0 =>
    /\ ledger[push[p].row].who = push[p].who
    /\ ledger[push[p].row].new = push[p].new
    /\ \A q \in Pushes \ {p} : push[q].row # push[p].row

(* The tables balance: an approval is consumed exactly by one update that is
   prepared or committed, unless another instance was live when its update was
   aborted. *)
SpendingBalances ==
  /\ \A r \in DOMAIN ledger : ledger[r].status \in {"prepared", "committed"} =>
       \A a \in ledger[r].spent :
         /\ approvals[a].status = "consumed"
         /\ \A s \in DOMAIN ledger \ {r} :
              a \in ledger[s].spent => ledger[s].status = "aborted"
  /\ \A a \in DOMAIN approvals : approvals[a].status = "consumed" =>
       \/ \E r \in DOMAIN ledger :
            a \in ledger[r].spent /\ ledger[r].status \in {"prepared", "committed"}
       \/ InstancesOf(approvals[a].op) # {a}

(* An operation never has two live approvals, through any number of aborts. *)
OneLiveInstance ==
  \A op \in Ops : \A a, b \in LiveInstances(op) : a = b

(* A dead push does not keep its approvals for ever: they come back, unless
   the ref moved on or a newer instance took over. *)
NothingSpentForNothing ==
  \A p \in Pushes : \A a \in 1..MaxApprovals :
    (push[p].phase = "failed" /\ a \in push[p].spent)
      ~> (a \in DOMAIN approvals =>
            \/ approvals[a].status # "consumed"
            \/ InstancesOf(approvals[a].op) # {a}
            \/ ref # push[p].old)

(* Every update that was prepared is settled in the end, or its ref moved
   elsewhere and doctor reports it. *)
PreparedIsSettled ==
  \A r \in 1..Cardinality(Pushes) :
    (r \in DOMAIN ledger /\ ledger[r].status = "prepared")
      ~> (r \in DOMAIN ledger =>
            \/ ledger[r].status # "prepared"
            \/ ref \notin {ledger[r].old, ledger[r].new})

=============================================================================
