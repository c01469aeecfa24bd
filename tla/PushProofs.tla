----------------------------- MODULE PushProofs -----------------------------
(***************************************************************************)
(* A push is one purchase.  Three environments, each a condition on the    *)
(* constants: in any one the ref never changes unpaid; in a calm one no    *)
(* creation is unpaid either; in a prompt one, where hooks arrive but Git  *)
(* may die, PushGate implements PaidRef.                                   *)
(***************************************************************************)
EXTENDS PushGateProofs

Calm == ~MayRace /\ ~MayMaintain
Prompt == Calm /\ ~MayLose

LEMMA Typed ==
  ASSUME IInv
  PROVE  /\ Len(ledger) \in Nat /\ DOMAIN ledger = 1..Len(ledger)
         /\ ledger \in [DOMAIN ledger -> Row]
         /\ Len(approvals) \in Nat /\ DOMAIN approvals = 1..Len(approvals)
         /\ approvals \in [DOMAIN approvals -> Approval]
         /\ push \in [Pushes -> Push]
BY LenProperties DEF IInv, TypeOK

-----------------------------------------------------------------------------
(* What a step does to the ledger *)

SameUpdate(r) ==
  ledger'[r].old = ledger[r].old /\ ledger'[r].new = ledger[r].new
    /\ ledger'[r].who = ledger[r].who

Settles(rows, outcome) ==
  /\ DOMAIN ledger' = DOMAIN ledger
  /\ \A r \in DOMAIN ledger :
       /\ SameUpdate(r) /\ ledger'[r].spent = ledger[r].spent
       /\ ledger'[r].stale = ledger[r].stale
       /\ ledger'[r].status = IF r \in rows THEN outcome ELSE ledger[r].status

LEMMA ResolvedSettles ==
  ASSUME IInv, NEW rows, NEW outcome \in {"committed", "aborted"},
         ledger' = Resolved(rows, outcome)
  PROVE  Settles(rows, outcome)
<1>1. \A r \in DOMAIN ledger : ledger[r] \in Row
  BY Typed
<1> QED
  BY <1>1 DEF Resolved, Row, Settles, SameUpdate

(* What the prepared hook finds and writes *)
Prepares(p, r) ==
  /\ r \in DOMAIN ledger /\ ledger[r].status = "validated" /\ ~ledger[r].stale
  /\ ledger[r].new = push[p].new /\ ledger[r].who = push[p].who
  /\ ledger[r].old = push[p].old \/ push[p].old = Zero
  /\ DOMAIN ledger' = DOMAIN ledger
  /\ SameUpdate(r) /\ ledger'[r].stale = ledger[r].stale
  /\ ledger'[r].status = "prepared"
  /\ ledger'[r].spent = Granted(ledger[r].old, ledger[r].new)
  /\ \A s \in DOMAIN ledger \ {r} : ledger'[s] = ledger[s]
  /\ push'[p].phase = "prepared" /\ push'[p].row = r
  /\ push'[p].old = push[p].old /\ push'[p].new = push[p].new /\ push'[p].who = push[p].who
  /\ push'[p].spent = Granted(ledger[r].old, ledger[r].new)
  /\ \A q \in Pushes \ {p} : push'[q] = push[q]

LEMMA PreparedHookDoes ==
  ASSUME IInv, NEW p \in Pushes, PreparedHook(p)
  PROVE  \E r \in FoundRow("validated", push[p].old, push[p].new) :
           /\ Prepares(p, r)
           /\ Allowed(push[p].who, ledger[r].old, ledger[r].new)
           /\ approvals' = Consume(Granted(ledger[r].old, ledger[r].new))
<1>1. PICK r \in FoundRow("validated", push[p].old, push[p].new) :
        LET granted == Granted(ledger[r].old, ledger[r].new)
        IN /\ ledger[r].who = push[p].who
           /\ Allowed(push[p].who, ledger[r].old, ledger[r].new)
           /\ approvals' = Consume(granted)
           /\ ledger' = [ledger EXCEPT ![r].status = "prepared", ![r].spent = granted]
           /\ push' = [push EXCEPT ![p] =
                [@ EXCEPT !.phase = "prepared", !.row = r, !.spent = granted]]
  BY DEF PreparedHook
<1> DEFINE granted == Granted(ledger[r].old, ledger[r].new)
<1> HIDE DEF granted
<1>2. /\ ledger' = [ledger EXCEPT ![r].status = "prepared", ![r].spent = granted]
      /\ push' = [push EXCEPT ![p] =
           [@ EXCEPT !.phase = "prepared", !.row = r, !.spent = granted]]
  BY <1>1 DEF granted
<1>3. r \in DOMAIN ledger /\ ledger[r].status = "validated" /\ ~ledger[r].stale
      /\ ledger[r].new = push[p].new /\ ledger[r].who = push[p].who
      /\ (ledger[r].old = push[p].old \/ push[p].old = Zero)
  BY <1>1 DEF FoundRow, Newest, Matching
<1>4. ledger[r] \in Row /\ push[p] \in Push /\ push \in [Pushes -> Push]
  BY <1>3, Typed
<1>5. /\ DOMAIN ledger' = DOMAIN ledger
      /\ SameUpdate(r) /\ ledger'[r].stale = ledger[r].stale
      /\ ledger'[r].status = "prepared" /\ ledger'[r].spent = granted
      /\ \A s \in DOMAIN ledger \ {r} : ledger'[s] = ledger[s]
  BY <1>2, <1>3, <1>4 DEF Row, SameUpdate
<1>6. /\ push'[p].phase = "prepared" /\ push'[p].row = r
      /\ push'[p].old = push[p].old /\ push'[p].new = push[p].new
      /\ push'[p].who = push[p].who /\ push'[p].spent = granted
      /\ \A q \in Pushes \ {p} : push'[q] = push[q]
  BY <1>2, <1>4 DEF Push
<1>7. Prepares(p, r)
  BY <1>3, <1>5, <1>6 DEF Prepares, granted
<1> QED
  BY <1>1, <1>7

(* The row that pre-receive adds *)
LEMMA PreReceiveDoes ==
  ASSUME IInv, NEW p \in Pushes, NEW new \in Revs, PreReceive(p, new)
  PROVE  /\ DOMAIN ledger' = DOMAIN ledger \cup {Len(ledger) + 1}
         /\ \A r \in DOMAIN ledger : ledger'[r] = ledger[r] /\ r < Len(ledger) + 1
         /\ Len(ledger) + 1 \notin DOMAIN ledger
         /\ ledger'[Len(ledger) + 1].old = push[p].old
         /\ ledger'[Len(ledger) + 1].new = new
         /\ ledger'[Len(ledger) + 1].who = push[p].who
         /\ ledger'[Len(ledger) + 1].status = "validated"
         /\ ~ledger'[Len(ledger) + 1].stale
         /\ push'[p].phase = "received" /\ push'[p].new = new
         /\ push'[p].old = push[p].old /\ push'[p].who = push[p].who
         /\ push'[p].row = push[p].row /\ push'[p].spent = push[p].spent
         /\ \A q \in Pushes \ {p} : push'[q] = push[q]
<1> DEFINE row == [old |-> push[p].old, new |-> new, who |-> push[p].who,
                   status |-> "validated", stale |-> FALSE, spent |-> {}]
<1>1. row \in Row /\ push \in [Pushes -> Push] /\ ledger \in Seq(Row)
  BY Typed DEF IInv, TypeOK, Push, Row
<1>2. ledger' = Append(ledger, row)
  BY DEF PreReceive
<1>3. push' = [push EXCEPT ![p].phase = "received", ![p].new = new]
  BY DEF PreReceive
<1> HIDE DEF row
<1>4. /\ DOMAIN ledger' = DOMAIN ledger \cup {Len(ledger) + 1}
      /\ \A r \in DOMAIN ledger : ledger'[r] = ledger[r] /\ r < Len(ledger) + 1
      /\ Len(ledger) + 1 \notin DOMAIN ledger
      /\ ledger'[Len(ledger) + 1] = row
  BY <1>1, <1>2, AppendProperties, LenProperties
<1>5. /\ push'[p].phase = "received" /\ push'[p].new = new
      /\ push'[p].old = push[p].old /\ push'[p].who = push[p].who
      /\ push'[p].row = push[p].row /\ push'[p].spent = push[p].spent
      /\ \A q \in Pushes \ {p} : push'[q] = push[q]
  BY <1>1, <1>3 DEF Push
<1>6. /\ row.old = push[p].old /\ row.new = new /\ row.who = push[p].who
      /\ row.status = "validated" /\ ~row.stale
  BY DEF row
<1> QED
  BY <1>4, <1>5, <1>6

Ages(r) ==
  /\ DOMAIN ledger' = DOMAIN ledger
  /\ \A s \in DOMAIN ledger :
       /\ SameUpdate(s) /\ ledger'[s].spent = ledger[s].spent
       /\ ledger'[s].status = ledger[s].status
       /\ ledger'[s].stale <=> (s <= r \/ ledger[s].stale)

LEMMA AgeDoes ==
  ASSUME IInv, NEW r \in DOMAIN ledger, Age(r)
  PROVE  Ages(r)
<1>1. \A s \in DOMAIN ledger : ledger[s] \in Row
  BY Typed
<1> QED
  BY <1>1 DEF Age, Row, Ages, SameUpdate

(* A row is for one update for ever, and what it spent is settled when it
   leaves "validated". *)
Stays(r) ==
  /\ r \in DOMAIN ledger' /\ SameUpdate(r)
  /\ ledger[r].stale => ledger'[r].stale
  /\ ledger[r].status # "validated" => ledger'[r].spent = ledger[r].spent

LEMMA RowsStay ==
  ASSUME IInv, [Next]_vars
  PROVE  \A r \in DOMAIN ledger : Stays(r)
<1>1. CASE ledger' = ledger
  BY <1>1 DEF Stays, SameUpdate
<1>2. ASSUME NEW rows, NEW outcome \in {"committed", "aborted"},
             ledger' = Resolved(rows, outcome)
      PROVE  \A r \in DOMAIN ledger : Stays(r)
  BY <1>2, ResolvedSettles DEF Settles, Stays
<1>3. ASSUME NEW p \in Pushes, PreparedHook(p)
      PROVE  \A r \in DOMAIN ledger : Stays(r)
  BY <1>3, PreparedHookDoes DEF Prepares, Stays, SameUpdate
<1>4. ASSUME NEW p \in Pushes, NEW new \in Revs, PreReceive(p, new)
      PROVE  \A r \in DOMAIN ledger : Stays(r)
  BY <1>4, PreReceiveDoes DEF Stays, SameUpdate
<1>5. ASSUME NEW r \in DOMAIN ledger, Age(r)
      PROVE  \A s \in DOMAIN ledger : Stays(s)
  BY <1>5, AgeDoes DEF Ages, Stays
<1>6. ASSUME NEW p \in Pushes, AbortedHook(p) \/ CommittedHook(p)
      PROVE  \A r \in DOMAIN ledger : Stays(r)
  BY <1>2, <1>6 DEF AbortedHook, CommittedHook, Abort
<1>7. ASSUME NEW line \in Revs \X Revs, Maintain(line[1], line[2])
      PROVE  \A r \in DOMAIN ledger : Stays(r)
  BY <1>2, <1>7 DEF Maintain, Abort
<1>8. ASSUME NEW r \in DOMAIN ledger, Doctor(r)
      PROVE  \A s \in DOMAIN ledger : Stays(s)
  BY <1>2, <1>8 DEF Doctor
<1>9. ASSUME NEW p \in Pushes,
             \/ Connect(p) \/ LockRef(p) \/ LockFails(p) \/ PreparedRefused(p)
             \/ Commit(p) \/ HookLost(p) \/ Die(p) \/ CleanLock(p)
      PROVE  ledger' = ledger
  BY <1>9 DEF Connect, LockRef, LockFails, PreparedRefused, Commit, HookLost, Die, CleanLock
<1>10. (\E op \in Ops : Request(op)) \/ (\E a \in DOMAIN approvals : Decide(a)) \/ OwnerChanges
         \/ UNCHANGED vars => ledger' = ledger
  BY DEF Request, Decide, OwnerChanges, vars
<1> QED
  BY <1>1, <1>3, <1>4, <1>5, <1>6, <1>7, <1>8, <1>9, <1>10 DEF Next, Git

(* An instance is for one operation for ever. *)
LEMMA InstancesStay ==
  ASSUME IInv, [Next]_vars
  PROVE  \A a \in DOMAIN approvals : a \in DOMAIN approvals' /\ approvals'[a].op = approvals[a].op
<1> DEFINE Stay == \A a \in DOMAIN approvals :
                     a \in DOMAIN approvals' /\ approvals'[a].op = approvals[a].op
<1>1. approvals \in Seq(Approval)
  BY DEF IInv, TypeOK
<1>2. ASSUME NEW paid, approvals' = Restore(paid) \/ approvals' = Consume(paid)
      PROVE  Stay
  BY <1>1, <1>2, RestoreRows, ConsumeRows
<1>3. ASSUME NEW op \in Ops, Request(op)  PROVE Stay
  <2>1. [op |-> op, status |-> "pending"] \in Approval
    BY DEF Approval
  <2> QED
    BY <1>1, <1>3, <2>1, AppendProperties, LenProperties DEF Request
<1>4. ASSUME NEW a \in DOMAIN approvals, Decide(a)  PROVE Stay
  BY <1>4, Typed DEF Decide, Approval
<1>5. ASSUME NEW p \in Pushes, PreparedHook(p)  PROVE Stay
  BY <1>2, <1>5, PreparedHookDoes
<1>6. ASSUME NEW p \in Pushes, AbortedHook(p)  PROVE Stay
  BY <1>2, <1>6 DEF AbortedHook, Abort
<1>7. ASSUME NEW line \in Revs \X Revs, Maintain(line[1], line[2])  PROVE Stay
  BY <1>2, <1>7 DEF Maintain, Abort
<1>8. ASSUME NEW r \in DOMAIN ledger, Doctor(r)  PROVE Stay
  BY <1>2, <1>8 DEF Doctor
<1>9. ASSUME NEW p \in Pushes,
             \/ Connect(p) \/ LockRef(p) \/ LockFails(p) \/ PreparedRefused(p) \/ CommittedHook(p)
             \/ Commit(p) \/ HookLost(p) \/ Die(p) \/ CleanLock(p) \/ \E new \in Revs : PreReceive(p, new)
      PROVE  approvals' = approvals
  BY <1>9 DEF Connect, LockRef, LockFails, PreparedRefused, CommittedHook, Commit, HookLost,
              Die, CleanLock, PreReceive
<1>10. (\E r \in DOMAIN ledger : Age(r)) \/ OwnerChanges \/ UNCHANGED vars => approvals' = approvals
  BY DEF Age, OwnerChanges, vars
<1> QED
  BY <1>3, <1>4, <1>5, <1>6, <1>7, <1>8, <1>9, <1>10 DEF Next, Git

-----------------------------------------------------------------------------
(* What holds in every environment *)

(* Rows grow old in the order they were made. *)
AgeOrdered ==
  \A r, s \in DOMAIN ledger : r < s /\ ledger[s].stale => ledger[r].stale

LEMMA AgeOrderedNext ==
  ASSUME IInv, AgeOrdered, [Next]_vars
  PROVE  AgeOrdered'
<1>1. DOMAIN ledger \subseteq Nat
  BY Typed
<1>2. ASSUME DOMAIN ledger' = DOMAIN ledger,
             \A r \in DOMAIN ledger : ledger'[r].stale = ledger[r].stale
      PROVE  AgeOrdered'
  BY <1>2 DEF AgeOrdered
<1>3. ASSUME NEW rows, NEW outcome \in {"committed", "aborted"},
             ledger' = Resolved(rows, outcome)
      PROVE  AgeOrdered'
  BY <1>2, <1>3, ResolvedSettles DEF Settles
<1>4. ASSUME NEW p \in Pushes, PreparedHook(p)
      PROVE  AgeOrdered'
  BY <1>2, <1>4, PreparedHookDoes DEF Prepares
<1>5. ASSUME NEW p \in Pushes, NEW new \in Revs, PreReceive(p, new)
      PROVE  AgeOrdered'
  <2>1. ~ledger'[Len(ledger) + 1].stale
    BY <1>5, PreReceiveDoes
  <2>2. \A r \in DOMAIN ledger : ledger'[r] = ledger[r] /\ r < Len(ledger) + 1
    BY <1>5, PreReceiveDoes
  <2>3. DOMAIN ledger' = DOMAIN ledger \cup {Len(ledger) + 1}
    BY <1>5, PreReceiveDoes
  <2> QED
    BY <1>1, <2>1, <2>2, <2>3 DEF AgeOrdered
<1>6. ASSUME NEW r \in DOMAIN ledger, Age(r)
      PROVE  AgeOrdered'
  <2>1. Ages(r)
    BY <1>6, AgeDoes
  <2> QED
    BY <1>1, <2>1 DEF Ages, AgeOrdered
<1>7. ASSUME NEW p \in Pushes, AbortedHook(p) \/ CommittedHook(p)
      PROVE  AgeOrdered'
  BY <1>3, <1>7 DEF AbortedHook, CommittedHook, Abort
<1>8. ASSUME NEW line \in Revs \X Revs, Maintain(line[1], line[2])
      PROVE  AgeOrdered'
  BY <1>3, <1>8 DEF Maintain, Abort
<1>9. ASSUME NEW r \in DOMAIN ledger, Doctor(r)
      PROVE  AgeOrdered'
  BY <1>3, <1>9 DEF Doctor
<1>10. ASSUME NEW p \in Pushes,
              \/ Connect(p) \/ LockRef(p) \/ LockFails(p) \/ PreparedRefused(p)
              \/ Commit(p) \/ HookLost(p) \/ Die(p) \/ CleanLock(p)
       PROVE  AgeOrdered'
  BY <1>2, <1>10 DEF Connect, LockRef, LockFails, PreparedRefused, Commit, HookLost, Die, CleanLock
<1>11. (\E op \in Ops : Request(op)) \/ (\E a \in DOMAIN approvals : Decide(a)) \/ OwnerChanges
         \/ UNCHANGED vars => AgeOrdered'
  BY <1>2 DEF Request, Decide, OwnerChanges, vars
<1> QED
  BY <1>4, <1>5, <1>6, <1>7, <1>8, <1>9, <1>10, <1>11 DEF Next, Git

(* One push at a time is under the lock, and the ref is what it expects. *)
UnderLock == {"locked", "prepared", "dead"}
LockHeld ==
  \A p \in Pushes :
    /\ lock = p <=> push[p].phase \in UnderLock
    /\ push[p].phase \in UnderLock => ref = push[p].old

LEMMA LockHeldNext ==
  ASSUME IInv, LockHeld, [Next]_vars
  PROVE  LockHeld'
<1>1. push \in [Pushes -> Push] /\ Free \notin Pushes
  BY Typed, NamesAssumption
<1>2. ASSUME NEW p \in Pushes, NEW phase, Step(p, phase)
      PROVE  /\ push'[p].phase = phase /\ push'[p].old = push[p].old
             /\ \A q \in Pushes \ {p} : push'[q] = push[q]
  BY <1>1, <1>2 DEF Step, Push
<1>3. ASSUME NEW p \in Pushes, PreparedHook(p)  PROVE LockHeld'
  <2>1. UNCHANGED <<lock, ref>> /\ push[p].phase = "locked"
    BY <1>3 DEF PreparedHook
  <2>2. /\ push'[p].phase = "prepared" /\ push'[p].old = push[p].old
        /\ \A q \in Pushes \ {p} : push'[q] = push[q]
    BY <1>3, PreparedHookDoes DEF Prepares
  <2> QED
    BY <2>1, <2>2 DEF LockHeld, UnderLock
<1>4. ASSUME NEW p \in Pushes, NEW new \in Revs, PreReceive(p, new)  PROVE LockHeld'
  <2>1. UNCHANGED <<lock, ref>> /\ push[p].phase = "connected"
    BY <1>4 DEF PreReceive
  <2>2. /\ push'[p].phase = "received"
        /\ \A q \in Pushes \ {p} : push'[q] = push[q]
    BY <1>1, <1>4, PreReceiveDoes DEF Push
  <2> QED
    BY <2>1, <2>2 DEF LockHeld, UnderLock
<1>5. ASSUME NEW p \in Pushes, Connect(p)  PROVE LockHeld'
  BY <1>1, <1>5 DEF Connect, Push, LockHeld, UnderLock
<1>6. ASSUME NEW p \in Pushes, LockRef(p)  PROVE LockHeld'
  BY <1>1, <1>2, <1>6 DEF LockRef, LockHeld, UnderLock
<1>7. ASSUME NEW p \in Pushes, LockFails(p) \/ AbortedHook(p) \/ CommittedHook(p) \/ HookLost(p)
      PROVE  LockHeld'
  BY <1>2, <1>7 DEF LockFails, AbortedHook, CommittedHook, HookLost, LockHeld, UnderLock
<1>8. ASSUME NEW p \in Pushes, PreparedRefused(p) \/ CleanLock(p) \/ Commit(p)
      PROVE  LockHeld'
  BY <1>1, <1>2, <1>8 DEF PreparedRefused, CleanLock, Commit, LockHeld, UnderLock
<1>9. ASSUME NEW p \in Pushes, Die(p)  PROVE LockHeld'
  BY <1>2, <1>9 DEF Die, LockHeld, UnderLock
<1>10. ASSUME NEW line \in Revs \X Revs, Maintain(line[1], line[2])  PROVE LockHeld'
  BY <1>1, <1>10 DEF Maintain, LockHeld
<1>11. (\E r \in DOMAIN ledger : Doctor(r) \/ Age(r)) \/ (\E op \in Ops : Request(op))
         \/ (\E a \in DOMAIN approvals : Decide(a)) \/ OwnerChanges \/ UNCHANGED vars
         => LockHeld'
  BY DEF Doctor, Age, Request, Decide, OwnerChanges, vars, LockHeld
<1> QED
  BY <1>3, <1>4, <1>5, <1>6, <1>7, <1>8, <1>9, <1>10, <1>11 DEF Next, Git

(* A prepared push has paid for the update of its row, exactly. *)
PaidFor(p) ==
  /\ push[p].spent \subseteq DOMAIN approvals
  /\ push[p].spent = ledger[push[p].row].spent
  /\ ledger[push[p].row].old = push[p].old \/ push[p].old = Zero
  /\ {approvals[a].op : a \in push[p].spent}
       = Needs[<<ledger[push[p].row].old, push[p].new>>]
PaidRows ==
  \A p \in Pushes :
    /\ push[p].phase \in {"prepared", "landed", "moved"} => push[p].row # 0
    /\ push[p].row # 0 => PaidFor(p)

(* What the gate grants is what the update needs. *)
LEMMA GrantedPays ==
  ASSUME NEW who, NEW old, NEW new, Allowed(who, old, new)
  PROVE  {approvals[a].op : a \in Granted(old, new)} = Needs[<<old, new>>]
BY DEF Allowed, Granted, Usable, InstancesOf

(* A push that goes on, and keeps its row *)
LEMMA PaidStays ==
  ASSUME IInv, RowsInv, PaidRows, [Next]_vars, NEW p \in Pushes, push[p].row # 0,
         push'[p].row = push[p].row, push'[p].spent = push[p].spent,
         push'[p].old = push[p].old, push'[p].new = push[p].new
  PROVE  PaidFor(p)'
<1> DEFINE r == push[p].row
<1>1. r \in DOMAIN ledger /\ ledger[r].status # "validated"
  BY Zenon DEF RowsInv
<1>2. r \in DOMAIN ledger' /\ ledger'[r].old = ledger[r].old /\ ledger'[r].spent = ledger[r].spent
  BY <1>1, RowsStay DEF Stays, SameUpdate
<1>3. PaidFor(p)
  BY DEF PaidRows
<1>4. \A a \in push[p].spent : a \in DOMAIN approvals' /\ approvals'[a].op = approvals[a].op
  BY <1>3, InstancesStay DEF PaidFor
<1> QED
  BY <1>2, <1>3, <1>4 DEF PaidFor

LEMMA PaidRowsNext ==
  ASSUME IInv, RowsInv, PaidRows, [Next]_vars
  PROVE  PaidRows'
<1> DEFINE Late == {"prepared", "landed", "moved"}
           GoesOn(q) == /\ push'[q].row = push[q].row /\ push'[q].spent = push[q].spent
                        /\ push[q].row # 0 => push'[q].old = push[q].old /\ push'[q].new = push[q].new
                        /\ push'[q].phase \in Late => push[q].phase \in Late
<1>1. push \in [Pushes -> Push]
  BY Typed
<1>2. ASSUME \A q \in Pushes : GoesOn(q)
      PROVE  PaidRows'
  BY <1>2, PaidStays DEF PaidRows
<1>3. ASSUME NEW p \in Pushes, NEW phase, Step(p, phase), phase \in Late => push[p].phase \in Late
      PROVE  PaidRows'
  <2>1. \A q \in Pushes : GoesOn(q)
    BY <1>1, <1>3 DEF Step, Push
  <2> QED
    BY <1>2, <2>1
<1>4. ASSUME NEW p \in Pushes, PreparedHook(p)
      PROVE  PaidRows'
  <2>1. PICK r : /\ Prepares(p, r)
                 /\ Allowed(push[p].who, ledger[r].old, ledger[r].new)
                 /\ approvals' = Consume(Granted(ledger[r].old, ledger[r].new))
    BY <1>4, PreparedHookDoes
  <2> DEFINE granted == Granted(ledger[r].old, ledger[r].new)
  <2>2. granted \subseteq DOMAIN approvals
    BY GrantedInstances
  <2>3. {approvals[a].op : a \in granted} = Needs[<<ledger[r].old, push[p].new>>]
    BY <2>1, GrantedPays DEF Prepares
  <2>4. \A a \in granted : a \in DOMAIN approvals' /\ approvals'[a].op = approvals[a].op
    BY <2>2, InstancesStay
  <2> HIDE DEF granted
  <2>5. PaidFor(p)'
    <3>1. /\ push'[p].spent = granted /\ ledger'[r].spent = granted /\ push'[p].row = r
          /\ ledger'[r].old = ledger[r].old
          /\ push'[p].old = push[p].old /\ push'[p].new = push[p].new
          /\ ledger[r].old = push[p].old \/ push[p].old = Zero
      BY <2>1 DEF Prepares, SameUpdate, granted
    <3> QED
      BY <2>3, <2>4, <3>1 DEF PaidFor
  <2>6. push'[p].row # 0
    <3>1. r \in DOMAIN ledger /\ push'[p].row = r
      BY <2>1 DEF Prepares
    <3> QED
      BY <3>1, Typed
  <2>7. \A q \in Pushes \ {p} : push'[q] = push[q]
    BY <2>1 DEF Prepares
  <2>8. ASSUME NEW q \in Pushes \ {p}
        PROVE  /\ push'[q].phase \in Late => push'[q].row # 0
               /\ push'[q].row # 0 => PaidFor(q)'
    BY <2>7, PaidStays DEF PaidRows
  <2> QED
    BY <2>5, <2>6, <2>8 DEF PaidRows
<1>5. ASSUME NEW p \in Pushes, NEW new \in Revs, PreReceive(p, new)
      PROVE  PaidRows'
  <2>1. push[p].row = 0 /\ push[p] \in Push
    BY <1>1, <1>5 DEF PreReceive, RowsInv
  <2>2. \A q \in Pushes : GoesOn(q)
    BY <1>5, <2>1, PreReceiveDoes DEF Push
  <2> QED
    BY <1>2, <2>2
<1>6. ASSUME NEW p \in Pushes, Connect(p)
      PROVE  PaidRows'
  <2>1. push[p].row = 0 /\ push[p] \in Push
    BY <1>1, <1>6 DEF Connect, RowsInv
  <2>2. \A q \in Pushes : GoesOn(q)
    BY <1>1, <1>6, <2>1 DEF Connect, Push
  <2> QED
    BY <1>2, <2>2
<1>7. ASSUME NEW p \in Pushes,
             \/ LockRef(p) \/ LockFails(p) \/ PreparedRefused(p) \/ AbortedHook(p)
             \/ Commit(p) \/ CommittedHook(p) \/ HookLost(p) \/ Die(p) \/ CleanLock(p)
      PROVE  PaidRows'
  BY <1>3, <1>7 DEF LockRef, LockFails, PreparedRefused, AbortedHook, Commit, CommittedHook,
                    HookLost, Die, CleanLock
<1>8. (\E line \in Revs \X Revs : Maintain(line[1], line[2]))
        \/ (\E r \in DOMAIN ledger : Doctor(r) \/ Age(r)) \/ (\E op \in Ops : Request(op))
        \/ (\E a \in DOMAIN approvals : Decide(a)) \/ OwnerChanges \/ UNCHANGED vars
        => push' = push
  BY DEF Maintain, Doctor, Age, Request, Decide, OwnerChanges, vars
<1>9. push' = push => PaidRows'
  BY <1>2
<1> QED
  BY <1>4, <1>5, <1>6, <1>7, <1>8, <1>9 DEF Next, Git

(* An update that passed pre-receive changes the ref. *)
Changes ==
  \A p \in Pushes : push[p].phase \notin {"idle", "connected"} => push[p].new # push[p].old

LEMMA ChangesNext ==
  ASSUME IInv, Changes, [Next]_vars
  PROVE  Changes'
<1> DEFINE GoesOn(q) == push'[q].phase \notin {"idle", "connected"} =>
                          /\ push[q].phase \notin {"idle", "connected"}
                          /\ push'[q].old = push[q].old /\ push'[q].new = push[q].new
<1>1. push \in [Pushes -> Push]
  BY Typed
<1>2. ASSUME \A q \in Pushes : GoesOn(q)  PROVE Changes'
  BY <1>2 DEF Changes
<1>3. ASSUME NEW p \in Pushes, NEW phase, Step(p, phase), push[p].phase \notin {"idle", "connected"}
      PROVE  Changes'
  <2>1. \A q \in Pushes : GoesOn(q)
    BY <1>1, <1>3 DEF Step, Push
  <2> QED
    BY <1>2, <2>1
<1>4. ASSUME NEW p \in Pushes, NEW new \in Revs, PreReceive(p, new)  PROVE Changes'
  <2>1. new # push[p].old
    BY <1>4 DEF PreReceive
  <2> QED
    BY <1>4, <2>1, PreReceiveDoes DEF Changes
<1>5. ASSUME NEW p \in Pushes, PreparedHook(p)  PROVE Changes'
  <2>1. push[p].phase = "locked"
    BY <1>5 DEF PreparedHook
  <2>2. \A q \in Pushes : GoesOn(q)
    BY <1>5, <2>1, PreparedHookDoes DEF Prepares
  <2> QED
    BY <1>2, <2>2
<1>6. ASSUME NEW p \in Pushes, Connect(p)  PROVE Changes'
  <2>1. \A q \in Pushes : GoesOn(q)
    BY <1>1, <1>6 DEF Connect, Push
  <2> QED
    BY <1>2, <2>1
<1>7. ASSUME NEW p \in Pushes,
             \/ LockRef(p) \/ LockFails(p) \/ PreparedRefused(p) \/ AbortedHook(p)
             \/ Commit(p) \/ CommittedHook(p) \/ HookLost(p) \/ Die(p) \/ CleanLock(p)
      PROVE  Changes'
  BY <1>3, <1>7 DEF LockRef, LockFails, PreparedRefused, AbortedHook, Commit, CommittedHook,
                    HookLost, Die, CleanLock
<1>8. (\E line \in Revs \X Revs : Maintain(line[1], line[2]))
        \/ (\E r \in DOMAIN ledger : Doctor(r) \/ Age(r)) \/ (\E op \in Ops : Request(op))
        \/ (\E a \in DOMAIN approvals : Decide(a)) \/ OwnerChanges \/ UNCHANGED vars
        => push' = push
  BY DEF Maintain, Doctor, Age, Request, Decide, OwnerChanges, vars
<1>9. push' = push => Changes'
  BY <1>2
<1> QED
  BY <1>4, <1>5, <1>6, <1>7, <1>8, <1>9 DEF Next, Git

GateInv == IInv /\ RowsInv /\ AgeOrdered /\ LockHeld /\ PaidRows /\ Changes

LEMMA GateInvariant == Spec => []GateInv
<1>1. Init => AgeOrdered /\ LockHeld /\ PaidRows /\ Changes /\ RowsInv /\ IInv
  <2> SUFFICES ASSUME Init PROVE AgeOrdered /\ LockHeld /\ PaidRows /\ Changes /\ RowsInv /\ IInv
    OBVIOUS
  <2>1. \A p \in Pushes : push[p].phase = "idle" /\ push[p].row = 0
    BY DEF Init
  <2>2. IInv /\ DOMAIN ledger = {} /\ lock = Free
    BY InvInit DEF Init
  <2>3. RowsInv
    BY <2>1 DEF RowsInv, RowsAreNotShared
  <2> QED
    BY <2>1, <2>2, <2>3, NamesAssumption DEF AgeOrdered, LockHeld, UnderLock, PaidRows, Changes
<1>2. GateInv /\ [Next]_vars => GateInv'
  BY InvNext, RowsNext, AgeOrderedNext, LockHeldNext, PaidRowsNext, ChangesNext DEF GateInv
<1> QED
  BY <1>1, <1>2, PTL DEF Spec, GateInv

(* A move that starts from a value is paid for, whatever happens: hooks lost *)
(* and late, Git dying, twin pushes, maintenance.                            *)
ChangesArePaid ==
  [][\A p \in Pushes :
       push[p].phase = "prepared" /\ push'[p].phase = "landed" /\ ref # Zero
         => Needs[<<ref, ref'>>] \subseteq {approvals[a].op : a \in push[p].spent}]_vars

(* Only Commit makes a prepared push land. *)
LEMMA LandingIsCommit ==
  ASSUME IInv, [Next]_vars, NEW p \in Pushes,
         push[p].phase = "prepared", push'[p].phase = "landed"
  PROVE  Commit(p)
<1>1. push \in [Pushes -> Push]
  BY Typed
<1>2. ASSUME NEW q \in Pushes, NEW phase, Step(q, phase), phase # "landed"  PROVE FALSE
  BY <1>1, <1>2 DEF Step, Push
<1>3. ASSUME NEW q \in Pushes, Connect(q)  PROVE FALSE
  BY <1>1, <1>3 DEF Connect, Push
<1>4. ASSUME NEW q \in Pushes, NEW new \in Revs, PreReceive(q, new)  PROVE FALSE
  BY <1>4, PreReceiveDoes
<1>5. ASSUME NEW q \in Pushes, PreparedHook(q)  PROVE FALSE
  BY <1>5, PreparedHookDoes DEF Prepares
<1>6. ASSUME NEW q \in Pushes,
             \/ LockRef(q) \/ LockFails(q) \/ PreparedRefused(q) \/ AbortedHook(q)
             \/ CommittedHook(q) \/ HookLost(q) \/ Die(q) \/ CleanLock(q)
      PROVE  FALSE
  BY <1>2, <1>6 DEF LockRef, LockFails, PreparedRefused, AbortedHook, CommittedHook,
                    HookLost, Die, CleanLock
<1>7. ASSUME NEW q \in Pushes, Commit(q)  PROVE q = p
  BY <1>1, <1>7 DEF Commit, Step, Push
<1>8. (\E line \in Revs \X Revs : Maintain(line[1], line[2]))
        \/ (\E r \in DOMAIN ledger : Doctor(r) \/ Age(r)) \/ (\E op \in Ops : Request(op))
        \/ (\E a \in DOMAIN approvals : Decide(a)) \/ OwnerChanges \/ UNCHANGED vars
        => push' = push
  BY DEF Maintain, Doctor, Age, Request, Decide, OwnerChanges, vars
<1> QED
  BY <1>3, <1>4, <1>5, <1>6, <1>7, <1>8 DEF Next, Git

(* What is paid at the moment of the move: the price of the row's update. *)
LEMMA MovePaid ==
  ASSUME GateInv, NEW p \in Pushes, Commit(p)
  PROVE  /\ push[p].row # 0 /\ PaidFor(p) /\ ref = push[p].old /\ ref' = push[p].new
         /\ ledger[push[p].row].old = ref => 
              {approvals[a].op : a \in push[p].spent} = Needs[<<ref, ref'>>]
<1>1. push[p].phase = "prepared" /\ ref' = push[p].new
  BY DEF Commit
<1>2. push[p].row # 0 /\ PaidFor(p)
  BY <1>1 DEF GateInv, PaidRows
<1>3. ref = push[p].old
  BY <1>1 DEF GateInv, LockHeld, UnderLock
<1> QED
  BY <1>1, <1>2, <1>3 DEF PaidFor

THEOREM ChangesPaid == Spec => ChangesArePaid
<1>1. GateInv /\ [Next]_vars =>
        [\A p \in Pushes :
           push[p].phase = "prepared" /\ push'[p].phase = "landed" /\ ref # Zero
             => Needs[<<ref, ref'>>] \subseteq {approvals[a].op : a \in push[p].spent}]_vars
  <2> SUFFICES ASSUME GateInv, [Next]_vars, NEW p \in Pushes,
                      push[p].phase = "prepared", push'[p].phase = "landed", ref # Zero
               PROVE  Needs[<<ref, ref'>>] \subseteq {approvals[a].op : a \in push[p].spent}
    OBVIOUS
  <2>1. Commit(p)
    BY LandingIsCommit DEF GateInv
  <2>2. PaidFor(p) /\ ref = push[p].old
    BY <2>1, MovePaid
  <2>3. ledger[push[p].row].old = ref
    BY <2>2 DEF PaidFor
  <2> QED
    BY <2>1, <2>3, MovePaid
<1> QED
  BY <1>1, GateInvariant, PTL DEF Spec, ChangesArePaid

-----------------------------------------------------------------------------
(* A calm environment: each push finds the row it made itself *)

(* No two pushes in flight can be taken for one another. *)
NoTwins ==
  \A p, q \in Pushes :
    p # q /\ InFlight(p) /\ InFlight(q) => ~Alike(p, push[q].old, push[q].new)

LEMMA NoTwinsNext ==
  ASSUME IInv, ~MayRace, NoTwins, [Next]_vars
  PROVE  NoTwins'
<1> DEFINE FliesOn(q) == InFlight(q)' => /\ InFlight(q)
                                         /\ push'[q].old = push[q].old /\ push'[q].new = push[q].new
<1>1. push \in [Pushes -> Push]
  BY Typed
<1>2. ASSUME \A q \in Pushes : FliesOn(q)  PROVE NoTwins'
  BY <1>2 DEF NoTwins, Alike
<1>3. ASSUME NEW p \in Pushes, NEW phase, Step(p, phase),
             phase \notin {"failed", "moved"} => InFlight(p)
      PROVE  NoTwins'
  <2>1. \A q \in Pushes : FliesOn(q)
    BY <1>1, <1>3 DEF Step, Push, InFlight
  <2> QED
    BY <1>2, <2>1
<1>4. ASSUME NEW p \in Pushes, NEW new \in Revs, PreReceive(p, new)  PROVE NoTwins'
  <2>1. \A q \in Pushes \ {p} : ~(InFlight(q) /\ Alike(q, push[p].old, new))
    BY <1>4 DEF PreReceive
  <2>2. /\ push'[p].old = push[p].old /\ push'[p].new = new
        /\ \A q \in Pushes \ {p} : push'[q] = push[q]
    BY <1>4, PreReceiveDoes
  <2>3. \A q \in Pushes \ {p} : InFlight(q)' <=> InFlight(q)
    BY <2>2 DEF InFlight
  <2>4. \A q \in Pushes \ {p} : InFlight(q)' =>
          /\ ~Alike(q, push[p].old, push[p].new)'
          /\ ~Alike(p, push[q].old, push[q].new)'
    BY <2>1, <2>2, <2>3 DEF Alike
  <2>5. \A q, s \in Pushes \ {p} : q # s /\ InFlight(q)' /\ InFlight(s)'
          => ~Alike(q, push[s].old, push[s].new)'
    BY <2>2, <2>3 DEF NoTwins, Alike
  <2> QED
    BY <2>4, <2>5 DEF NoTwins
<1>5. ASSUME NEW p \in Pushes, PreparedHook(p)  PROVE NoTwins'
  <2>1. push[p].phase = "locked"
    BY <1>5 DEF PreparedHook
  <2>2. \A q \in Pushes : FliesOn(q)
    BY <1>5, <2>1, PreparedHookDoes DEF Prepares, InFlight
  <2> QED
    BY <1>2, <2>2
<1>6. ASSUME NEW p \in Pushes, Connect(p)  PROVE NoTwins'
  <2>1. \A q \in Pushes : FliesOn(q)
    BY <1>1, <1>6 DEF Connect, Push, InFlight
  <2> QED
    BY <1>2, <2>1
<1>7. ASSUME NEW p \in Pushes,
             \/ LockRef(p) \/ LockFails(p) \/ PreparedRefused(p) \/ AbortedHook(p)
             \/ Commit(p) \/ CommittedHook(p) \/ HookLost(p) \/ Die(p) \/ CleanLock(p)
      PROVE  NoTwins'
  BY <1>3, <1>7 DEF LockRef, LockFails, PreparedRefused, AbortedHook, Commit, CommittedHook,
                    HookLost, Die, CleanLock, InFlight
<1>8. (\E line \in Revs \X Revs : Maintain(line[1], line[2]))
        \/ (\E r \in DOMAIN ledger : Doctor(r) \/ Age(r)) \/ (\E op \in Ops : Request(op))
        \/ (\E a \in DOMAIN approvals : Decide(a)) \/ OwnerChanges \/ UNCHANGED vars
        => push' = push
  BY DEF Maintain, Doctor, Age, Request, Decide, OwnerChanges, vars
<1>9. push' = push => NoTwins'
  BY <1>2 DEF InFlight
<1> QED
  BY <1>4, <1>5, <1>6, <1>7, <1>8, <1>9 DEF Next, Git

(* The row a push made for itself: no newer row could be taken for it. *)
Fits(p, r) == ledger[r].new = push[p].new /\ (ledger[r].old = push[p].old \/ push[p].old = Zero)
Own(p, r) ==
  /\ r \in DOMAIN ledger
  /\ ledger[r].old = push[p].old /\ ledger[r].new = push[p].new
  /\ \A s \in DOMAIN ledger : s > r => ~Fits(p, s)

Waiting == {"received", "locked"}
Settling == {"prepared", "landed"}
Waits(p) ==
  \E r \in DOMAIN ledger : Own(p, r) /\ (ledger[r].stale \/ ledger[r].status = "validated")
Owns(p) ==
  /\ push[p].phase \in Waiting => Waits(p)
  /\ push[p].phase \in Settling => Own(p, push[p].row)
OwnRows == \A p \in Pushes : Owns(p)

(* No other push in flight finds that row. *)
LEMMA NotTaken ==
  ASSUME NoTwins, NEW p \in Pushes, NEW q \in Pushes \ {p}, InFlight(p), InFlight(q),
         NEW r, Own(p, r), NEW status
  PROVE  r \notin Matching(status, push[q].old, push[q].new)
BY DEF NoTwins, Own, Matching, Alike

LEMMA OwnStays ==
  ASSUME IInv, [Next]_vars, DOMAIN ledger' = DOMAIN ledger, NEW p \in Pushes,
         push'[p].old = push[p].old, push'[p].new = push[p].new,
         NEW r, Own(p, r)
  PROVE  Own(p, r)'
BY RowsStay DEF Own, Fits, Stays, SameUpdate

LEMMA OwnsOn ==
  ASSUME IInv, [Next]_vars, DOMAIN ledger' = DOMAIN ledger, NEW p \in Pushes, Owns(p),
         push'[p].old = push[p].old, push'[p].new = push[p].new, push'[p].row = push[p].row,
         push'[p].phase \in Waiting => push[p].phase \in Waiting,
         push'[p].phase \in Settling => push[p].phase \in Settling,
         \A r \in DOMAIN ledger :
           push[p].phase \in Waiting /\ Own(p, r) /\ ledger[r].status = "validated"
             => ledger'[r].status = "validated" \/ ledger[r].stale
  PROVE  Owns(p)'
<1>1. ASSUME push'[p].phase \in Waiting  PROVE Waits(p)'
  <2>1. PICK r \in DOMAIN ledger : Own(p, r) /\ (ledger[r].stale \/ ledger[r].status = "validated")
    BY <1>1 DEF Owns, Waits
  <2>2. Own(p, r)'
    BY <2>1, OwnStays
  <2>3. ledger'[r].stale \/ ledger'[r].status = "validated"
    BY <1>1, <2>1, RowsStay DEF Stays
  <2> QED
    BY <2>1, <2>2, <2>3 DEF Waits
<1>2. ASSUME push'[p].phase \in Settling  PROVE Own(p, push[p].row)'
  BY <1>2, OwnStays DEF Owns, Own, Fits
<1> QED
  BY <1>1, <1>2 DEF Owns

(* Newest and fresh, the row a locked push finds is the one it made. *)
LEMMA FindsOwn ==
  ASSUME IInv, AgeOrdered, NEW p \in Pushes, Waits(p),
         NEW r \in FoundRow("validated", push[p].old, push[p].new)
  PROVE  Own(p, r)
<1>1. PICK own \in DOMAIN ledger :
        Own(p, own) /\ (ledger[own].stale \/ ledger[own].status = "validated")
  BY DEF Waits
<1>2. r \in Nat /\ own \in Nat
  BY <1>1, Typed, FoundRows
<1>3. r <= own
  BY <1>1, <1>2 DEF FoundRow, Newest, Matching, Own, Fits
<1>4. ASSUME r < own  PROVE FALSE
  <2>1. ~ledger[r].stale /\ r \in DOMAIN ledger
    BY DEF FoundRow, Newest, Matching
  <2>2. ~ledger[own].stale
    BY <1>1, <1>4, <2>1 DEF AgeOrdered
  <2>3. own \in Matching("validated", push[p].old, push[p].new)
    BY <1>1, <2>2 DEF Matching, Own
  <2> QED
    BY <1>2, <1>4, <2>3 DEF FoundRow, Newest
<1> QED
  BY <1>1, <1>2, <1>3, <1>4

LEMMA OwnRowsNext ==
  ASSUME Calm, IInv, RowsInv, AgeOrdered, NoTwins, OwnRows, [Next]_vars
  PROVE  OwnRows'
<1> DEFINE Same(q) == /\ push'[q].old = push[q].old /\ push'[q].new = push[q].new
                      /\ push'[q].row = push[q].row /\ push'[q].phase = push[q].phase
           Over(q) == push'[q].phase \notin Waiting \cup Settling
<1>1. push \in [Pushes -> Push]
  BY Typed
<1>2. ASSUME NEW p \in Pushes, Over(p)  PROVE Owns(p)'
  BY <1>2 DEF Owns
(* Another push settles rows that it finds itself. *)
<1>3. ASSUME NEW q \in Pushes, NEW p \in Pushes \ {q}, Same(p), InFlight(q), NEW rows,
             NEW status,
             rows \subseteq Matching(status, push[q].old, push[q].new),
             DOMAIN ledger' = DOMAIN ledger,
             \A r \in DOMAIN ledger \ rows : ledger'[r].status = ledger[r].status
      PROVE  Owns(p)'
  <2>1. \A r \in DOMAIN ledger : push[p].phase \in Waiting /\ Own(p, r) => r \notin rows
    BY <1>3, NotTaken DEF InFlight, Waiting
  <2> QED
    BY <1>3, <2>1, OwnsOn DEF OwnRows
<1>4. ASSUME NEW p \in Pushes, Same(p), DOMAIN ledger' = DOMAIN ledger,
             \A r \in DOMAIN ledger :
               ledger[r].status = "validated" => ledger'[r].status = "validated"
      PROVE  Owns(p)'
  BY <1>4, OwnsOn DEF OwnRows
<1>5. ASSUME NEW q \in Pushes, NEW phase, Step(q, phase), ledger' = ledger,
             phase \in Waiting => push[q].phase \in Waiting,
             phase \in Settling => push[q].phase \in Settling
      PROVE  OwnRows'
  <2>1. /\ push'[q].phase = phase /\ push'[q].old = push[q].old /\ push'[q].new = push[q].new
        /\ push'[q].row = push[q].row
        /\ \A p \in Pushes \ {q} : push'[p] = push[p]
    BY <1>1, <1>5 DEF Step, Push
  <2>2. Owns(q)'
    BY <1>5, <2>1, OwnsOn DEF OwnRows
  <2>3. \A p \in Pushes \ {q} : Owns(p)'
    BY <1>4, <1>5, <2>1
  <2> QED
    BY <2>2, <2>3 DEF OwnRows
<1>6. ASSUME NEW q \in Pushes, Connect(q)  PROVE OwnRows'
  <2>1. /\ push'[q].phase = "connected" /\ ledger' = ledger
        /\ \A p \in Pushes \ {q} : push'[p] = push[p]
    BY <1>1, <1>6 DEF Connect, Push
  <2>2. Owns(q)'
    BY <1>2, <2>1 DEF Waiting, Settling
  <2>3. \A p \in Pushes \ {q} : Owns(p)'
    BY <1>4, <2>1
  <2> QED
    BY <2>2, <2>3 DEF OwnRows
<1>7. ASSUME NEW q \in Pushes, NEW new \in Revs, PreReceive(q, new)  PROVE OwnRows'
  <2>1. PICK row :
        /\ row = Len(ledger) + 1
        /\ DOMAIN ledger' = DOMAIN ledger \cup {row}
        /\ \A r \in DOMAIN ledger : ledger'[r] = ledger[r] /\ r < row
        /\ ledger'[row].old = push[q].old /\ ledger'[row].new = new
        /\ ledger'[row].status = "validated"
        /\ push'[q].phase = "received" /\ push'[q].old = push[q].old /\ push'[q].new = new
        /\ \A p \in Pushes \ {q} : push'[p] = push[p]
    BY <1>7, PreReceiveDoes
  <2>2. DOMAIN ledger \subseteq Nat /\ row \in Nat
    BY <2>1, Typed
  <2>3. Owns(q)'
    <3>1. Own(q, row)'
      BY <2>1, <2>2 DEF Own
    <3> QED
      BY <2>1, <3>1 DEF Owns, Waits, Waiting, Settling
  <2>4. ASSUME NEW p \in Pushes \ {q}, push[p].phase \in Waiting \cup Settling,
               NEW r, Own(p, r)
        PROVE  Own(p, r)'
    <3>1. ~Alike(p, push[q].old, new)
      BY <1>7, <2>4 DEF PreReceive, Calm, InFlight, Waiting, Settling
    <3>2. ~(new = push[p].new /\ (push[q].old = push[p].old \/ push[p].old = Zero))
      BY <3>1 DEF Alike
    <3> QED
      BY <2>1, <2>2, <2>4, <3>2 DEF Own, Fits
  <2>5. ASSUME NEW p \in Pushes \ {q}  PROVE Owns(p)'
    <3>1. Owns(p) /\ push'[p] = push[p]
      BY <2>1, <2>5 DEF OwnRows
    <3>2. push[p].phase \in Waiting => Waits(p)'
      BY <2>1, <2>4, <3>1 DEF Owns, Waits, Own
    <3>3. push[p].phase \in Settling => Own(p, push[p].row)'
      BY <2>4, <3>1 DEF Owns, Own, Fits
    <3> QED
      BY <3>1, <3>2, <3>3 DEF Owns
  <2> QED
    BY <2>3, <2>5 DEF OwnRows
<1>8. ASSUME NEW q \in Pushes, PreparedHook(q)  PROVE OwnRows'
  <2>1. PICK r \in FoundRow("validated", push[q].old, push[q].new) : Prepares(q, r)
    BY <1>8, PreparedHookDoes
  <2>2. push[q].phase = "locked"
    BY <1>8 DEF PreparedHook
  <2>3. Own(q, r)
    BY <2>1, <2>2, FindsOwn DEF OwnRows, Owns, Waiting
  <2>4. Owns(q)'
    <3>1. Own(q, r)'
      BY <2>1, <2>3, OwnStays DEF Prepares
    <3>2. push'[q].row = r /\ push'[q].phase = "prepared"
      BY <2>1 DEF Prepares
    <3> QED
      BY <3>1, <3>2 DEF Owns, Own, Fits, Waiting
  <2>5. {r} \subseteq Matching("validated", push[q].old, push[q].new)
    BY <2>1 DEF FoundRow, Newest
  <2>6. ASSUME NEW p \in Pushes \ {q}  PROVE Owns(p)'
    BY <1>3, <2>1, <2>2, <2>5 DEF Prepares, InFlight
  <2> QED
    BY <2>4, <2>6 DEF OwnRows
(* The push whose outcome is reported is over. *)
<1>9. ASSUME NEW q \in Pushes, InFlight(q), NEW phase \in {"failed", "moved"}, Step(q, phase),
              NEW rows, NEW status, NEW outcome \in {"committed", "aborted"},
              rows \subseteq Matching(status, push[q].old, push[q].new),
              ledger' = Resolved(rows, outcome)
       PROVE  OwnRows'
  <2>1. push'[q].phase = phase /\ \A p \in Pushes \ {q} : push'[p] = push[p]
    BY <1>1, <1>9 DEF Step, Push
  <2>2. Settles(rows, outcome)
    BY <1>9, ResolvedSettles
  <2>3. ASSUME NEW p \in Pushes \ {q}  PROVE Owns(p)'
    BY <1>3, <1>9, <2>1, <2>2 DEF Settles
  <2>4. Owns(q)'
    BY <1>2, <2>1 DEF Waiting, Settling
  <2> QED
    BY <2>3, <2>4 DEF OwnRows
<1>10. ASSUME NEW q \in Pushes, AbortedHook(q) \/ CommittedHook(q)  PROVE OwnRows'
  <2> DEFINE Found(status) == FoundRow(status, push[q].old, push[q].new)
  <2>1. InFlight(q)
    BY <1>10 DEF AbortedHook, CommittedHook, InFlight
  <2>2. \A status : Found(status) \subseteq Matching(status, push[q].old, push[q].new)
    BY DEF FoundRow, Newest
  <2>3. CASE AbortedHook(q)
    <3>1. Step(q, "failed") /\ ledger' = Resolved(ToAbort(push[q].old, push[q].new), "aborted")
      BY <2>3 DEF AbortedHook, Abort
    <3>2. PICK status \in {"prepared", "validated"} :
            ToAbort(push[q].old, push[q].new) = Found(status)
      BY DEF ToAbort
    <3> QED
      BY <1>9, <2>1, <2>2, <3>1, <3>2
  <2>4. CASE CommittedHook(q)
    <3>1. Step(q, "moved") /\ ledger' = Resolved(Found("prepared"), "committed")
      BY <2>4 DEF CommittedHook
    <3> QED
      BY <1>9, <2>1, <2>2, <3>1
  <2> QED
    BY <1>10, <2>3, <2>4
<1>11. ASSUME NEW r \in DOMAIN ledger, Doctor(r)  PROVE OwnRows'
  <2>1. PICK outcome \in {"committed", "aborted"} : Settles({r}, outcome)
    BY <1>11, ResolvedSettles DEF Doctor
  <2>2. ledger[r].status = "prepared" /\ push' = push
    BY <1>11 DEF Doctor
  <2> QED
    BY <1>4, <2>1, <2>2 DEF OwnRows, Settles
<1>12. ASSUME NEW r \in DOMAIN ledger, Age(r)  PROVE OwnRows'
  <2>1. Ages(r) /\ push' = push
    BY <1>12, AgeDoes DEF Age
  <2> QED
    BY <1>4, <2>1 DEF OwnRows, Ages
<1>13. ASSUME NEW q \in Pushes,
              \/ LockRef(q) \/ LockFails(q) \/ PreparedRefused(q)
              \/ Commit(q) \/ HookLost(q) \/ Die(q) \/ CleanLock(q)
       PROVE  OwnRows'
  BY <1>5, <1>13 DEF LockRef, LockFails, PreparedRefused, Commit, HookLost, Die, CleanLock,
                     Waiting, Settling
<1>14. (\E op \in Ops : Request(op)) \/ (\E a \in DOMAIN approvals : Decide(a)) \/ OwnerChanges
         \/ UNCHANGED vars => UNCHANGED <<push, ledger>>
  BY DEF Request, Decide, OwnerChanges, vars
<1>15. UNCHANGED <<push, ledger>> => OwnRows'
  BY <1>4 DEF OwnRows
<1>16. ~\E line \in Revs \X Revs : Maintain(line[1], line[2])
  BY DEF Maintain, Calm
<1> QED
  BY <1>6, <1>7, <1>8, <1>10, <1>11, <1>12, <1>13, <1>14, <1>15, <1>16 DEF Next, Git

CalmInv == GateInv /\ NoTwins /\ OwnRows

LEMMA CalmNext ==
  ASSUME Calm, CalmInv, [Next]_vars
  PROVE  CalmInv'
<1>1. GateInv'
  BY InvNext, RowsNext, AgeOrderedNext, LockHeldNext, PaidRowsNext, ChangesNext DEF CalmInv, GateInv
<1>2. NoTwins'
  BY NoTwinsNext DEF CalmInv, GateInv, Calm
<1>3. OwnRows'
  BY OwnRowsNext DEF CalmInv, GateInv
<1> QED
  BY <1>1, <1>2, <1>3 DEF CalmInv

LEMMA CalmInit ==
  ASSUME Init
  PROVE  NoTwins /\ OwnRows
<1>1. \A p \in Pushes : push[p].phase = "idle"
  BY DEF Init
<1> QED
  BY <1>1 DEF NoTwins, OwnRows, Owns, InFlight, Waiting, Settling

(* When no two pushes of one update are in flight together and the ref has no *)
(* other writer, every move is paid for, creations too.                       *)
THEOREM MovesPaid == ASSUME Calm PROVE Spec => MovesArePaid
<1>1. CalmInv /\ [Next]_vars =>
        [\A p \in Pushes :
           push[p].phase = "prepared" /\ push'[p].phase = "landed"
             => Needs[<<ref, ref'>>] \subseteq {approvals[a].op : a \in push[p].spent}]_vars
  <2> SUFFICES ASSUME CalmInv, [Next]_vars, NEW p \in Pushes,
                      push[p].phase = "prepared", push'[p].phase = "landed"
               PROVE  Needs[<<ref, ref'>>] \subseteq {approvals[a].op : a \in push[p].spent}
    OBVIOUS
  <2>1. Commit(p)
    BY LandingIsCommit DEF CalmInv, GateInv
  <2>2. Own(p, push[p].row)
    BY DEF CalmInv, OwnRows, Owns, Settling
  <2>3. ref = push[p].old
    BY <2>1, MovePaid DEF CalmInv
  <2> QED
    BY <2>1, <2>2, <2>3, MovePaid DEF CalmInv, Own
<1>2. Init => NoTwins /\ OwnRows
  BY CalmInit
<1>3. CalmInv /\ [Next]_vars => CalmInv'
  BY CalmNext
<1> QED
  BY <1>1, <1>2, <1>3, GateInvariant, PTL DEF Spec, MovesArePaid, CalmInv

-----------------------------------------------------------------------------
(* A prompt environment: Git reports every outcome in time, or dies first *)

(* Once prepared, the row of a push is fresh until its outcome is recorded, *)
(* and the outcome of a push that moved the ref is `committed'.             *)
Records(p) ==
  /\ push[p].phase \in Settling =>
       ledger[push[p].row].status = "prepared" /\ ~ledger[push[p].row].stale
  /\ push[p].phase = "moved" => ledger[push[p].row].status = "committed"
Recorded == \A p \in Pushes : Records(p)

LEMMA RecordedNext ==
  ASSUME Prompt, CalmInv, Recorded, [Next]_vars
  PROVE  Recorded'
<1> DEFINE Same(q) == push'[q].row = push[q].row /\ push'[q].phase = push[q].phase
           Rest == Settling \cup {"moved"}
<1>1. push \in [Pushes -> Push]
  BY Typed DEF CalmInv, GateInv
<1>2. \A p \in Pushes : push[p].phase \in Rest => push[p].row \in DOMAIN ledger
  BY Zenon DEF CalmInv, GateInv, PaidRows, RowsInv, Settling
<1>3. ASSUME NEW p \in Pushes, push'[p].phase \notin Rest  PROVE Records(p)'
  BY <1>3 DEF Records
<1>4. ASSUME NEW p \in Pushes, Same(p),
             push[p].phase \in Rest =>
               /\ ledger'[push[p].row].status = ledger[push[p].row].status
               /\ ledger'[push[p].row].stale = ledger[push[p].row].stale
      PROVE  Records(p)'
  BY <1>4 DEF Recorded, Records, Settling
<1>5. ASSUME NEW q \in Pushes, NEW phase, Step(q, phase), ledger' = ledger, phase # "moved",
             phase \in Settling => push[q].phase \in Settling
      PROVE  Recorded'
  <2>1. /\ push'[q].phase = phase /\ push'[q].row = push[q].row
        /\ \A p \in Pushes \ {q} : push'[p] = push[p]
    BY <1>1, <1>5 DEF Step, Push
  <2>2. Records(q)'
    BY <1>5, <2>1 DEF Recorded, Records
  <2>3. \A p \in Pushes \ {q} : Records(p)'
    BY <1>4, <1>5, <2>1
  <2> QED
    BY <2>2, <2>3 DEF Recorded
<1>6. ASSUME NEW q \in Pushes, Connect(q)  PROVE Recorded'
  <2>1. /\ push'[q].phase = "connected" /\ ledger' = ledger
        /\ \A p \in Pushes \ {q} : push'[p] = push[p]
    BY <1>1, <1>6 DEF Connect, Push
  <2>2. Records(q)'
    BY <1>3, <2>1 DEF Settling
  <2>3. \A p \in Pushes \ {q} : Records(p)'
    BY <1>4, <2>1
  <2> QED
    BY <2>2, <2>3 DEF Recorded
<1>7. ASSUME NEW q \in Pushes, NEW new \in Revs, PreReceive(q, new)  PROVE Recorded'
  <2>1. /\ \A r \in DOMAIN ledger : ledger'[r] = ledger[r]
        /\ push'[q].phase = "received" /\ \A p \in Pushes \ {q} : push'[p] = push[p]
    BY <1>7, PreReceiveDoes DEF CalmInv, GateInv
  <2>2. Records(q)'
    BY <1>3, <2>1 DEF Settling
  <2>3. \A p \in Pushes \ {q} : Records(p)'
    BY <1>2, <1>4, <2>1
  <2> QED
    BY <2>2, <2>3 DEF Recorded
<1>8. ASSUME NEW q \in Pushes, PreparedHook(q)  PROVE Recorded'
  <2>1. PICK r : Prepares(q, r)
    BY <1>8, PreparedHookDoes DEF CalmInv, GateInv
  <2>2. Records(q)'
    BY <2>1 DEF Prepares, Records, Settling
  <2>3. ASSUME NEW p \in Pushes \ {q}  PROVE Records(p)'
    <3>1. push[p].phase \in Rest => push[p].row # r
      BY <2>1 DEF Prepares, Recorded, Records
    <3> QED
      BY <1>2, <1>4, <2>1, <3>1 DEF Prepares
  <2> QED
    BY <2>2, <2>3 DEF Recorded
<1>9. ASSUME NEW q \in Pushes, InFlight(q), NEW rows, NEW outcome \in {"committed", "aborted"},
             NEW status \in {"prepared", "validated"},
             rows \subseteq Matching(status, push[q].old, push[q].new),
             ledger' = Resolved(rows, outcome),
             NEW p \in Pushes \ {q}, push'[p] = push[p]
      PROVE  Records(p)'
  <2>1. ASSUME push[p].phase \in Rest  PROVE push[p].row \notin rows
    <3>1. CASE push[p].phase = "moved"
      BY <1>9, <3>1 DEF Recorded, Records, Matching
    <3>2. CASE push[p].phase \in Settling
      <4>1. Own(p, push[p].row) /\ InFlight(p)
        BY <3>2 DEF CalmInv, OwnRows, Owns, Settling, InFlight
      <4> QED
        BY <1>9, <4>1, NotTaken DEF CalmInv
    <3> QED
      BY <2>1, <3>1, <3>2
  <2>2. Settles(rows, outcome)
    BY <1>9, ResolvedSettles DEF CalmInv, GateInv
  <2> QED
    BY <1>2, <1>4, <1>9, <2>1, <2>2 DEF Settles
<1>10. \A q \in Pushes : \A status :
         FoundRow(status, push[q].old, push[q].new) \subseteq Matching(status, push[q].old, push[q].new)
  BY DEF FoundRow, Newest
<1>11. ASSUME NEW q \in Pushes, AbortedHook(q)  PROVE Recorded'
  <2>1. PICK status \in {"prepared", "validated"} :
          ToAbort(push[q].old, push[q].new) = FoundRow(status, push[q].old, push[q].new)
    BY DEF ToAbort
  <2>2. /\ InFlight(q) /\ Step(q, "failed")
        /\ ledger' = Resolved(ToAbort(push[q].old, push[q].new), "aborted")
    BY <1>11 DEF AbortedHook, Abort, InFlight
  <2>3. push'[q].phase = "failed" /\ \A p \in Pushes \ {q} : push'[p] = push[p]
    BY <1>1, <2>2 DEF Step, Push
  <2>4. Records(q)'
    BY <1>3, <2>3 DEF Settling
  <2>5. \A p \in Pushes \ {q} : Records(p)'
    BY <1>9, <1>10, <2>1, <2>2, <2>3
  <2> QED
    BY <2>4, <2>5 DEF Recorded
(* The row a landed push owns is the one its committed hook finds. *)
<1>12. ASSUME NEW q \in Pushes, CommittedHook(q)  PROVE Recorded'
  <2> DEFINE rows == FoundRow("prepared", push[q].old, push[q].new)
  <2>1. /\ push[q].phase = "landed" /\ InFlight(q) /\ Step(q, "moved")
        /\ ledger' = Resolved(rows, "committed")
    BY <1>12 DEF CommittedHook, InFlight
  <2>2. /\ push'[q].phase = "moved" /\ push'[q].row = push[q].row
        /\ \A p \in Pushes \ {q} : push'[p] = push[p]
    BY <1>1, <2>1 DEF Step, Push
  <2>3. Own(q, push[q].row) /\ ledger[push[q].row].status = "prepared"
        /\ ~ledger[push[q].row].stale
    BY <2>1 DEF CalmInv, OwnRows, Owns, Recorded, Records, Settling
  <2>4. push[q].row \in Matching("prepared", push[q].old, push[q].new)
    BY <2>3 DEF Own, Matching
  <2>5. \A s \in Matching("prepared", push[q].old, push[q].new) : s <= push[q].row
    <3>1. DOMAIN ledger \subseteq Nat
      BY Typed DEF CalmInv, GateInv
    <3> QED
      BY <2>3, <3>1 DEF Own, Fits, Matching
  <2>6. push[q].row \in rows
    BY <2>4, <2>5 DEF FoundRow, Newest
  <2>7. Settles(rows, "committed")
    BY <2>1, ResolvedSettles DEF CalmInv, GateInv
  <2>8. Records(q)'
    BY <2>2, <2>3, <2>6, <2>7 DEF Settles, Own, Records, Settling
  <2>9. \A p \in Pushes \ {q} : Records(p)'
    BY <1>9, <1>10, <2>1, <2>2
  <2> QED
    BY <2>8, <2>9 DEF Recorded
<1>13. ASSUME NEW r \in DOMAIN ledger, Doctor(r)  PROVE Recorded'
  <2>1. PICK outcome \in {"committed", "aborted"} : Settles({r}, outcome)
    BY <1>13, ResolvedSettles DEF Doctor, CalmInv, GateInv
  <2>2. ledger[r].status = "prepared" /\ ledger[r].stale /\ push' = push
    BY <1>13 DEF Doctor
  <2>3. ASSUME NEW p \in Pushes  PROVE Records(p)'
    <3>1. push[p].phase \in Rest => push[p].row # r
      BY <2>2 DEF Recorded, Records
    <3> QED
      BY <1>2, <1>4, <2>1, <2>2, <3>1 DEF Settles
  <2> QED
    BY <2>3 DEF Recorded
<1>14. ASSUME NEW r \in DOMAIN ledger, Age(r)  PROVE Recorded'
  <2>1. Ages(r) /\ push' = push
    BY <1>14, AgeDoes DEF Age, CalmInv, GateInv
  <2>2. \A p \in Pushes : push[p].phase \in Settling => push[p].row > r
    BY <1>14 DEF Age, Prompt, Settling
  <2>3. DOMAIN ledger \subseteq Nat
    BY Typed DEF CalmInv, GateInv
  <2>4. ASSUME NEW p \in Pushes  PROVE Records(p)'
    <3>1. CASE push[p].phase \in Settling
      <4>1. /\ push[p].row \in DOMAIN ledger /\ push[p].row \in Nat
            /\ push[p].row > r /\ r \in Nat
        BY <1>2, <2>2, <2>3, <3>1
      <4>2. Records(p)
        BY DEF Recorded
      <4> QED
        BY <2>1, <3>1, <4>1, <4>2 DEF Ages, Records, Settling
    <3>2. CASE push[p].phase \notin Settling
      BY <1>2, <2>1, <3>2 DEF Ages, Recorded, Records
    <3> QED
      BY <3>1, <3>2
  <2> QED
    BY <2>4 DEF Recorded
<1>15. ASSUME NEW q \in Pushes,
              \/ LockRef(q) \/ LockFails(q) \/ PreparedRefused(q)
              \/ Commit(q) \/ HookLost(q) \/ Die(q) \/ CleanLock(q)
       PROVE  Recorded'
  BY <1>5, <1>15 DEF LockRef, LockFails, PreparedRefused, Commit, HookLost, Die, CleanLock,
                     Settling, Prompt
<1>16. (\E op \in Ops : Request(op)) \/ (\E a \in DOMAIN approvals : Decide(a)) \/ OwnerChanges
         \/ UNCHANGED vars => UNCHANGED <<push, ledger>>
  BY DEF Request, Decide, OwnerChanges, vars
<1>17. UNCHANGED <<push, ledger>> => Recorded'
  BY <1>4 DEF Recorded
<1>18. ~\E line \in Revs \X Revs : Maintain(line[1], line[2])
  BY DEF Maintain, Calm, Prompt
<1> QED
  BY <1>6, <1>7, <1>8, <1>11, <1>12, <1>13, <1>14, <1>15, <1>16, <1>17, <1>18 DEF Next, Git

PromptInv == CalmInv /\ Recorded

LEMMA PromptInvariant == ASSUME Prompt PROVE Spec => []PromptInv
<1>1. Init => NoTwins /\ OwnRows
  BY CalmInit
<1>2. Init => Recorded
  BY DEF Init, Recorded, Records, Settling
<1>3. PromptInv /\ [Next]_vars => PromptInv'
  BY CalmNext, RecordedNext DEF PromptInv, Prompt
<1> QED
  BY <1>1, <1>2, <1>3, GateInvariant, PTL DEF Spec, PromptInv, CalmInv

(* As long as outcome hooks arrive, the ledger never records as undone what *)
(* Git did: the rows the hooks and doctor look up by value are the right    *)
(* ones.                                                                    *)
THEOREM LedgerTrue == ASSUME Prompt PROVE Spec => []LedgerTellsTruth
<1>1. PromptInv => LedgerTellsTruth
  BY DEF PromptInv, Recorded, Records, LedgerTellsTruth, Moved, Settling
<1> QED
  BY <1>1, PromptInvariant, PTL

(* What a push that moved the ref spent is spent on its row. *)
LEMMA MovedSpent ==
  ASSUME PromptInv, NEW p \in Pushes, Moved(p)
  PROVE  /\ push[p].row # 0 /\ push[p].row \in DOMAIN ledger
         /\ ledger[push[p].row].status \in {"prepared", "committed"}
         /\ push[p].spent = ledger[push[p].row].spent
         /\ push[p].spent \subseteq DOMAIN approvals
<1>1. push[p].row # 0 /\ PaidFor(p)
  BY DEF PromptInv, CalmInv, GateInv, PaidRows, Moved
<1>2. push[p].row \in DOMAIN ledger
  BY <1>1, Zenon DEF PromptInv, CalmInv, GateInv, RowsInv
<1>3. ledger[push[p].row].status \in {"prepared", "committed"}
  BY DEF PromptInv, Recorded, Records, Moved, Settling
<1> QED
  BY <1>1, <1>2, <1>3 DEF PaidFor

(* One approval never pays for two moves of the ref, whatever Git does short *)
(* of losing the outcomes it reports.                                        *)
THEOREM AuthorizesOnce == ASSUME Prompt PROVE Spec => []ApprovalAuthorizesOnce
<1>1. PromptInv => ApprovalAuthorizesOnce
  <2> SUFFICES ASSUME PromptInv, NEW p \in Pushes, NEW q \in Pushes, p # q, Moved(p), Moved(q),
                      NEW a \in push[p].spent, a \in push[q].spent
               PROVE  FALSE
    BY DEF ApprovalAuthorizesOnce
  <2> DEFINE r == push[p].row
             s == push[q].row
  <2>1. r \in DOMAIN ledger /\ ledger[r].status \in {"prepared", "committed"} /\ a \in ledger[r].spent
    BY MovedSpent
  <2>2. s \in DOMAIN ledger /\ ledger[s].status \in {"prepared", "committed"} /\ a \in ledger[s].spent
    BY MovedSpent
  <2>3. s # r
    BY MovedSpent, Zenon DEF PromptInv, CalmInv, GateInv, RowsInv, RowsAreNotShared
  <2>4. SpendingBalances
    BY DEF PromptInv, CalmInv, GateInv, IInv, Tables
  <2> QED
    BY <2>1, <2>2, <2>3, <2>4 DEF SpendingBalances
<1> QED
  BY <1>1, PromptInvariant, PTL

-----------------------------------------------------------------------------
(* The refinement *)

Instance == [op : Ops, status : {"pending", "approved", "denied", "spent"}]

(* The instances that pushes which moved the ref have spent, and the purse *)
(* that shows the approvals f when those of B are spent.                   *)
Bought == {a \in 1..MaxApprovals : \E p \in Pushes : Moved(p) /\ a \in push[p].spent}
Show(f, B) ==
  [a \in DOMAIN f |->
    [op |-> f[a].op,
     status |-> IF a \in B THEN "spent"
                ELSE IF f[a].status = "consumed" THEN "approved" ELSE f[a].status]]

LEMMA PurseShows ==
  ASSUME IInv, IInv'
  PROVE  Purse = Show(approvals, Bought) /\ Purse' = Show(approvals', Bought')
<1>1. /\ DOMAIN approvals \subseteq 1..MaxApprovals
      /\ DOMAIN approvals' \subseteq 1..MaxApprovals
  BY LenProperties, BoundsAssumption DEF IInv, TypeOK
<1>2. /\ \A a \in DOMAIN approvals :
           a \in Bought <=> \E p \in Pushes : Moved(p) /\ a \in push[p].spent
      /\ \A a \in DOMAIN approvals' :
           a \in Bought' <=> \E p \in Pushes : Moved(p)' /\ a \in push'[p].spent
  BY <1>1 DEF Bought
<1>3. Purse = Show(approvals, Bought)
  BY <1>2, Zenon DEF Purse, Show
<1>4. Purse' = Show(approvals', Bought')
  BY <1>2, Zenon DEF Purse, Show, Moved
<1> QED
  BY <1>3, <1>4

LEMMA ShowRows ==
  ASSUME NEW f \in Seq(Approval), NEW B
  PROVE  /\ Show(f, B) \in Seq(Instance)
         /\ Len(Show(f, B)) = Len(f) /\ Len(f) \in Nat
         /\ DOMAIN Show(f, B) = DOMAIN f /\ DOMAIN f = 1..Len(f)
         /\ \A a \in DOMAIN f :
              /\ Show(f, B)[a].op = f[a].op
              /\ a \in B => Show(f, B)[a].status = "spent"
              /\ a \notin B /\ f[a].status \in {"consumed", "approved"}
                   => Show(f, B)[a].status = "approved"
              /\ a \notin B /\ f[a].status \notin {"consumed", "approved"}
                   => Show(f, B)[a].status = f[a].status
<1>1. f \in [1..Len(f) -> Approval] /\ Len(f) \in Nat /\ DOMAIN f = 1..Len(f)
  BY LenProperties
<1>2. Show(f, B) \in [1..Len(f) -> Instance]
  BY <1>1 DEF Show, Approval, Instance
<1>3. DOMAIN Show(f, B) = DOMAIN f
  BY DEF Show
<1>4. \A a \in DOMAIN f :
        Show(f, B)[a] =
          [op |-> f[a].op,
           status |-> IF a \in B THEN "spent"
                      ELSE IF f[a].status = "consumed" THEN "approved" ELSE f[a].status]
  BY DEF Show
<1>5. Show(f, B) \in Seq(Instance) /\ Len(Show(f, B)) = Len(f)
  BY <1>1, <1>2, FunctionIsSequence
<1>6. ASSUME NEW a \in DOMAIN f
      PROVE  /\ Show(f, B)[a].op = f[a].op
             /\ Show(f, B)[a].status =
                  IF a \in B THEN "spent"
                  ELSE IF f[a].status = "consumed" THEN "approved" ELSE f[a].status
  <2> DEFINE status == IF a \in B THEN "spent"
                       ELSE IF f[a].status = "consumed" THEN "approved" ELSE f[a].status
  <2>1. Show(f, B)[a] = [op |-> f[a].op, status |-> status]
    BY <1>4
  <2> HIDE DEF status
  <2>2. Show(f, B)[a].op = f[a].op /\ Show(f, B)[a].status = status
    BY <2>1
  <2> QED
    BY <2>2 DEF status
<1> QED
  BY <1>1, <1>3, <1>5, <1>6

(* What the purse shows does not change when approvals are only held back or *)
(* released.                                                                 *)
LEMMA ShowHeld ==
  ASSUME NEW f \in Seq(Approval), NEW g \in Seq(Approval), NEW B,
         DOMAIN g = DOMAIN f,
         \A a \in DOMAIN f :
           /\ g[a].op = f[a].op
           /\ g[a].status = f[a].status \/ {f[a].status, g[a].status} = {"approved", "consumed"}
  PROVE  Show(g, B) = Show(f, B)
<1>1. \A a \in DOMAIN f :
        g[a].op = f[a].op
        /\ (g[a].status = f[a].status
              \/ (f[a].status = "approved" /\ g[a].status = "consumed")
              \/ (f[a].status = "consumed" /\ g[a].status = "approved"))
  OBVIOUS
<1> QED
  BY <1>1 DEF Show

(* The two ways PaidRef rewrites a purse *)
Spend(purse, paid) ==
  [a \in DOMAIN purse |->
    IF a \in paid THEN [purse[a] EXCEPT !.status = "spent"] ELSE purse[a]]
Answered(purse, a, outcome) == [purse EXCEPT ![a].status = outcome]

LEMMA ShowSpends ==
  ASSUME NEW f \in Seq(Approval), NEW B, NEW paid
  PROVE  Show(f, B \cup paid) = Spend(Show(f, B), paid)
BY DEF Show, Spend

LEMMA ShowAppends ==
  ASSUME NEW f \in Seq(Approval), NEW B, NEW op \in Ops, Len(f) + 1 \notin B
  PROVE  Show(Append(f, [op |-> op, status |-> "pending"]), B)
           = Append(Show(f, B), [op |-> op, status |-> "pending"])
<1> DEFINE new == [op |-> op, status |-> "pending"]
           g == Append(f, new)
<1>1. new \in Approval /\ new \in Instance /\ new.op = op /\ new.status = "pending"
  BY DEF Approval, Instance
<1> HIDE DEF new
<1>2. /\ g \in Seq(Approval) /\ Len(g) = Len(f) + 1 /\ Len(f) \in Nat
      /\ \A a \in 1..Len(f) : g[a] = f[a]
      /\ g[Len(f) + 1] = new
  BY <1>1, AppendProperties, LenProperties
<1> HIDE DEF g
<1>3. /\ Append(Show(f, B), new) \in Seq(Instance)
      /\ Len(Append(Show(f, B), new)) = Len(f) + 1
      /\ \A a \in 1..Len(f) : Append(Show(f, B), new)[a] = Show(f, B)[a]
      /\ Append(Show(f, B), new)[Len(f) + 1] = new
  BY <1>1, ShowRows, AppendProperties
<1>4. Show(g, B) \in Seq(Instance) /\ Len(Show(g, B)) = Len(f) + 1
  BY <1>2, ShowRows
<1>5. \A a \in 1..Len(f) : Show(g, B)[a] = Show(f, B)[a]
  BY <1>2, LenProperties DEF Show
<1>6. Show(g, B)[Len(f) + 1] = new
  <2>1. Len(f) + 1 \in DOMAIN g
    BY <1>2, LenProperties
  <2>2. Show(g, B)[Len(f) + 1] = [op |-> op, status |-> "pending"]
    BY <1>1, <1>2, <2>1 DEF Show
  <2> QED
    BY <2>2 DEF new
<1>7. \A a \in 1..(Len(f) + 1) : Show(g, B)[a] = Append(Show(f, B), new)[a]
  BY <1>2, <1>3, <1>5, <1>6
<1>8. Show(g, B) = Append(Show(f, B), new)
  BY <1>3, <1>4, <1>7, SeqEqual
<1> QED
  BY <1>8 DEF g, new

LEMMA ShowDecides ==
  ASSUME NEW f \in Seq(Approval), NEW B, NEW a \in DOMAIN f, a \notin B,
         NEW outcome \in {"pending", "approved", "denied"}
  PROVE  Show(Answered(f, a, outcome), B) = Answered(Show(f, B), a, outcome)
<1>1. \A b \in DOMAIN f : f[b] \in Approval
  BY LenProperties
<1> QED
  BY <1>1 DEF Show, Approval, Answered

(* What is bought stays consumed in the table. *)
LEMMA BoughtConsumed ==
  ASSUME PromptInv, NEW a \in Bought
  PROVE  a \in DOMAIN approvals /\ approvals[a].status = "consumed"
<1>1. PICK p \in Pushes : Moved(p) /\ a \in push[p].spent
  BY DEF Bought
<1>2. SpendingBalances
  BY DEF PromptInv, CalmInv, GateInv, IInv, Tables
<1> QED
  BY <1>1, <1>2, MovedSpent DEF SpendingBalances

(* A step in which no push moves the ref, or forgets that it did, buys nothing. *)
LEMMA NothingBought ==
  ASSUME \A p \in Pushes :
           \/ ~Moved(p) /\ ~Moved(p)'
           \/ Moved(p) /\ Moved(p)' /\ push'[p].spent = push[p].spent
  PROVE  Bought' = Bought
<1>1. \A a : (\E p \in Pushes : Moved(p) /\ a \in push[p].spent)
               <=> (\E p \in Pushes : Moved(p)' /\ a \in push'[p].spent)
  OBVIOUS
<1> QED
  BY <1>1 DEF Bought, Moved

(* Git moves the ref: the approvals its prepared hook held back are spent. *)
LEMMA CommitBuys ==
  ASSUME PromptInv, PromptInv', NEW p \in Pushes, Commit(p)
  PROVE  \E new \in Revs : PR!Move(new)
<1>1. push \in [Pushes -> Push] /\ push[p] \in Push /\ IInv /\ IInv' /\ GateInv
  BY Typed DEF PromptInv, CalmInv, GateInv
<1>2. /\ push[p].phase = "prepared" /\ ref' = push[p].new /\ approvals' = approvals
      /\ push'[p].phase = "landed" /\ push'[p].spent = push[p].spent
      /\ \A q \in Pushes \ {p} : push'[q] = push[q]
  BY <1>1 DEF Commit, Step, Push
<1> DEFINE paid == push[p].spent
           r == push[p].row
<1>3. r \in DOMAIN ledger /\ ledger[r].status = "prepared" /\ paid = ledger[r].spent
      /\ paid \subseteq DOMAIN approvals
      /\ {approvals[a].op : a \in paid} = Needs[<<ref, ref'>>]
  <2>1. Own(p, r) /\ ledger[r].status = "prepared"
    BY <1>2 DEF PromptInv, CalmInv, OwnRows, Owns, Recorded, Records, Settling
  <2>2. PaidFor(p) /\ ref = push[p].old
    BY <1>1, MovePaid
  <2>3. ledger[r].old = ref
    BY <2>1, <2>2 DEF Own
  <2> QED
    BY <1>1, <2>1, <2>2, <2>3, MovePaid DEF PaidFor, Own
<1>4. \A a \in paid : approvals[a].status = "consumed"
  BY <1>1, <1>3 DEF IInv, Tables, SpendingBalances
<1>5. \A a, b \in paid : approvals[a].op = approvals[b].op => a = b
  BY <1>1, <1>3 DEF IInv, Tables, RowsWellFormed
<1>6. paid \cap Bought = {}
  <2> SUFFICES ASSUME NEW a \in paid, a \in Bought PROVE FALSE
    OBVIOUS
  <2>1. PICK q \in Pushes : Moved(q) /\ a \in push[q].spent
    BY DEF Bought
  <2>2. q # p
    BY <1>2, <2>1 DEF Moved
  <2>3. push[q].row \in DOMAIN ledger /\ push[q].spent = ledger[push[q].row].spent
        /\ ledger[push[q].row].status \in {"prepared", "committed"}
    BY <2>1, MovedSpent
  <2>4. push[q].row # r
    <3>1. push[q].row # 0
      BY <2>1, MovedSpent
    <3> QED
      BY <2>2, <3>1, Zenon DEF PromptInv, CalmInv, GateInv, RowsInv, RowsAreNotShared
  <2> QED
    BY <1>1, <1>3, <2>1, <2>3, <2>4 DEF IInv, Tables, SpendingBalances
<1>7. Bought' = Bought \cup paid
  <2>1. paid \subseteq 1..MaxApprovals
    BY <1>1 DEF Push
  <2>2. \A q \in Pushes : (Moved(q)' <=> Moved(q) \/ q = p) /\ push'[q].spent = push[q].spent
    BY <1>2 DEF Moved
  <2> QED
    BY <2>1, <2>2 DEF Bought, Moved
<1>8. approvals \in Seq(Approval)
  BY <1>1 DEF IInv, TypeOK
<1>9. Purse = Show(approvals, Bought) /\ Purse' = Show(approvals, Bought \cup paid)
  BY <1>1, <1>2, <1>7, PurseShows
<1>10. /\ DOMAIN Purse = DOMAIN approvals
       /\ \A a \in DOMAIN approvals : Purse[a].op = approvals[a].op
       /\ \A a \in paid : Purse[a].status = "approved"
  BY <1>3, <1>4, <1>6, <1>8, <1>9, ShowRows
<1>11. Purse' = [a \in DOMAIN Purse |->
                  IF a \in paid THEN [Purse[a] EXCEPT !.status = "spent"] ELSE Purse[a]]
  <2> HIDE DEF paid
  <2>1. Purse' = Spend(Purse, paid)
    BY <1>8, <1>9, ShowSpends
  <2> QED
    BY <2>1 DEF Spend
<1>12. PR!Price(paid, ref, ref')
  <2>1. {Purse[a].op : a \in paid} = {approvals[a].op : a \in paid}
    BY <1>3, <1>10
  <2>2. \A a, b \in paid : Purse[a].op = Purse[b].op => a = b
    BY <1>3, <1>5, <1>10
  <2> QED
    BY <1>3, <2>1, <2>2 DEF PR!Price
<1>13. ref' \in Revs /\ ref' # ref
  <2>1. ref = push[p].old /\ push[p].new # push[p].old
    BY <1>1, <1>2, MovePaid DEF GateInv, Changes
  <2> QED
    BY <1>1, <1>2, <2>1 DEF Push
<1>14. paid \in SUBSET {a \in DOMAIN Purse : Purse[a].status = "approved"}
  BY <1>3, <1>10
<1> HIDE DEF paid
<1> QED
  BY <1>11, <1>12, <1>13, <1>14 DEF PR!Move

LEMMA RequestAsks ==
  ASSUME PromptInv, PromptInv', NEW op \in Ops, Request(op)
  PROVE  PR!Ask(op)
<1>1. IInv /\ IInv' /\ approvals \in Seq(Approval)
  BY DEF PromptInv, CalmInv, GateInv, IInv, TypeOK
<1>2. UNCHANGED <<ref, push>> /\ approvals' = Append(approvals, [op |-> op, status |-> "pending"])
  BY DEF Request
<1>3. Bought' = Bought
  BY <1>2, NothingBought DEF Moved
<1>4. Len(approvals) + 1 \notin Bought
  BY <1>1, BoughtConsumed, LenProperties
<1> QED
  BY <1>1, <1>2, <1>3, <1>4, PurseShows, ShowAppends DEF PR!Ask

LEMMA DecideAnswers ==
  ASSUME PromptInv, PromptInv', NEW a \in DOMAIN approvals, Decide(a)
  PROVE  PR!Answer(a) /\ a \in DOMAIN Purse
<1>1. IInv /\ IInv' /\ approvals \in Seq(Approval)
  BY DEF PromptInv, CalmInv, GateInv, IInv, TypeOK
<1>2. UNCHANGED <<ref, push>> /\ approvals[a].status \in {"pending", "approved"}
  BY DEF Decide
<1>3. PICK outcome \in {"pending", "approved", "denied"} \ {approvals[a].status} :
        approvals' = [approvals EXCEPT ![a].status = outcome]
  BY DEF Decide
<1>4. Bought' = Bought
  BY <1>2, NothingBought DEF Moved
<1>5. a \notin Bought
  BY <1>2, BoughtConsumed
<1>6. Purse = Show(approvals, Bought) /\ Purse' = [Purse EXCEPT ![a].status = outcome]
  <2>1. Purse = Show(approvals, Bought) /\ Purse' = Show(approvals', Bought)
    BY <1>1, <1>4, PurseShows
  <2>2. Show(Answered(approvals, a, outcome), Bought) = Answered(Purse, a, outcome)
    BY <1>1, <1>5, <2>1, ShowDecides
  <2> QED
    BY <1>3, <2>1, <2>2 DEF Answered
<1>7. Purse[a].status = approvals[a].status /\ a \in DOMAIN Purse
  BY <1>1, <1>2, <1>5, <1>6, ShowRows
<1> QED
  BY <1>2, <1>3, <1>6, <1>7 DEF PR!Answer

(* What every other step does to the approvals, the purse does not show. *)
LEMMA PurseStays ==
  ASSUME PromptInv, PromptInv', ref' = ref,
         \A p \in Pushes :
           \/ ~Moved(p) /\ ~Moved(p)'
           \/ Moved(p) /\ Moved(p)' /\ push'[p].spent = push[p].spent,
         \/ approvals' = approvals
         \/ \E paid : approvals' = Restore(paid)
         \/ \E old, new : approvals' = Consume(Granted(old, new))
  PROVE  UNCHANGED <<ref, Purse>>
<1>1. IInv /\ IInv' /\ approvals \in Seq(Approval) /\ approvals' \in Seq(Approval)
  BY DEF PromptInv, CalmInv, GateInv, IInv, TypeOK
<1> DEFINE Held == /\ DOMAIN approvals' = DOMAIN approvals
                   /\ \A a \in DOMAIN approvals :
                        /\ approvals'[a].op = approvals[a].op
                        /\ \/ approvals'[a].status = approvals[a].status
                           \/ {approvals[a].status, approvals'[a].status} = {"approved", "consumed"}
<1>2. Held
  <2>1. ASSUME NEW paid, approvals' = Restore(paid)  PROVE Held
    BY <1>1, <2>1, RestoreRows DEF Restorable
  <2>2. ASSUME NEW old, NEW new, approvals' = Consume(Granted(old, new))  PROVE Held
    <3>1. \A a \in Granted(old, new) : approvals[a].status = "approved"
      BY <1>1, GrantedInstances
    <3> QED
      BY <1>1, <2>2, <3>1, ConsumeRows
  <2> QED
    BY <2>1, <2>2
<1>3. Bought' = Bought
  BY NothingBought
<1>4. Show(approvals', Bought) = Show(approvals, Bought)
  BY <1>1, <1>2, ShowHeld
<1> QED
  BY <1>1, <1>3, <1>4, PurseShows

LEMMA PaidStep ==
  ASSUME Prompt, PromptInv, PromptInv', [Next]_vars
  PROVE  PR!PaidNext \/ UNCHANGED <<ref, Purse>>
<1>1. push \in [Pushes -> Push] /\ IInv
  BY Typed DEF PromptInv, CalmInv, GateInv
<1> DEFINE Kept(p) == \/ ~Moved(p) /\ ~Moved(p)'
                      \/ Moved(p) /\ Moved(p)' /\ push'[p].spent = push[p].spent
<1>2. ASSUME NEW p \in Pushes, NEW phase, Step(p, phase),
             phase \in {"landed", "moved"} <=> push[p].phase \in {"landed", "moved"}
      PROVE  \A q \in Pushes : Kept(q)
  BY <1>1, <1>2 DEF Step, Push, Moved
<1>3. ASSUME NEW p \in Pushes,
             \/ LockRef(p) \/ LockFails(p) \/ PreparedRefused(p) \/ CommittedHook(p)
             \/ HookLost(p) \/ Die(p) \/ CleanLock(p)
      PROVE  UNCHANGED <<ref, Purse>>
  <2>1. \A q \in Pushes : Kept(q)
    BY <1>2, <1>3 DEF LockRef, LockFails, PreparedRefused, CommittedHook, HookLost, Die, CleanLock
  <2>2. UNCHANGED <<ref, approvals>>
    BY <1>3 DEF LockRef, LockFails, PreparedRefused, CommittedHook, HookLost, Die, CleanLock
  <2> QED
    BY <2>1, <2>2, PurseStays
<1>4. ASSUME NEW p \in Pushes, AbortedHook(p)  PROVE UNCHANGED <<ref, Purse>>
  <2>1. \A q \in Pushes : Kept(q)
    BY <1>2, <1>4 DEF AbortedHook
  <2>2. ref' = ref /\ \E paid : approvals' = Restore(paid)
    BY <1>4 DEF AbortedHook, Abort
  <2> QED
    BY <2>1, <2>2, PurseStays
<1>5. ASSUME NEW p \in Pushes, PreparedHook(p)  PROVE UNCHANGED <<ref, Purse>>
  <2>1. PICK r : Prepares(p, r) /\ approvals' = Consume(Granted(ledger[r].old, ledger[r].new))
    BY <1>1, <1>5, PreparedHookDoes
  <2>2. push[p].phase = "locked" /\ ref' = ref
    BY <1>5 DEF PreparedHook
  <2>3. \A q \in Pushes : Kept(q)
    BY <2>1, <2>2 DEF Prepares, Moved
  <2> QED
    BY <2>1, <2>2, <2>3, PurseStays
<1>6. ASSUME NEW p \in Pushes, NEW new \in Revs, PreReceive(p, new)
      PROVE  UNCHANGED <<ref, Purse>>
  <2>1. push[p].phase = "connected" /\ UNCHANGED <<ref, approvals>>
    BY <1>6 DEF PreReceive
  <2>2. \A q \in Pushes : Kept(q)
    BY <1>1, <1>6, <2>1, PreReceiveDoes DEF Moved
  <2> QED
    BY <2>1, <2>2, PurseStays
<1>7. ASSUME NEW p \in Pushes, Connect(p)  PROVE UNCHANGED <<ref, Purse>>
  <2>1. UNCHANGED <<ref, approvals>>
    BY <1>7 DEF Connect
  <2>2. \A q \in Pushes : Kept(q)
    BY <1>1, <1>7 DEF Connect, Push, Moved
  <2> QED
    BY <2>1, <2>2, PurseStays
<1>8. ASSUME NEW p \in Pushes, Commit(p)  PROVE PR!PaidNext
  BY <1>8, CommitBuys DEF PR!PaidNext
<1>9. ASSUME NEW op \in Ops, Request(op)  PROVE PR!PaidNext
  BY <1>9, RequestAsks DEF PR!PaidNext
<1>10. ASSUME NEW a \in DOMAIN approvals, Decide(a)  PROVE PR!PaidNext
  BY <1>10, DecideAnswers DEF PR!PaidNext
<1>11. push' = push => \A q \in Pushes : Kept(q)
  BY DEF Moved
<1>12. ASSUME NEW r \in DOMAIN ledger, Doctor(r)  PROVE UNCHANGED <<ref, Purse>>
  <2>1. push' = push /\ ref' = ref
        /\ (approvals' = approvals \/ \E paid : approvals' = Restore(paid))
    BY <1>12 DEF Doctor
  <2> QED
    BY <1>11, <2>1, PurseStays
<1>13. ASSUME (\E r \in DOMAIN ledger : Age(r)) \/ OwnerChanges \/ UNCHANGED vars
       PROVE  UNCHANGED <<ref, Purse>>
  <2>1. UNCHANGED <<ref, push, approvals>>
    BY <1>13 DEF Age, OwnerChanges, vars
  <2> QED
    BY <1>11, <2>1, PurseStays
<1>14. ~\E line \in Revs \X Revs : Maintain(line[1], line[2])
  BY DEF Maintain, Calm, Prompt
<1> QED
  BY <1>3, <1>4, <1>5, <1>6, <1>7, <1>8, <1>9, <1>10, <1>12, <1>13, <1>14 DEF Next, Git

(* Where outcomes arrive, validation, two hooks, a lock and a repair are one *)
(* atomic purchase.                                                          *)
THEOREM PushIsPurchase == ASSUME Prompt PROVE Spec => ImplementsPaidRef
<1>1. Init => PR!PaidInit
  <2> SUFFICES ASSUME Init PROVE PR!PaidInit
    OBVIOUS
  <2>1. ref \in Revs /\ approvals = << >>
    BY DEF Init
  <2>2. Purse = << >>
    BY <2>1 DEF Purse
  <2> QED
    BY <2>1, <2>2 DEF PR!PaidInit
<1>2. PromptInv /\ PromptInv' /\ [Next]_vars => [PR!PaidNext]_<<ref, Purse>>
  BY PaidStep
<1> QED
  BY <1>1, <1>2, PromptInvariant, PTL DEF Spec, ImplementsPaidRef, PR!PaidSpec

=============================================================================
