--------------------------- MODULE PushGateProofs ---------------------------
(* Theorems about PushGate. *)
EXTENDS PushGate, SequenceTheorems, TLAPS

LEMMA FunctionIsSequence ==
  ASSUME NEW S, NEW n \in Nat, NEW f \in [1..n -> S]
  PROVE  f \in Seq(S) /\ Len(f) = n
OBVIOUS

(* The three functions that rewrite a table keep its type and its rows, and
   change nothing but the status. *)
LEMMA ConsumeRows ==
  ASSUME approvals \in Seq(Approval), NEW STATE paid
  PROVE  /\ Consume(paid) \in Seq(Approval)
         /\ Len(Consume(paid)) = Len(approvals)
         /\ DOMAIN Consume(paid) = DOMAIN approvals
         /\ \A a \in DOMAIN approvals :
              /\ Consume(paid)[a].op = approvals[a].op
              /\ Consume(paid)[a].status =
                   IF a \in paid THEN "consumed" ELSE approvals[a].status
<1>1. approvals \in [1..Len(approvals) -> Approval] /\ Len(approvals) \in Nat
  BY LenProperties
<1>2. Consume(paid) \in [1..Len(approvals) -> Approval]
  BY <1>1 DEF Consume, Approval
<1>3. \A a \in DOMAIN approvals :
        /\ Consume(paid)[a].op = approvals[a].op
        /\ Consume(paid)[a].status =
             IF a \in paid THEN "consumed" ELSE approvals[a].status
  BY <1>1 DEF Consume, Approval
<1> QED
  BY <1>1, <1>2, <1>3, FunctionIsSequence

Restorable(a, paid) ==
  /\ a \in paid
  /\ approvals[a].status = "consumed"
  /\ LiveInstances(approvals[a].op) = {}

LEMMA RestoreRows ==
  ASSUME approvals \in Seq(Approval), NEW STATE paid
  PROVE  /\ Restore(paid) \in Seq(Approval)
         /\ Len(Restore(paid)) = Len(approvals)
         /\ DOMAIN Restore(paid) = DOMAIN approvals
         /\ \A a \in DOMAIN approvals :
              /\ Restore(paid)[a].op = approvals[a].op
              /\ Restore(paid)[a].status =
                   IF Restorable(a, paid) THEN "approved" ELSE approvals[a].status
<1>1. approvals \in [1..Len(approvals) -> Approval] /\ Len(approvals) \in Nat
  BY LenProperties
<1>2. Restore(paid) \in [1..Len(approvals) -> Approval]
  BY <1>1 DEF Restore, Approval
<1>3. \A a \in DOMAIN approvals :
        /\ Restore(paid)[a].op = approvals[a].op
        /\ Restore(paid)[a].status =
             IF Restorable(a, paid) THEN "approved" ELSE approvals[a].status
  BY <1>1 DEF Restore, Restorable, Approval
<1> QED
  BY <1>1, <1>2, <1>3, FunctionIsSequence

LEMMA ResolvedRows ==
  ASSUME ledger \in Seq(Row), NEW STATE rows, NEW STATE outcome,
         outcome \in {"committed", "aborted"}
  PROVE  /\ Resolved(rows, outcome) \in Seq(Row)
         /\ DOMAIN Resolved(rows, outcome) = DOMAIN ledger
         /\ \A r \in DOMAIN ledger :
              /\ Resolved(rows, outcome)[r].spent = ledger[r].spent
              /\ Resolved(rows, outcome)[r].status =
                   IF r \in rows THEN outcome ELSE ledger[r].status
<1>1. ledger \in [1..Len(ledger) -> Row] /\ Len(ledger) \in Nat
  BY LenProperties
<1>2. Resolved(rows, outcome) \in [1..Len(ledger) -> Row]
  BY <1>1 DEF Resolved, Row
<1>3. \A r \in DOMAIN ledger :
        /\ Resolved(rows, outcome)[r].spent = ledger[r].spent
        /\ Resolved(rows, outcome)[r].status =
             IF r \in rows THEN outcome ELSE ledger[r].status
  BY <1>1 DEF Resolved, Row
<1> QED
  BY <1>1, <1>2, <1>3, FunctionIsSequence

-----------------------------------------------------------------------------
(* What a row says it spent exists, was spent when the row was prepared, and is
   one instance per operation. *)
RowsWellFormed ==
  \A r \in DOMAIN ledger :
    /\ ledger[r].spent \subseteq DOMAIN approvals
    /\ ledger[r].status = "validated" => ledger[r].spent = {}
    /\ \A a, b \in ledger[r].spent : approvals[a].op = approvals[b].op => a = b

(* The tables agree. *)
Tables ==
  /\ RowsWellFormed
  /\ SpendingBalances
  /\ OneLiveInstance

IInv == TypeOK /\ Tables

(* Recording an outcome of Git as committed spends nothing. *)
LEMMA CommitTables ==
  ASSUME IInv, NEW rows,
         \A r \in rows : ledger[r].status = "prepared",
         ledger' = Resolved(rows, "committed"), approvals' = approvals
  PROVE  Tables'
<1>1. /\ DOMAIN ledger' = DOMAIN ledger
      /\ \A r \in DOMAIN ledger :
           /\ ledger'[r].spent = ledger[r].spent
           /\ ledger'[r].status =
                IF r \in rows THEN "committed" ELSE ledger[r].status
  BY ResolvedRows DEF IInv, TypeOK
<1>2. RowsWellFormed'
  BY <1>1 DEF IInv, Tables, RowsWellFormed
<1>3. OneLiveInstance'
  BY DEF IInv, Tables, OneLiveInstance, LiveInstances, InstancesOf
<1>4. SpendingBalances'
  BY <1>1 DEF IInv, Tables, SpendingBalances, InstancesOf
<1> QED
  BY <1>2, <1>3, <1>4 DEF Tables

(* Recording an update as aborted gives back what it had spent, unless another
   instance is live. *)
LEMMA AbortTables ==
  ASSUME IInv, NEW rows, rows \subseteq DOMAIN ledger,
         \A r, s \in rows : r = s,
         \A r \in rows : ledger[r].status \in {"validated", "prepared"},
         ledger' = Resolved(rows, "aborted"), approvals' = Restore(SpentBy(rows))
  PROVE  Tables'
<1>1. /\ DOMAIN ledger' = DOMAIN ledger
      /\ \A r \in DOMAIN ledger :
           /\ ledger'[r].spent = ledger[r].spent
           /\ ledger'[r].status =
                IF r \in rows THEN "aborted" ELSE ledger[r].status
  BY ResolvedRows DEF IInv, TypeOK
<1>2. /\ DOMAIN approvals' = DOMAIN approvals
      /\ \A a \in DOMAIN approvals :
           /\ approvals'[a].op = approvals[a].op
           /\ approvals'[a].status =
                IF Restorable(a, SpentBy(rows)) THEN "approved" ELSE approvals[a].status
  BY RestoreRows DEF IInv, TypeOK
<1>3. RowsWellFormed'
  BY <1>1, <1>2 DEF IInv, Tables, RowsWellFormed
<1>4. OneLiveInstance'
  <2>1. SUFFICES ASSUME NEW op \in Ops, NEW a \in LiveInstances(op)', NEW b \in LiveInstances(op)'
                 PROVE  a = b
    BY DEF OneLiveInstance
  <2>2. a \in DOMAIN approvals /\ b \in DOMAIN approvals
        /\ approvals[a].op = op /\ approvals[b].op = op
    BY <1>2, <2>1 DEF LiveInstances, InstancesOf
  <2>3. CASE a \in LiveInstances(op) /\ b \in LiveInstances(op)
    BY <2>3 DEF IInv, Tables, OneLiveInstance
  <2>4. CASE a \notin LiveInstances(op) \/ b \notin LiveInstances(op)
    <3>1. LiveInstances(op) = {}
      BY <1>2, <2>1, <2>2, <2>4 DEF LiveInstances, InstancesOf, Restorable
    <3>2. a \in SpentBy(rows) /\ b \in SpentBy(rows)
      BY <1>2, <2>1, <2>2, <3>1 DEF LiveInstances, InstancesOf, Restorable
    <3>3. PICK r \in rows : a \in ledger[r].spent /\ b \in ledger[r].spent
      BY <3>2 DEF SpentBy
    <3> QED
      BY <2>2, <3>3 DEF IInv, Tables, RowsWellFormed
  <2> QED
    BY <2>3, <2>4
<1>5. SpendingBalances'
  <2>1. ASSUME NEW r \in DOMAIN ledger', ledger'[r].status \in {"prepared", "committed"},
               NEW a \in ledger'[r].spent
        PROVE  /\ approvals'[a].status = "consumed"
               /\ \A s \in DOMAIN ledger' \ {r} :
                    a \in ledger'[s].spent => ledger'[s].status = "aborted"
    <3>1. /\ r \notin rows /\ a \in ledger[r].spent
          /\ ledger[r].status \in {"prepared", "committed"}
      BY <1>1, <2>1
    <3>2. /\ a \in DOMAIN approvals /\ approvals[a].status = "consumed"
          /\ \A s \in DOMAIN ledger \ {r} :
               a \in ledger[s].spent => ledger[s].status = "aborted"
      BY <1>1, <3>1 DEF IInv, Tables, SpendingBalances, RowsWellFormed
    <3>3. a \notin SpentBy(rows)
      BY <3>1, <3>2 DEF SpentBy
    <3> QED
      BY <1>1, <1>2, <3>2, <3>3 DEF Restorable
  <2>2. ASSUME NEW a \in DOMAIN approvals', approvals'[a].status = "consumed"
        PROVE  \/ \E r \in DOMAIN ledger' :
                    a \in ledger'[r].spent /\ ledger'[r].status \in {"prepared", "committed"}
               \/ InstancesOf(approvals[a].op)' # {a}
    <3>1. a \in DOMAIN approvals /\ approvals[a].status = "consumed"
      BY <1>2, <2>2
    <3>2. CASE InstancesOf(approvals[a].op) # {a}
      BY <1>2, <3>2 DEF InstancesOf
    <3>3. CASE \E r \in DOMAIN ledger :
                 a \in ledger[r].spent /\ ledger[r].status \in {"prepared", "committed"}
      <4>1. PICK r \in DOMAIN ledger :
              a \in ledger[r].spent /\ ledger[r].status \in {"prepared", "committed"}
        BY <3>3
      <4>2. CASE r \notin rows
        BY <1>1, <4>1, <4>2
      <4>3. CASE r \in rows
        <5>1. a \in SpentBy(rows)
          BY <4>1, <4>3 DEF SpentBy
        <5>2. ~Restorable(a, SpentBy(rows))
          BY <1>2, <2>2, <3>1
        <5>3. LiveInstances(approvals[a].op) # {}
          BY <3>1, <5>1, <5>2 DEF Restorable
        <5>4. PICK b \in LiveInstances(approvals[a].op) : TRUE
          BY <5>3
        <5>5. b # a /\ b \in InstancesOf(approvals[a].op)
          BY <3>1, <5>4 DEF LiveInstances
        <5> QED
          BY <1>2, <3>1, <5>5 DEF InstancesOf
      <4> QED
        BY <4>2, <4>3
    <3> QED
      BY <3>1, <3>2, <3>3 DEF IInv, Tables, SpendingBalances
  <2> QED
    BY <2>1, <2>2 DEF SpendingBalances
<1> QED
  BY <1>3, <1>4, <1>5 DEF Tables

(* Preparing an update spends approvals that no other row holds: they are
   approved, and what an accepted row holds is consumed. *)
LEMMA PrepareTables ==
  ASSUME IInv, NEW r \in DOMAIN ledger, ledger[r].status = "validated",
         NEW paid, paid \subseteq DOMAIN approvals,
         \A a \in paid : approvals[a].status = "approved",
         \A a, b \in paid : approvals[a].op = approvals[b].op => a = b,
         DOMAIN ledger' = DOMAIN ledger,
         ledger'[r].spent = paid, ledger'[r].status = "prepared",
         \A s \in DOMAIN ledger \ {r} : ledger'[s] = ledger[s],
         approvals' = Consume(paid)
  PROVE  Tables'
<1>1. /\ DOMAIN ledger' = DOMAIN ledger
      /\ ledger'[r].spent = paid /\ ledger'[r].status = "prepared"
      /\ \A s \in DOMAIN ledger \ {r} : ledger'[s] = ledger[s]
  OBVIOUS
<1>2. /\ DOMAIN approvals' = DOMAIN approvals
      /\ \A a \in DOMAIN approvals :
           /\ approvals'[a].op = approvals[a].op
           /\ approvals'[a].status =
                IF a \in paid THEN "consumed" ELSE approvals[a].status
  <2>1. approvals \in Seq(Approval)
    BY DEF IInv, TypeOK
  <2> QED
    BY <2>1, ConsumeRows
<1>3. RowsWellFormed'
  BY <1>1, <1>2 DEF IInv, Tables, RowsWellFormed
<1>4. OneLiveInstance'
  BY <1>2 DEF IInv, Tables, OneLiveInstance, LiveInstances, InstancesOf
<1>5. \A s \in DOMAIN ledger \ {r} : \A a \in paid :
        a \in ledger[s].spent => ledger[s].status = "aborted"
  <2>1. \A s \in DOMAIN ledger :
          ledger[s].status \in {"validated", "prepared", "committed", "aborted"}
    <3>1. ledger \in [DOMAIN ledger -> Row]
      BY LenProperties DEF IInv, TypeOK
    <3> QED
      BY <3>1 DEF Row
  <2> QED
    BY <2>1 DEF IInv, Tables, SpendingBalances, RowsWellFormed
<1>6. SpendingBalances'
  <2>1. ASSUME NEW s \in DOMAIN ledger', ledger'[s].status \in {"prepared", "committed"},
               NEW a \in ledger'[s].spent
        PROVE  /\ approvals'[a].status = "consumed"
               /\ \A t \in DOMAIN ledger' \ {s} :
                    a \in ledger'[t].spent => ledger'[t].status = "aborted"
    <3>1. CASE s = r
      BY <1>1, <1>2, <1>5, <2>1, <3>1
    <3>2. CASE s # r
      <4>1. /\ a \in DOMAIN approvals /\ approvals[a].status = "consumed"
            /\ \A t \in DOMAIN ledger \ {s} :
                 a \in ledger[t].spent => ledger[t].status = "aborted"
        BY <1>1, <2>1, <3>2 DEF IInv, Tables, SpendingBalances, RowsWellFormed
      <4> QED
        BY <1>1, <1>2, <4>1
    <3> QED
      BY <3>1, <3>2
  <2>2. ASSUME NEW a \in DOMAIN approvals', approvals'[a].status = "consumed"
        PROVE  \/ \E s \in DOMAIN ledger' :
                    a \in ledger'[s].spent /\ ledger'[s].status \in {"prepared", "committed"}
               \/ InstancesOf(approvals[a].op)' # {a}
    <3>1. CASE a \in paid
      BY <1>1, <3>1
    <3>2. CASE a \notin paid
      <4>1. \/ \E s \in DOMAIN ledger :
                 a \in ledger[s].spent /\ ledger[s].status \in {"prepared", "committed"}
            \/ InstancesOf(approvals[a].op) # {a}
        BY <1>2, <2>2, <3>2 DEF IInv, Tables, SpendingBalances
      <4>2. InstancesOf(approvals[a].op)' = InstancesOf(approvals[a].op)
        BY <1>2, <2>2 DEF InstancesOf
      <4> QED
        BY <1>1, <4>1, <4>2
    <3> QED
      BY <3>1, <3>2
  <2> QED
    BY <2>1, <2>2 DEF SpendingBalances
<1> QED
  BY <1>3, <1>4, <1>6 DEF Tables

(* A validated row holds nothing yet. *)
LEMMA ValidateTables ==
  ASSUME IInv, NEW row \in Row, row.status = "validated", row.spent = {},
         ledger' = Append(ledger, row), approvals' = approvals
  PROVE  Tables'
<1>1. /\ DOMAIN ledger' = DOMAIN ledger \cup {Len(ledger) + 1}
      /\ Len(ledger) + 1 \notin DOMAIN ledger
      /\ ledger'[Len(ledger) + 1] = row
      /\ \A s \in DOMAIN ledger : ledger'[s] = ledger[s]
  BY LenProperties, AppendProperties DEF IInv, TypeOK
<1>2. RowsWellFormed'
  BY <1>1 DEF IInv, Tables, RowsWellFormed
<1>3. OneLiveInstance'
  BY DEF IInv, Tables, OneLiveInstance, LiveInstances, InstancesOf
<1>4. SpendingBalances'
  BY <1>1 DEF IInv, Tables, SpendingBalances, InstancesOf
<1> QED
  BY <1>2, <1>3, <1>4 DEF Tables

(* A request adds an instance only when none is live. *)
LEMMA RequestTables ==
  ASSUME IInv, NEW op \in Ops, Request(op)
  PROVE  Tables'
<1>1. /\ DOMAIN approvals' = DOMAIN approvals \cup {Len(approvals) + 1}
      /\ Len(approvals) + 1 \notin DOMAIN approvals
      /\ approvals'[Len(approvals) + 1] = [op |-> op, status |-> "pending"]
      /\ \A a \in DOMAIN approvals : approvals'[a] = approvals[a]
  BY LenProperties, AppendProperties DEF IInv, TypeOK, Request, Approval
<1>2. ledger' = ledger /\ LiveInstances(op) = {}
  BY DEF Request
<1>3. RowsWellFormed'
  BY <1>1, <1>2 DEF IInv, Tables, RowsWellFormed
<1>4. OneLiveInstance'
  <2>1. \A o \in Ops : LiveInstances(o)' =
          LiveInstances(o) \cup (IF o = op THEN {Len(approvals) + 1} ELSE {})
    BY <1>1 DEF LiveInstances, InstancesOf
  <2> QED
    BY <1>2, <2>1 DEF IInv, Tables, OneLiveInstance
<1>5. SpendingBalances'
  <2>1. \A a \in DOMAIN approvals : InstancesOf(approvals[a].op) # {a}
          => InstancesOf(approvals[a].op)' # {a}
    BY <1>1 DEF InstancesOf
  <2> QED
    BY <1>1, <1>2, <2>1 DEF IInv, Tables, SpendingBalances, RowsWellFormed
<1> QED
  BY <1>3, <1>4, <1>5 DEF Tables

(* A decision moves one live instance, which no row holds, and revives none. *)
LEMMA DecideTables ==
  ASSUME IInv, NEW a \in DOMAIN approvals, Decide(a)
  PROVE  Tables'
<1>1. PICK outcome \in {"pending", "approved", "denied"} :
        approvals' = [approvals EXCEPT ![a].status = outcome]
  BY DEF Decide
<1>2. /\ approvals[a].status \in {"pending", "approved"}
      /\ DOMAIN approvals' = DOMAIN approvals
      /\ approvals'[a].op = approvals[a].op /\ approvals'[a].status = outcome
      /\ \A b \in DOMAIN approvals \ {a} : approvals'[b] = approvals[b]
      /\ ledger' = ledger
  <2>1. approvals \in [DOMAIN approvals -> Approval]
    BY LenProperties DEF IInv, TypeOK
  <2> QED
    BY <1>1, <2>1 DEF Approval, Decide
<1>3. RowsWellFormed'
  BY <1>2 DEF IInv, Tables, RowsWellFormed
<1>4. OneLiveInstance'
  BY <1>2 DEF IInv, Tables, OneLiveInstance, LiveInstances, InstancesOf
<1>5. SpendingBalances'
  <2>1. \A b \in DOMAIN approvals : InstancesOf(approvals[b].op)' = InstancesOf(approvals[b].op)
    BY <1>2 DEF InstancesOf
  <2> QED
    BY <1>2, <2>1 DEF IInv, Tables, SpendingBalances, RowsWellFormed
<1> QED
  BY <1>3, <1>4, <1>5 DEF Tables

(* Time changes what the hooks find, not what the rows hold. *)
LEMMA AgeTables ==
  ASSUME IInv, NEW r \in DOMAIN ledger, Age(r)
  PROVE  Tables'
<1>1. /\ approvals' = approvals
      /\ DOMAIN ledger' = DOMAIN ledger
      /\ \A s \in DOMAIN ledger :
           ledger'[s].spent = ledger[s].spent /\ ledger'[s].status = ledger[s].status
  BY ElementOfSeq, LenProperties DEF IInv, TypeOK, Row, Age
<1> QED
  BY <1>1 DEF IInv, Tables, RowsWellFormed, SpendingBalances, OneLiveInstance,
              LiveInstances, InstancesOf

-----------------------------------------------------------------------------
(* What the hooks and the gate pick. *)
LEMMA FoundRows ==
  ASSUME IInv, NEW status, NEW old, NEW new
  PROVE  /\ FoundRow(status, old, new) \subseteq DOMAIN ledger
         /\ \A r \in FoundRow(status, old, new) : ledger[r].status = status
         /\ \A r, s \in FoundRow(status, old, new) : r = s
<1>1. DOMAIN ledger \subseteq Nat
  BY LenProperties DEF IInv, TypeOK
<1> QED
  BY <1>1 DEF FoundRow, Newest, Matching

LEMMA ToAbortRows ==
  ASSUME IInv, NEW old, NEW new
  PROVE  /\ ToAbort(old, new) \subseteq DOMAIN ledger
         /\ \A r \in ToAbort(old, new) : ledger[r].status \in {"validated", "prepared"}
         /\ \A r, s \in ToAbort(old, new) : r = s
BY FoundRows DEF ToAbort

LEMMA GrantedInstances ==
  ASSUME IInv, NEW old, NEW new
  PROVE  /\ Granted(old, new) \subseteq DOMAIN approvals
         /\ Granted(old, new) \in SUBSET (1..MaxApprovals)
         /\ \A a \in Granted(old, new) : approvals[a].status = "approved"
         /\ \A a, b \in Granted(old, new) : approvals[a].op = approvals[b].op => a = b
<1>1. DOMAIN approvals \subseteq 1..MaxApprovals
  BY LenProperties, BoundsAssumption DEF IInv, TypeOK
<1> QED
  BY <1>1 DEF Granted, Usable, InstancesOf

LEMMA CommitType ==
  ASSUME IInv, NEW rows, ledger' = Resolved(rows, "committed")
  PROVE  ledger' \in Seq(Row)
BY ResolvedRows DEF IInv, TypeOK

LEMMA AbortKeeps ==
  ASSUME IInv, NEW old, NEW new, Abort(old, new)
  PROVE  /\ ledger' \in Seq(Row)
         /\ approvals' \in Seq(Approval) /\ Len(approvals') <= MaxApprovals
         /\ Tables'
<1>1. Tables'
  BY AbortTables, ToAbortRows DEF Abort
<1>2. ledger' \in Seq(Row)
  BY ResolvedRows DEF Abort, IInv, TypeOK
<1>3. approvals' \in Seq(Approval) /\ Len(approvals') <= MaxApprovals
  BY RestoreRows DEF Abort, IInv, TypeOK
<1> QED
  BY <1>1, <1>2, <1>3

(* A step of Git that only moves a push along its phases. *)
LEMMA StepType ==
  ASSUME TypeOK, NEW p \in Pushes, NEW phase \in Phases, Step(p, phase)
  PROVE  push' \in [Pushes -> Push]
BY DEF TypeOK, Step, Push

LEMMA TablesUnchanged ==
  ASSUME IInv, UNCHANGED <<ledger, approvals>>
  PROVE  /\ ledger' \in Seq(Row)
         /\ approvals' \in Seq(Approval) /\ Len(approvals') <= MaxApprovals
         /\ Tables'
BY DEF IInv, TypeOK, Tables, RowsWellFormed, SpendingBalances, OneLiveInstance,
       LiveInstances, InstancesOf

LEMMA InvInit ==
  Init => IInv
<1> SUFFICES ASSUME Init PROVE IInv
  OBVIOUS
<1>1. ledger = << >> /\ approvals = << >>
  BY DEF Init
<1>2. ledger \in Seq(Row) /\ approvals \in Seq(Approval) /\ Len(approvals) = 0
      /\ DOMAIN ledger = {} /\ DOMAIN approvals = {}
  BY <1>1
<1>3. push \in [Pushes -> Push]
  BY RevsAssumption DEF Init, Push, Phases
<1>4. TypeOK
  BY <1>2, <1>3, BoundsAssumption, RevsAssumption DEF Init, TypeOK
<1>5. Tables
  BY <1>2 DEF Tables, RowsWellFormed, SpendingBalances, OneLiveInstance,
              LiveInstances, InstancesOf
<1> QED
  BY <1>4, <1>5 DEF IInv

LEMMA PreReceiveInv ==
  ASSUME IInv, NEW p \in Pushes, NEW new \in Revs, PreReceive(p, new)
  PROVE  IInv'
<1> DEFINE row == [old |-> push[p].old, new |-> new, who |-> push[p].who,
                   status |-> "validated", stale |-> FALSE, spent |-> {}]
<1>1. push[p] \in Push
  BY DEF IInv, TypeOK
<1>2. row \in Row
  BY <1>1 DEF Row, Push
<1>3. ledger' = Append(ledger, row) /\ UNCHANGED <<ref, lock, owner, approvals>>
  BY DEF PreReceive
<1>4. Tables'
  BY <1>2, <1>3, ValidateTables
<1>5. ledger' \in Seq(Row)
  BY <1>2, <1>3, AppendProperties DEF IInv, TypeOK
<1>6. push' \in [Pushes -> Push]
  BY <1>1 DEF PreReceive, IInv, TypeOK, Push, Phases
<1> QED
  BY <1>3, <1>4, <1>5, <1>6 DEF IInv, TypeOK

LEMMA PreparedHookInv ==
  ASSUME IInv, NEW p \in Pushes, PreparedHook(p)
  PROVE  IInv'
<1>1. push[p] \in Push
  BY DEF IInv, TypeOK
<1>2. PICK r \in FoundRow("validated", push[p].old, push[p].new) :
        LET granted == Granted(ledger[r].old, ledger[r].new)
        IN /\ approvals' = Consume(granted)
           /\ ledger' = [ledger EXCEPT ![r].status = "prepared", ![r].spent = granted]
           /\ push' = [push EXCEPT ![p] =
                [@ EXCEPT !.phase = "prepared", !.row = r, !.spent = granted]]
  BY DEF PreparedHook
<1> DEFINE granted == Granted(ledger[r].old, ledger[r].new)
<1>3. r \in DOMAIN ledger /\ ledger[r].status = "validated"
  BY <1>2, FoundRows
<1>4. /\ granted \subseteq DOMAIN approvals
      /\ granted \in SUBSET (1..MaxApprovals)
      /\ \A a \in granted : approvals[a].status = "approved"
      /\ \A a, b \in granted : approvals[a].op = approvals[b].op => a = b
  BY GrantedInstances
<1>5. ledger \in [1..Len(ledger) -> Row] /\ Len(ledger) \in Nat
      /\ DOMAIN ledger = 1..Len(ledger)
  BY LenProperties DEF IInv, TypeOK
<1>6. /\ ledger' \in [1..Len(ledger) -> Row]
      /\ ledger'[r].spent = granted /\ ledger'[r].status = "prepared"
      /\ \A s \in DOMAIN ledger \ {r} : ledger'[s] = ledger[s]
  <2> HIDE DEF granted
  <2>1. ledger' = [ledger EXCEPT ![r].status = "prepared", ![r].spent = granted]
    BY <1>2 DEF granted
  <2> QED
    BY <1>3, <1>4, <1>5, <2>1 DEF Row
<1>7. ledger' \in Seq(Row) /\ DOMAIN ledger' = DOMAIN ledger
  BY <1>5, <1>6, FunctionIsSequence
<1>8. approvals' = Consume(granted)
  BY <1>2
<1>9. Tables'
  BY <1>3, <1>4, <1>6, <1>7, <1>8, PrepareTables
<1>10. approvals' \in Seq(Approval) /\ Len(approvals') <= MaxApprovals
  BY <1>8, ConsumeRows DEF IInv, TypeOK
<1>11. push' \in [Pushes -> Push]
  <2> HIDE DEF granted
  <2>1. push' = [push EXCEPT ![p] =
          [@ EXCEPT !.phase = "prepared", !.row = r, !.spent = granted]]
    BY <1>2 DEF granted
  <2>2. r \in Nat /\ push \in [Pushes -> Push]
    BY <1>3, <1>5 DEF IInv, TypeOK
  <2>3. granted \in SUBSET (1..MaxApprovals)
    BY <1>4
  <2>4. [push[p] EXCEPT !.phase = "prepared", !.row = r, !.spent = granted] \in Push
    BY <1>1, <2>2, <2>3 DEF Push, Phases
  <2> QED
    BY <2>1, <2>2, <2>4
<1>12. UNCHANGED <<ref, lock, owner>>
  BY DEF PreparedHook
<1> QED
  BY <1>7, <1>9, <1>10, <1>11, <1>12 DEF IInv, TypeOK

(* The phases in which neither table changes. *)
LEMMA QuietInv ==
  ASSUME IInv, NEW p \in Pushes,
         \/ Connect(p) \/ LockRef(p) \/ LockFails(p) \/ PreparedRefused(p)
         \/ Commit(p) \/ HookLost(p) \/ Die(p) \/ CleanLock(p)
  PROVE  IInv'
<1>1. push[p] \in Push /\ TypeOK
  BY DEF IInv, TypeOK
<1>2. UNCHANGED <<ledger, approvals>>
  BY DEF Connect, LockRef, LockFails, PreparedRefused, Commit, HookLost, Die, CleanLock
<1>3. push' \in [Pushes -> Push]
  <2>1. CASE Connect(p)
    BY <1>1, <2>1 DEF Connect, TypeOK, Push, Phases
  <2>2. CASE ~Connect(p)
    <3>1. PICK phase \in Phases : Step(p, phase)
      BY <2>2 DEF LockRef, LockFails, PreparedRefused, Commit, HookLost, Die, CleanLock, Phases
    <3> QED
      BY <1>1, <3>1, StepType
  <2> QED
    BY <2>1, <2>2
<1>4. ref' \in Revs /\ lock' \in Pushes \cup {Free} /\ owner' = owner
  BY <1>1 DEF Connect, LockRef, LockFails, PreparedRefused, Commit, HookLost, Die,
              CleanLock, TypeOK, Push
<1> QED
  BY <1>1, <1>2, <1>3, <1>4, TablesUnchanged DEF IInv, TypeOK

LEMMA OutcomeHookInv ==
  ASSUME IInv, NEW p \in Pushes, AbortedHook(p) \/ CommittedHook(p)
  PROVE  IInv'
<1>1. PICK phase \in Phases : Step(p, phase)
  BY DEF AbortedHook, CommittedHook, Phases
<1>2. push' \in [Pushes -> Push] /\ UNCHANGED <<ref, lock, owner>>
  BY <1>1, StepType DEF IInv, AbortedHook, CommittedHook
<1>3. CASE AbortedHook(p)
  <2>1. Abort(push[p].old, push[p].new)
    BY <1>3 DEF AbortedHook
  <2> QED
    BY <1>2, <2>1, AbortKeeps DEF IInv, TypeOK
<1>4. CASE CommittedHook(p)
  <2> DEFINE rows == FoundRow("prepared", push[p].old, push[p].new)
  <2>1. ledger' = Resolved(rows, "committed") /\ approvals' = approvals
    BY <1>4 DEF CommittedHook
  <2>2. \A r \in rows : ledger[r].status = "prepared"
    BY FoundRows
  <2> QED
    BY <1>2, <2>1, <2>2, CommitTables, CommitType DEF IInv, TypeOK
<1> QED
  BY <1>3, <1>4

LEMMA MaintainInv ==
  ASSUME IInv, NEW old \in Revs, NEW new \in Revs, Maintain(old, new)
  PROVE  IInv'
<1>1. UNCHANGED <<lock, owner, push>> /\ ref' \in Revs
  BY DEF Maintain, IInv, TypeOK
<1>2. CASE Abort(old, new)
  BY <1>1, <1>2, AbortKeeps DEF IInv, TypeOK
<1>3. CASE /\ ledger' = Resolved(FoundRow("prepared", old, new), "committed")
           /\ UNCHANGED approvals
  <2>1. \A r \in FoundRow("prepared", old, new) : ledger[r].status = "prepared"
    BY FoundRows
  <2> QED
    BY <1>1, <1>3, <2>1, CommitTables, CommitType DEF IInv, TypeOK
<1> QED
  BY <1>2, <1>3 DEF Maintain

LEMMA DoctorInv ==
  ASSUME IInv, NEW r \in DOMAIN ledger, Doctor(r)
  PROVE  IInv'
<1>1. ledger[r].status = "prepared" /\ UNCHANGED <<ref, lock, owner, push>>
  BY DEF Doctor
<1>2. CASE ledger' = Resolved({r}, "committed") /\ UNCHANGED approvals
  <2>1. Tables'
    BY <1>1, <1>2, CommitTables
  <2>2. ledger' \in Seq(Row)
    BY <1>2, CommitType
  <2> QED
    BY <1>1, <1>2, <2>1, <2>2 DEF IInv, TypeOK
<1>3. CASE ledger' = Resolved({r}, "aborted") /\ approvals' = Restore(ledger[r].spent)
  <2>1. SpentBy({r}) = ledger[r].spent
    BY DEF SpentBy
  <2>2. Tables'
    BY <1>1, <1>3, <2>1, AbortTables
  <2>3. ledger' \in Seq(Row)
    BY <1>3, ResolvedRows DEF IInv, TypeOK
  <2>4. approvals' \in Seq(Approval) /\ Len(approvals') <= MaxApprovals
    BY <1>3, RestoreRows DEF IInv, TypeOK
  <2> QED
    BY <1>1, <2>2, <2>3, <2>4 DEF IInv, TypeOK
<1> QED
  BY <1>2, <1>3 DEF Doctor

LEMMA AgeInv ==
  ASSUME IInv, NEW r \in DOMAIN ledger, Age(r)
  PROVE  IInv'
<1>1. ledger \in [1..Len(ledger) -> Row] /\ Len(ledger) \in Nat
      /\ DOMAIN ledger = 1..Len(ledger)
  BY LenProperties DEF IInv, TypeOK
<1>2. ledger' \in [1..Len(ledger) -> Row]
  BY <1>1 DEF Age, Row
<1>3. ledger' \in Seq(Row)
  BY <1>1, <1>2, FunctionIsSequence
<1>4. UNCHANGED <<ref, lock, owner, push, approvals>>
  BY DEF Age
<1> QED
  BY <1>3, <1>4, AgeTables DEF IInv, TypeOK

LEMMA RequestInv ==
  ASSUME IInv, NEW op \in Ops, Request(op)
  PROVE  IInv'
<1>1. [op |-> op, status |-> "pending"] \in Approval
  BY DEF Approval
<1>2. approvals' \in Seq(Approval) /\ Len(approvals') = Len(approvals) + 1
  BY <1>1, AppendProperties DEF Request, IInv, TypeOK
<1>3. Len(approvals') <= MaxApprovals
  BY <1>2, LenProperties, BoundsAssumption DEF Request, IInv, TypeOK
<1>4. UNCHANGED <<ref, lock, owner, push, ledger>>
  BY DEF Request
<1> QED
  BY <1>2, <1>3, <1>4, RequestTables DEF IInv, TypeOK

LEMMA DecideInv ==
  ASSUME IInv, NEW a \in DOMAIN approvals, Decide(a)
  PROVE  IInv'
<1>1. approvals \in [1..Len(approvals) -> Approval] /\ Len(approvals) \in Nat
      /\ DOMAIN approvals = 1..Len(approvals)
  BY LenProperties DEF IInv, TypeOK
<1>2. approvals' \in [1..Len(approvals) -> Approval]
  BY <1>1 DEF Decide, Approval
<1>3. approvals' \in Seq(Approval) /\ Len(approvals') = Len(approvals)
  BY <1>1, <1>2, FunctionIsSequence
<1>4. UNCHANGED <<ref, lock, owner, push, ledger>>
  BY DEF Decide
<1> QED
  BY <1>3, <1>4, DecideTables DEF IInv, TypeOK

LEMMA InvNext ==
  IInv /\ [Next]_vars => IInv'
<1> SUFFICES ASSUME IInv, [Next]_vars PROVE IInv'
  OBVIOUS
<1>1. ASSUME NEW p \in Pushes, Connect(p) \/ Git(p) \/ HookLost(p) \/ Die(p)
      PROVE  IInv'
  BY <1>1, QuietInv, PreparedHookInv, OutcomeHookInv DEF Git
<1>2. ASSUME NEW p \in Pushes, NEW new \in Revs, PreReceive(p, new)
      PROVE  IInv'
  BY <1>2, PreReceiveInv
<1>3. ASSUME NEW line \in Revs \X Revs, Maintain(line[1], line[2])
      PROVE  IInv'
  BY <1>3, MaintainInv
<1>4. ASSUME NEW r \in DOMAIN ledger, Doctor(r) \/ Age(r)
      PROVE  IInv'
  BY <1>4, DoctorInv, AgeInv
<1>5. ASSUME NEW op \in Ops, Request(op)
      PROVE  IInv'
  BY <1>5, RequestInv
<1>6. ASSUME NEW a \in DOMAIN approvals, Decide(a)
      PROVE  IInv'
  BY <1>6, DecideInv
<1>7. CASE OwnerChanges
  BY <1>7, TablesUnchanged DEF OwnerChanges, IInv, TypeOK
<1>8. CASE UNCHANGED vars
  BY <1>8, TablesUnchanged DEF vars, IInv, TypeOK
<1> QED
  BY <1>1, <1>2, <1>3, <1>4, <1>5, <1>6, <1>7, <1>8 DEF Next

LEMMA Invariant ==
  Spec => []IInv
BY InvInit, InvNext, PTL DEF Spec

(* The refs, phases and rows keep their types, whatever hooks are lost. *)
THEOREM GateTypeCorrect == Spec => []TypeOK
BY Invariant, PTL DEF IInv

(* The tables balance in every execution: lost, late and swapped outcome hooks
   never leave an approval spent twice, or spent by no update. *)
THEOREM BooksBalance == Spec => []SpendingBalances
BY Invariant, PTL DEF IInv, Tables

(* No sequence of aborts, repairs and requests makes two approvals of one
   operation live. *)
THEOREM OneLiveApproval == Spec => []OneLiveInstance
BY Invariant, PTL DEF IInv, Tables

-----------------------------------------------------------------------------
(* Each push rests on a row of its own: a row is used when it leaves
   "validated", and never returns there. *)
RowsInv ==
  /\ \A p \in Pushes :
       push[p].phase \in {"idle", "connected", "received", "locked"} => push[p].row = 0
  /\ \A p \in Pushes : push[p].row # 0 =>
       push[p].row \in DOMAIN ledger /\ ledger[push[p].row].status # "validated"
  /\ RowsAreNotShared

(* A step that keeps who made the rows and what for, and uses no new one. *)
LEMMA RowsKept ==
  ASSUME RowsInv,
         \A r \in DOMAIN ledger :
           /\ r \in DOMAIN ledger'
           /\ ledger'[r].who = ledger[r].who /\ ledger'[r].new = ledger[r].new
           /\ ledger[r].status # "validated" => ledger'[r].status # "validated",
         \A p \in Pushes :
           /\ push'[p].row = push[p].row
           /\ push[p].row # 0 =>
                push'[p].who = push[p].who /\ push'[p].new = push[p].new
           /\ push'[p].phase \in {"idle", "connected", "received", "locked"} =>
                push[p].phase \in {"idle", "connected", "received", "locked"}
  PROVE  RowsInv'
<1> DEFINE Early == {"idle", "connected", "received", "locked"}
<1>1. ASSUME NEW p \in Pushes, push'[p].row # 0
      PROVE  /\ push'[p].row \in DOMAIN ledger'
             /\ ledger'[push'[p].row].status # "validated"
             /\ ledger'[push'[p].row].who = push'[p].who
             /\ ledger'[push'[p].row].new = push'[p].new
  <2>1. /\ push'[p].row = push[p].row /\ push[p].row # 0
        /\ push'[p].who = push[p].who /\ push'[p].new = push[p].new
    BY <1>1
  <2>2. /\ push[p].row \in DOMAIN ledger
        /\ ledger[push[p].row].status # "validated"
        /\ ledger[push[p].row].who = push[p].who
        /\ ledger[push[p].row].new = push[p].new
    BY <2>1, Zenon DEF RowsInv, RowsAreNotShared
  <2> QED
    BY <2>1, <2>2
<1>2. ASSUME NEW p \in Pushes, push'[p].row # 0, NEW q \in Pushes \ {p}
      PROVE  push'[q].row # push'[p].row
  <2>1. push'[p].row = push[p].row /\ push'[q].row = push[q].row
    OBVIOUS
  <2>2. push[p].row # 0 => push[q].row # push[p].row
    BY Zenon DEF RowsInv, RowsAreNotShared
  <2> QED
    BY <1>2, <2>1, <2>2
<1>3. ASSUME NEW p \in Pushes, push'[p].phase \in Early
      PROVE  push'[p].row = 0
  BY <1>3, Zenon DEF RowsInv
<1> QED
  BY <1>1, <1>2, <1>3, Zenon DEF RowsInv, RowsAreNotShared

LEMMA ResolvedKeepsRows ==
  ASSUME IInv, NEW rows, NEW outcome \in {"committed", "aborted"},
         ledger' = Resolved(rows, outcome), NEW r \in DOMAIN ledger
  PROVE  /\ r \in DOMAIN ledger'
         /\ ledger'[r].who = ledger[r].who /\ ledger'[r].new = ledger[r].new
         /\ ledger[r].status # "validated" => ledger'[r].status # "validated"
<1>1. ledger[r] \in Row
  BY LenProperties DEF IInv, TypeOK
<1> QED
  BY <1>1 DEF Resolved, Row

LEMMA PreparedHookRows ==
  ASSUME IInv, RowsInv, NEW p \in Pushes, PreparedHook(p)
  PROVE  RowsInv'
<1>1. PICK r \in FoundRow("validated", push[p].old, push[p].new) :
        LET granted == Granted(ledger[r].old, ledger[r].new)
        IN /\ ledger[r].who = push[p].who
           /\ ledger' = [ledger EXCEPT ![r].status = "prepared", ![r].spent = granted]
           /\ push' = [push EXCEPT ![p] =
                [@ EXCEPT !.phase = "prepared", !.row = r, !.spent = granted]]
  BY DEF PreparedHook
<1> DEFINE granted == Granted(ledger[r].old, ledger[r].new)
<1> HIDE DEF granted
<1>2. /\ ledger' = [ledger EXCEPT ![r].status = "prepared", ![r].spent = granted]
      /\ push' = [push EXCEPT ![p] =
           [@ EXCEPT !.phase = "prepared", !.row = r, !.spent = granted]]
  BY <1>1 DEF granted
<1>3. /\ r \in DOMAIN ledger /\ ledger[r].status = "validated"
      /\ ledger[r].new = push[p].new /\ ledger[r].who = push[p].who
  BY <1>1, FoundRows DEF FoundRow, Newest, Matching
<1>4. ledger[r] \in Row /\ push[p] \in Push /\ push \in [Pushes -> Push]
  BY <1>3, LenProperties DEF IInv, TypeOK
<1>5. /\ DOMAIN ledger' = DOMAIN ledger
      /\ ledger'[r].status = "prepared"
      /\ ledger'[r].who = push[p].who /\ ledger'[r].new = push[p].new
      /\ \A s \in DOMAIN ledger \ {r} : ledger'[s] = ledger[s]
  BY <1>2, <1>3, <1>4 DEF Row
<1>6. /\ push'[p].phase = "prepared" /\ push'[p].row = r
      /\ push'[p].who = push[p].who /\ push'[p].new = push[p].new
      /\ \A q \in Pushes \ {p} : push'[q] = push[q]
  BY <1>2, <1>4 DEF Push
<1>7. \A q \in Pushes : push[q].row # r
  <2>1. 0 \notin DOMAIN ledger
    BY LenProperties DEF IInv, TypeOK
  <2> QED
    BY <1>3, <2>1, Zenon DEF RowsInv
<1>8. ASSUME NEW q \in Pushes, push'[q].row # 0
      PROVE  /\ push'[q].row \in DOMAIN ledger'
             /\ ledger'[push'[q].row].status # "validated"
             /\ ledger'[push'[q].row].who = push'[q].who
             /\ ledger'[push'[q].row].new = push'[q].new
             /\ \A t \in Pushes \ {q} : push'[t].row # push'[q].row
  <2>1. CASE q = p
    <3>1. push'[q].row = r
      BY <1>6, <2>1
    <3>2. \A t \in Pushes \ {q} : push'[t].row # r
      BY <1>6, <1>7, <2>1, Zenon
    <3> QED
      BY <1>3, <1>5, <1>6, <2>1, <3>1, <3>2
  <2>2. CASE q # p
    <3>1. push'[q] = push[q] /\ push[q].row # 0 /\ push[q].row # r
      BY <1>6, <1>7, <1>8, <2>2, Zenon
    <3>2. /\ push[q].row \in DOMAIN ledger
          /\ ledger[push[q].row].status # "validated"
          /\ ledger[push[q].row].who = push[q].who
          /\ ledger[push[q].row].new = push[q].new
          /\ \A t \in Pushes \ {q} : push[t].row # push[q].row
      BY <3>1, Zenon DEF RowsInv, RowsAreNotShared
    <3>3. ledger'[push[q].row] = ledger[push[q].row]
      BY <1>5, <3>1, <3>2, Zenon
    <3>4. \A t \in Pushes \ {q} : push'[t].row # push[q].row
      BY <1>6, <3>1, <3>2, Zenon
    <3> QED
      BY <1>5, <3>1, <3>2, <3>3, <3>4, Zenon
  <2> QED
    BY <2>1, <2>2
<1>9. ASSUME NEW q \in Pushes,
             push'[q].phase \in {"idle", "connected", "received", "locked"}
      PROVE  push'[q].row = 0
  <2>1. q # p
    BY <1>6, <1>9
  <2> QED
    BY <1>6, <1>9, <2>1, Zenon DEF RowsInv
<1> QED
  BY <1>8, <1>9, Zenon DEF RowsInv, RowsAreNotShared

LEMMA RowsNext ==
  ASSUME IInv, RowsInv, [Next]_vars
  PROVE  RowsInv'
<1> DEFINE Early == {"idle", "connected", "received", "locked"}
           Kept(p) ==
             /\ push'[p].row = push[p].row
             /\ push[p].row # 0 => push'[p].who = push[p].who /\ push'[p].new = push[p].new
             /\ push'[p].phase \in Early => push[p].phase \in Early
           LedgerKept ==
             \A r \in DOMAIN ledger :
               /\ r \in DOMAIN ledger'
               /\ ledger'[r].who = ledger[r].who /\ ledger'[r].new = ledger[r].new
               /\ ledger[r].status # "validated" => ledger'[r].status # "validated"
<1>1. push \in [Pushes -> Push] /\ ledger \in Seq(Row)
  BY DEF IInv, TypeOK
<1>2. UNCHANGED push => \A q \in Pushes : Kept(q)
  OBVIOUS
<1>3. ASSUME NEW p \in Pushes, NEW phase, Step(p, phase),
             phase \in Early => push[p].phase \in Early
      PROVE  \A q \in Pushes : Kept(q)
  BY <1>1, <1>3 DEF Step, Push
<1>4. ASSUME NEW rows, NEW outcome \in {"committed", "aborted"},
             ledger' = Resolved(rows, outcome)
      PROVE  LedgerKept
  BY <1>4, ResolvedKeepsRows
<1>5. ASSUME NEW p \in Pushes, Connect(p) \/ Git(p) \/ HookLost(p) \/ Die(p)
      PROVE  RowsInv'
  <2>1. CASE PreparedHook(p)
    BY <2>1, PreparedHookRows
  <2>2. CASE Connect(p)
    <3>1. \A q \in Pushes : Kept(q)
      BY <1>1, <2>2 DEF Connect, Push, RowsInv
    <3>2. ledger' = ledger
      BY <2>2 DEF Connect
    <3> QED
      BY <3>1, <3>2, RowsKept
  <2>3. CASE AbortedHook(p)
    <3>1. LedgerKept
      BY <1>4, <2>3 DEF AbortedHook, Abort
    <3>2. \A q \in Pushes : Kept(q)
      BY <1>3, <2>3 DEF AbortedHook
    <3> QED
      BY <3>1, <3>2, RowsKept
  <2>4. CASE CommittedHook(p)
    <3>1. LedgerKept
      BY <1>4, <2>4 DEF CommittedHook
    <3>2. \A q \in Pushes : Kept(q)
      BY <1>3, <2>4 DEF CommittedHook
    <3> QED
      BY <3>1, <3>2, RowsKept
  <2>5. CASE \/ LockRef(p) \/ LockFails(p) \/ PreparedRefused(p) \/ Commit(p)
             \/ CleanLock(p) \/ HookLost(p) \/ Die(p)
    <3>1. \A q \in Pushes : Kept(q)
      BY <1>3, <2>5 DEF LockRef, LockFails, PreparedRefused, Commit, CleanLock, HookLost, Die
    <3>2. ledger' = ledger
      BY <2>5 DEF LockRef, LockFails, PreparedRefused, Commit, CleanLock, HookLost, Die
    <3> QED
      BY <3>1, <3>2, RowsKept
  <2> QED
    BY <1>5, <2>1, <2>2, <2>3, <2>4, <2>5 DEF Git
<1>6. ASSUME NEW p \in Pushes, NEW new \in Revs, PreReceive(p, new)
      PROVE  RowsInv'
  <2> DEFINE row == [old |-> push[p].old, new |-> new, who |-> push[p].who,
                     status |-> "validated", stale |-> FALSE, spent |-> {}]
  <2>1. row \in Row /\ ledger' = Append(ledger, row)
    BY <1>1, <1>6 DEF PreReceive, Push, Row
  <2>2. LedgerKept
    BY <1>1, <2>1, AppendProperties, LenProperties
  <2>3. push[p].row = 0
    BY <1>6 DEF PreReceive, RowsInv
  <2>4. \A q \in Pushes : Kept(q)
    BY <1>1, <1>6, <2>3 DEF PreReceive, Push
  <2> QED
    BY <2>2, <2>4, RowsKept
<1>7. ASSUME NEW line \in Revs \X Revs, Maintain(line[1], line[2])
      PROVE  RowsInv'
  <2>1. LedgerKept
    BY <1>4, <1>7 DEF Maintain, Abort
  <2>2. UNCHANGED push
    BY <1>7 DEF Maintain
  <2> QED
    BY <1>2, <2>1, <2>2, RowsKept
<1>8. ASSUME NEW r \in DOMAIN ledger, Doctor(r) \/ Age(r)
      PROVE  RowsInv'
  <2>1. LedgerKept
    <3>1. CASE Doctor(r)
      BY <1>4, <3>1 DEF Doctor
    <3>2. CASE Age(r)
      <4>1. \A s \in DOMAIN ledger : ledger[s] \in Row
        BY <1>1, LenProperties
      <4> QED
        BY <3>2, <4>1 DEF Age, Row
    <3> QED
      BY <1>8, <3>1, <3>2
  <2>2. UNCHANGED push
    BY <1>8 DEF Doctor, Age
  <2> QED
    BY <1>2, <2>1, <2>2, RowsKept
<1>9. CASE UNCHANGED <<push, ledger>>
  <2>1. LedgerKept
    BY <1>9
  <2> QED
    BY <1>2, <1>9, <2>1, RowsKept
<1> QED
  BY <1>5, <1>6, <1>7, <1>8, <1>9 DEF Next, Request, Decide, OwnerChanges, vars

(* The outcome hooks look rows up by value, yet no two pushes ever rest on one
   row of ref_updates, and each row a push rests on is its own pusher's. *)
THEOREM RowsNeverShared == Spec => []RowsAreNotShared
<1>1. Init => RowsInv
  BY DEF Init, RowsInv, RowsAreNotShared
<1>2. IInv /\ RowsInv /\ [Next]_vars => RowsInv'
  BY RowsNext
<1>3. RowsInv => RowsAreNotShared
  BY DEF RowsInv
<1> QED
  BY <1>1, <1>2, <1>3, Invariant, PTL DEF Spec

=============================================================================
