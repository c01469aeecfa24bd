---------------------------- MODULE StoreProofs ----------------------------
(* Theorems about Store: the lock, the migrations and the serial store. *)
EXTENDS Store, SequenceTheorems, WellFoundedInduction, TLAPS

(* What a process may rely on although it read it outside a transaction:   *)
(* migrations are never taken back.                                        *)
Knows(p) ==
  /\ proc[p].done \subseteq disk.applied
  /\ proc[p].phase \in {"waitMigration", "migrating"} =>
       1..(proc[p].at - 1) \subseteq disk.applied
  /\ proc[p].phase = "waitMigration" => proc[p].step = 0
  /\ proc[p].phase \in {"waitCommand", "reading", "writing"} => p \in Commands
  /\ proc[p].phase \in {"schema", "waitCommand", "reading", "writing"} =>
       disk.table /\ 1..Build[p] \subseteq disk.applied

(* What the writer's transaction sees is the store and its own changes. *)
Entries(p, n) == [i \in 1..n |-> p]
RanBy(p, s) == IF s[1] = proc[p].at /\ s[2] <= proc[p].step THEN 1 ELSE 0
Wrote(p) ==
  /\ view = [disk EXCEPT !.log = disk.log \o Entries(p, proc[p].step)]
  /\ proc[p].seen = view.log
Sees(p) ==
  /\ proc[p].phase \in {"table", "reading"} => view = disk
  /\ proc[p].phase = "writing" => Wrote(p)
  /\ proc[p].phase = "migrating" =>
       view = [disk EXCEPT !.ran = [s \in Statement |-> disk.ran[s] + RanBy(p, s)]]

Inv ==
  /\ TypeOK
  /\ MigrationsAreWhole
  /\ \A p \in Procs : Knows(p) /\ Sees(p)

----------------------------------------------------------------------------
(* A process moves on and takes, keeps or gives back the lock. *)
LEMMA TypeStep ==
  ASSUME TypeOK, NEW p \in Procs, NEW r \in Process,
         proc' = [proc EXCEPT ![p] = r],
         disk' \in Contents, view' \in Contents, faults' \in 0..MaxFaults,
         \/ writer' = writer /\ (r.phase \in Holding <=> proc[p].phase \in Holding)
         \/ /\ writer \in {p, Nobody}
            /\ writer' = IF r.phase \in Holding THEN p ELSE Nobody
  PROVE  TypeOK'
<1>1. proc' \in [Procs -> Process]
  BY DEF TypeOK
<1>2. Nobody \notin Procs
  BY ProcessAssumption
<1>3. \A q \in Procs : writer' = q <=> proc'[q].phase \in Holding
  <2>1. proc'[p] = r /\ \A q \in Procs \ {p} : proc'[q] = proc[q]
    BY DEF TypeOK
  <2>2. CASE writer' = writer /\ (r.phase \in Holding <=> proc[p].phase \in Holding)
    BY <2>1, <2>2, Zenon DEF TypeOK
  <2>3. CASE writer \in {p, Nobody} /\ writer' = IF r.phase \in Holding THEN p ELSE Nobody
    BY <1>2, <2>1, <2>3 DEF TypeOK
  <2> QED
    BY <2>2, <2>3
<1>4. writer' \in Procs \cup {Nobody}
  BY DEF TypeOK
<1> QED
  BY <1>1, <1>3, <1>4 DEF TypeOK

(* What one process does leaves the others with what they know and see. *)
LEMMA OthersKeep ==
  ASSUME Inv, NEW p \in Procs, TypeOK', MigrationsAreWhole', Knows(p)', Sees(p)',
         \A q \in Procs \ {p} : proc'[q] = proc[q],
         disk.applied \subseteq disk'.applied, disk.table => disk'.table,
         (disk' = disk /\ view' = view) \/ writer \in {p, Nobody}
  PROVE  Inv'
<1>1. ASSUME NEW q \in Procs \ {p}  PROVE  Knows(q)' /\ Sees(q)'
  <2>1. Knows(q) /\ Sees(q) /\ proc'[q] = proc[q]
    BY <1>1 DEF Inv
  <2>2. Knows(q)'
    BY <2>1 DEF Knows
  <2>3. Sees(q)'
    <3>1. CASE disk' = disk /\ view' = view
      <4>1. Wrote(q) => Wrote(q)'
        BY <2>1, <3>1 DEF Wrote, Entries
      <4> QED
        BY <2>1, <3>1, <4>1 DEF Sees, RanBy
    <3>2. CASE writer \in {p, Nobody}
      <4>1. proc[q].phase \notin Holding
        BY <1>1, <3>2, ProcessAssumption DEF Inv, TypeOK
      <4> QED
        BY <2>1, <4>1 DEF Sees, Holding
    <3> QED
      BY <3>1, <3>2
  <2> QED
    BY <2>2, <2>3
<1> QED
  BY <1>1 DEF Inv

(* A process that only changes its own place, holding nothing. *)
LEMMA Moves ==
  ASSUME Inv, NEW p \in Procs, NEW r \in Process,
         proc' = [proc EXCEPT ![p] = r],
         disk' = disk, view' = view, faults' \in 0..MaxFaults,
         r.phase \notin Holding, 
         writer' = IF writer = p THEN Nobody ELSE writer,
         Knows(p)'
  PROVE  Inv'
<1>1. TypeOK'
  <2>1. writer = p <=> proc[p].phase \in Holding
    BY DEF Inv, TypeOK
  <2>2. \/ writer' = writer /\ (r.phase \in Holding <=> proc[p].phase \in Holding)
        \/ writer \in {p, Nobody} /\ writer' = IF r.phase \in Holding THEN p ELSE Nobody
    BY <2>1
  <2>3. disk' \in Contents /\ view' \in Contents
    BY DEF Inv, TypeOK
  <2> QED
    BY <2>2, <2>3, TypeStep DEF Inv
<1>2. MigrationsAreWhole'
  BY DEF Inv, MigrationsAreWhole
<1>3. proc'[p] = r /\ \A q \in Procs \ {p} : proc'[q] = proc[q]
  BY DEF Inv, TypeOK
<1>4. Sees(p)'
  BY <1>3 DEF Sees, Holding
<1> QED
  BY <1>1, <1>2, <1>3, <1>4, OthersKeep

(* Where a process is, is a place it may be. *)
LEMMA PlaceTyped ==
  ASSUME TypeOK, NEW p \in Procs
  PROVE  /\ proc[p] \in Process
         /\ Off \in Process
         /\ \A phase \in Phases : [proc[p] EXCEPT !.phase = phase] \in Process
<1>1. proc[p] \in Process
  BY DEF TypeOK
<1>2. <<>> \in Seq(Commands) /\ 1 \in Migrations /\ 0 \in 0..Statements
  BY MigrationAssumption DEF Migrations
<1>3. Off \in Process
  BY <1>2 DEF Off, Process, Phases
<1> QED
  BY <1>1, <1>3 DEF Process

----------------------------------------------------------------------------
LEMMA InitInv == Init => Inv
<1> SUFFICES ASSUME Init  PROVE Inv
  OBVIOUS
<1>1. Empty \in Contents
  <2>1. <<>> \in Seq(Commands)
    OBVIOUS
  <2> QED
    BY <2>1 DEF Empty, Contents
<1>2. Off \in Process
  BY MigrationAssumption DEF Off, Process, Phases, Migrations
<1>3. TypeOK
  BY <1>1, <1>2, ProcessAssumption, MigrationAssumption DEF Init, TypeOK, Off, Holding
<1>4. MigrationsAreWhole
  <2>1. disk.applied = 1..0 /\ 0 \in 0..Top
    BY MigrationAssumption DEF Init, Empty
  <2> QED
    BY <2>1 DEF Init, Empty, MigrationsAreWhole
<1>5. \A p \in Procs : Knows(p) /\ Sees(p)
  BY DEF Init, Off, Knows, Sees
<1> QED
  BY <1>3, <1>4, <1>5 DEF Inv

LEMMA AcquireInv == ASSUME Inv, NEW p \in Procs, Acquire(p)  PROVE Inv'
<1> DEFINE phase == Granted(proc[p].phase)
           r == [proc[p] EXCEPT !.phase = phase]
<1>1. phase \in {"table", "migrating", "reading"}
  BY DEF Acquire, Granted, Waiting
<1>2. r \in Process /\ proc' = [proc EXCEPT ![p] = r]
  <2>1. phase \in Phases
    BY <1>1 DEF Phases, Holding
  <2> QED
    BY <2>1, PlaceTyped DEF Inv, Acquire, Go
<1>3. r.phase = phase /\ proc'[p] = r /\ \A q \in Procs \ {p} : proc'[q] = proc[q]
  BY <1>2, PlaceTyped DEF Inv, TypeOK, Process
<1>4. TypeOK'
  <2>1. disk' \in Contents /\ view' \in Contents /\ faults' \in 0..MaxFaults
    BY DEF Inv, TypeOK, Acquire
  <2>2. writer \in {p, Nobody} /\ writer' = IF r.phase \in Holding THEN p ELSE Nobody
    BY <1>1, <1>3 DEF Acquire, Available, Holding
  <2> QED
    BY <1>2, <2>1, <2>2, TypeStep DEF Inv
<1>5. MigrationsAreWhole'
  BY DEF Inv, MigrationsAreWhole, Acquire
<1>6. Knows(p)'
  <2>1. Knows(p)
    BY DEF Inv
  <2>2. r.done = proc[p].done /\ r.at = proc[p].at /\ r.step = proc[p].step
    OBVIOUS
  <2> QED
    BY <1>3, <2>1, <2>2 DEF Knows, Acquire, Granted, Waiting
<1>7. Sees(p)'
  <2>1. r.step = proc[p].step /\ r.at = proc[p].at
    OBVIOUS
  <2>2. CASE phase # "migrating"
    BY <1>1, <1>3, <2>2 DEF Sees, Acquire
  <2>3. CASE phase = "migrating"
    <3>1. proc[p].step = 0
      BY <2>3 DEF Inv, Knows, Acquire, Granted, Waiting
    <3>2. \A s \in Statement : disk.ran[s] + RanBy(p, s)' = disk.ran[s]
      BY <1>3, <2>1, <3>1 DEF RanBy, Inv, TypeOK, Contents, Statement
    <3>3. disk = [disk EXCEPT !.ran = [s \in Statement |-> disk.ran[s]]]
      BY DEF Inv, TypeOK, Contents
    <3>4. view' = disk /\ disk' = disk
      BY DEF Acquire
    <3> QED
      BY <1>3, <2>3, <3>2, <3>3, <3>4 DEF Sees
  <2> QED
    BY <2>2, <2>3
<1> QED
  BY <1>3, <1>4, <1>5, <1>6, <1>7, OthersKeep DEF Acquire, Available

LEMMA AbortInv == ASSUME Inv, NEW p \in Procs, Abort(p)  PROVE Inv'
<1> DEFINE r == [proc[p] EXCEPT !.phase = "failed"]
<1>1. r \in Process /\ proc' = [proc EXCEPT ![p] = r] /\ r.phase = "failed"
  BY PlaceTyped DEF Inv, Abort, Go, Phases, Process
<1>2. Knows(p)'
  BY <1>1, PlaceTyped DEF Inv, TypeOK, Knows, Abort, AfterError
<1> QED
  BY <1>1, <1>2, Moves DEF Abort, AfterError, Released, Holding, Inv, TypeOK

LEMMA TimeOutInv == ASSUME Inv, NEW p \in Procs, TimeOut(p)  PROVE Inv'
<1> DEFINE r == [proc[p] EXCEPT !.phase = "failed"]
<1>1. r \in Process /\ proc' = [proc EXCEPT ![p] = r] /\ r.phase = "failed"
  BY PlaceTyped DEF Inv, TimeOut, Go, Phases, Process
<1>2. Knows(p)'
  BY <1>1, PlaceTyped DEF Inv, TypeOK, Knows, TimeOut
<1>3. faults' \in 0..MaxFaults
  BY MigrationAssumption DEF Inv, TypeOK, TimeOut
<1>4. writer # p
  BY DEF Inv, TypeOK, TimeOut, Waiting, Holding
<1> QED
  BY <1>1, <1>2, <1>3, <1>4, Moves DEF TimeOut, Holding

LEMMA DieInv == ASSUME Inv, NEW p \in Procs, Die(p)  PROVE Inv'
<1> DEFINE r == [proc[p] EXCEPT !.phase = "failed"]
<1>1. r \in Process /\ proc' = [proc EXCEPT ![p] = r] /\ r.phase = "failed"
  BY PlaceTyped DEF Inv, Die, Go, Phases, Process
<1>2. Knows(p)'
  BY <1>1, PlaceTyped DEF Inv, TypeOK, Knows, Die
<1>3. faults' \in 0..MaxFaults
  BY MigrationAssumption DEF Inv, TypeOK, Die
<1> QED
  BY <1>1, <1>2, <1>3, Moves DEF Die, Holding

LEMMA OpenInv == ASSUME Inv, NEW p \in Procs, Open(p)  PROVE Inv'
<1> DEFINE r == [Off EXCEPT !.phase = "waitTable"]
<1>1. r \in Process /\ r.phase = "waitTable" /\ r.done = {}
  BY PlaceTyped DEF Inv, Phases, Waiting, Process, Off
<1>2. Knows(p)'
  BY <1>1 DEF Inv, TypeOK, Knows, Open
<1>3. writer # p
  BY DEF Inv, TypeOK, Open, At, Holding
<1> QED
  BY <1>1, <1>2, <1>3, Moves DEF Open, Holding, Inv, TypeOK

LEMMA CreateTableInv == ASSUME Inv, NEW p \in Procs, CreateTable(p)  PROVE Inv'
<1> DEFINE r == [proc[p] EXCEPT !.phase = "listing"]
<1>1. r \in Process /\ proc' = [proc EXCEPT ![p] = r] /\ r.phase = "listing" /\ r.done = proc[p].done
  BY PlaceTyped DEF Inv, CreateTable, Go, Phases, Process
<1>2. view = disk /\ writer = p
  BY DEF Inv, TypeOK, Sees, CreateTable, At, Holding
<1>3. disk' \in Contents /\ disk'.applied = disk.applied /\ disk'.ran = disk.ran /\ disk'.table
  BY <1>2 DEF CreateTable, Inv, TypeOK, Contents
<1>4. TypeOK'
  BY <1>1, <1>2, <1>3, TypeStep DEF CreateTable, Holding, Inv, TypeOK
<1>5. MigrationsAreWhole'
  BY <1>3 DEF Inv, MigrationsAreWhole
<1>6. proc'[p] = r /\ \A q \in Procs \ {p} : proc'[q] = proc[q]
  BY <1>1 DEF Inv, TypeOK
<1>7. Knows(p)' /\ Sees(p)'
  BY <1>1, <1>3, <1>6 DEF Inv, Knows, Sees
<1> QED
  BY <1>2, <1>3, <1>4, <1>5, <1>6, <1>7, OthersKeep

LEMMA RefuseInv == ASSUME Inv, NEW p \in Procs, Refuse(p)  PROVE Inv'
BY AbortInv DEF Refuse
LEMMA StatementFailsInv == ASSUME Inv, NEW p \in Procs, StatementFails(p)  PROVE Inv'
BY AbortInv DEF StatementFails
LEMMA AppliedMeanwhileInv == ASSUME Inv, NEW p \in Procs, AppliedMeanwhile(p)  PROVE Inv'
BY AbortInv DEF AppliedMeanwhile

LEMMA CheckVersionsInv == ASSUME Inv, NEW p \in Procs, CheckVersions(p)  PROVE Inv'
<1>0. PICK phase \in {"schema", "failed"} :
        Go(p, phase) /\ (phase = "schema" => VersionsMatch(p))
  BY Zenon DEF CheckVersions
<1> DEFINE r == [proc[p] EXCEPT !.phase = phase]
<1>1. r \in Process /\ proc' = [proc EXCEPT ![p] = r] /\ r.phase = phase /\ r.done = proc[p].done
  BY <1>0, PlaceTyped DEF Inv, Go, Phases, Process
<1>2. Knows(p)'
  BY <1>0, <1>1 DEF Inv, TypeOK, Knows, CheckVersions, VersionsMatch
<1>3. writer # p
  BY DEF Inv, TypeOK, CheckVersions, At, Holding
<1> QED
  BY <1>0, <1>1, <1>2, <1>3, Moves DEF CheckVersions, Holding, Inv, TypeOK

LEMMA CheckSchemaInv == ASSUME Inv, NEW p \in Procs, CheckSchema(p)  PROVE Inv'
<1>0. PICK phase \in {"failed", "ended", "waitCommand"} :
        Go(p, phase) /\ (phase = "waitCommand" => p \in Commands)
  BY Zenon DEF CheckSchema, Procs
<1> DEFINE r == [proc[p] EXCEPT !.phase = phase]
<1>1. r \in Process /\ proc' = [proc EXCEPT ![p] = r] /\ r.phase = phase /\ r.done = proc[p].done
  BY <1>0, PlaceTyped DEF Inv, Go, Phases, Waiting, Process
<1>2. Knows(p)'
  BY <1>0, <1>1 DEF Inv, TypeOK, Knows, CheckSchema, At
<1>3. writer # p
  BY DEF Inv, TypeOK, CheckSchema, At, Holding
<1> QED
  BY <1>0, <1>1, <1>2, <1>3, Moves DEF CheckSchema, Holding, Inv, TypeOK

LEMMA ConnectInv == ASSUME Inv, NEW p \in Procs, Connect(p)  PROVE Inv'
<1> DEFINE r == [proc[p] EXCEPT !.phase = "versions"]
<1>1. r \in Process /\ proc' = [proc EXCEPT ![p] = r] /\ r.phase = "versions" /\ r.done = proc[p].done
  BY PlaceTyped DEF Inv, Connect, Go, Phases, Process
<1>2. Knows(p)'
  BY <1>1 DEF Inv, TypeOK, Knows, Connect
<1>3. writer # p
  BY DEF Inv, TypeOK, Connect, At, Holding
<1> QED
  BY <1>1, <1>2, <1>3, Moves DEF Connect, Holding, Inv, TypeOK

LEMMA LeastOf ==
  ASSUME NEW S, S \subseteq Nat, S # {}
  PROVE  \E k \in S : \A j \in S : k <= j
<1>1. PICK k \in S : \A j \in S : ~(<<j, k>> \in OpToRel(<, Nat))
  BY NatLessThanWellFounded, WFMin, Zenon
<1>2. ASSUME NEW j \in S  PROVE k <= j
  <2>1. j < k => <<j, k>> \in OpToRel(<, Nat)
    BY DEF OpToRel
  <2>2. ~(j < k)
    BY <1>1, <2>1, Zenon
  <2> QED
    BY <2>2
<1> QED
  BY <1>2

(* The next migration of a loop that has done all before it. *)
LEMMA OnwardKnows ==
  ASSUME Inv, TypeOK', NEW p \in Procs, NEW m \in 1..(Top + 1), NEW done \in SUBSET Migrations,
         Onward(p, m, done), disk'.applied \in SUBSET Migrations,
         done \subseteq disk'.applied, 1..(m - 1) \subseteq disk'.applied
  PROVE  Knows(p)'
<1> DEFINE pending == {k \in m..Build[p] : k \notin done}
           next == CHOOSE k \in pending : \A j \in pending : k <= j
<1>1. CASE pending = {}
  <2>1. proc'[p].phase = "versions" /\ proc'[p].done = {}
    BY <1>1 DEF Onward, Inv, TypeOK, Process
  <2> QED
    BY <2>1 DEF Knows
<1>2. CASE pending # {}
  <2>1. next \in pending /\ \A j \in pending : next <= j
    <3>1. pending \subseteq Nat
      BY MigrationAssumption, ProcessAssumption DEF Migrations
    <3>2. \E k \in pending : \A j \in pending : k <= j
      BY <1>2, <3>1, LeastOf, Zenon
    <3> QED
      BY <3>2
  <2>2. /\ proc'[p].phase = "waitMigration" /\ proc'[p].done = done
        /\ proc'[p].step = 0 /\ proc'[p].at = next
    BY <1>2 DEF Onward, Inv, TypeOK, Process
  <2>3. 1..(next - 1) \subseteq disk'.applied
    <3>1. ASSUME NEW j \in 1..(next - 1), j >= m  PROVE j \in done
      BY <2>1, <3>1, ProcessAssumption, MigrationAssumption DEF Migrations
    <3> QED
      BY <3>1, <2>1, ProcessAssumption, MigrationAssumption DEF Migrations
  <2> QED
    BY <2>2, <2>3 DEF Knows
<1> QED
  BY <1>1, <1>2

LEMMA OnwardTyped ==
  ASSUME Inv, NEW p \in Procs, NEW m \in Nat \ {0}, NEW done \in SUBSET Migrations, Onward(p, m, done)
  PROVE  \E r \in Process : /\ proc' = [proc EXCEPT ![p] = r]
                            /\ r.phase \in {"versions", "waitMigration"}
<1> DEFINE pending == {k \in m..Build[p] : k \notin done}
           next == CHOOSE k \in pending : \A j \in pending : k <= j
           r1 == [proc[p] EXCEPT !.phase = "versions", !.done = {}, !.at = 1, !.step = 0]
           r2 == [proc[p] EXCEPT !.phase = "waitMigration", !.done = done, !.step = 0, !.at = next]
<1>1. proc[p] \in Process
  BY DEF Inv, TypeOK
<1>2. CASE pending = {}
  <2>1. r1 \in Process
    <3>1. "versions" \in Phases /\ 1 \in Migrations /\ 0 \in 0..Statements
      BY MigrationAssumption DEF Phases, Migrations
    <3> QED
      BY <1>1, <3>1 DEF Process
  <2>2. r1.phase = "versions"
    BY <1>1 DEF Process
  <2>3. proc' = [proc EXCEPT ![p] = r1]
    BY <1>2 DEF Onward
  <2> QED
    BY <2>1, <2>2, <2>3
<1>3. CASE pending # {}
  <2>1. pending \subseteq Migrations
    BY MigrationAssumption, ProcessAssumption DEF Migrations
  <2>2. \E k \in pending : \A j \in pending : k <= j
    <3>1. pending \subseteq Nat
      BY <2>1 DEF Migrations
    <3> QED
      BY <1>3, <3>1, LeastOf, Zenon
  <2>3. next \in Migrations
    BY <2>1, <2>2
  <2>4. r2 \in Process
    <3>1. "waitMigration" \in Phases /\ 0 \in 0..Statements
      BY MigrationAssumption DEF Phases, Waiting
    <3> HIDE DEF next
    <3> QED
      BY <1>1, <2>3, <3>1 DEF Process
  <2>5. r2.phase = "waitMigration"
    BY <1>1 DEF Process
  <2>6. proc' = [proc EXCEPT ![p] = r2]
    BY <1>3 DEF Onward
  <2> QED
    BY <2>4, <2>5, <2>6
<1> QED
  BY <1>2, <1>3

LEMMA ListDoneInv == ASSUME Inv, NEW p \in Procs, ListDone(p)  PROVE Inv'
<1>1. disk.applied \in SUBSET Migrations /\ 1 \in Nat \ {0} /\ 1 \in 1..(Top + 1)
  BY MigrationAssumption DEF Inv, TypeOK, Contents
<1>2. PICK r \in Process : proc' = [proc EXCEPT ![p] = r] /\ r.phase \in {"versions", "waitMigration"}
  BY <1>1, OnwardTyped DEF ListDone
<1>3. writer # p
  BY DEF Inv, TypeOK, ListDone, At, Holding
<1>4. disk' = disk /\ view' = view /\ writer' = writer /\ faults' = faults
  BY DEF ListDone
<1>5. TypeOK'
  BY <1>2, <1>3, <1>4, TypeStep DEF Inv, TypeOK, Holding
<1>6. 1..(1 - 1) \subseteq disk'.applied
  OBVIOUS
<1>7. Knows(p)'
  BY <1>1, <1>4, <1>5, <1>6, OnwardKnows DEF ListDone
<1> QED
  BY <1>2, <1>3, <1>4, <1>7, Moves DEF Inv, TypeOK, Holding

LEMMA RunStatementInv == ASSUME Inv, NEW p \in Procs, RunStatement(p)  PROVE Inv'
<1> DEFINE k == proc[p].step + 1
           r == [proc[p] EXCEPT !.step = k]
<1>1. proc[p] \in Process /\ k \in 1..Statements /\ Current(p) \in Statement
  <2>1. proc[p] \in Process
    BY DEF Inv, TypeOK
  <2>2. k \in 1..Statements
    BY <2>1, MigrationAssumption DEF RunStatement, Process
  <2> QED
    BY <2>1, <2>2 DEF Current, Statement, Process
<1>2. r \in Process /\ r.phase = "migrating" /\ r.step = k /\ r.at = proc[p].at /\ r.done = proc[p].done
  BY <1>1, MigrationAssumption DEF Process, RunStatement, At
<1>3. proc' = [proc EXCEPT ![p] = r]
  BY DEF RunStatement
<1>4. writer = p
  BY DEF RunStatement, At, Inv, TypeOK, Holding
<1>5. view = [disk EXCEPT !.ran = [s \in Statement |-> disk.ran[s] + RanBy(p, s)]]
  BY DEF Inv, Sees, RunStatement, At
<1> DEFINE ran1 == [s \in Statement |-> disk.ran[s] + RanBy(p, s)]
           ran2 == [ran1 EXCEPT ![Current(p)] = @ + 1]
           ran3 == [s \in Statement |-> disk.ran[s] + RanBy(p, s)']
<1>a. disk \in Contents /\ disk.ran \in [Statement -> Nat] /\ \A s \in Statement : RanBy(p, s) \in Nat
  BY DEF Inv, TypeOK, Contents, RanBy
<1>b. ran1 \in [Statement -> Nat]
  BY <1>a
<1>c. ran2 \in [Statement -> Nat]
  BY <1>1, <1>b
<1>d. view' = [disk EXCEPT !.ran = ran2]
  <2>1. view' = [view EXCEPT !.ran = [view.ran EXCEPT ![Current(p)] = @ + 1]]
    BY DEF RunStatement
  <2>2. view = [disk EXCEPT !.ran = ran1]
    BY <1>5
  <2> HIDE DEF ran1
  <2>3. view.ran = ran1
    BY <1>a, <2>2 DEF Contents
  <2> QED
    BY <1>a, <2>1, <2>2, <2>3 DEF Contents
<1>6. view' \in Contents
  <2> HIDE DEF ran2
  <2> QED
    BY <1>a, <1>c, <1>d DEF Contents
<1>7. TypeOK'
  BY <1>2, <1>3, <1>6, TypeStep DEF RunStatement, At, Inv, TypeOK, Holding
<1>8. MigrationsAreWhole'
  BY DEF RunStatement, Inv, MigrationsAreWhole
<1>9. proc'[p] = r /\ \A q \in Procs \ {p} : proc'[q] = proc[q]
  BY <1>3 DEF Inv, TypeOK
<1>10. Knows(p)'
  BY <1>2, <1>9 DEF Inv, Knows, RunStatement, At
<1>11. Sees(p)'
  <2>1. \A s \in Statement : RanBy(p, s)' = IF s = Current(p) THEN RanBy(p, s) + 1 ELSE RanBy(p, s)
    BY <1>1, <1>2, <1>9 DEF RanBy, Current, Statement, Process
  <2>2. ASSUME NEW s \in Statement  PROVE ran2[s] = ran3[s]
    BY <1>1, <1>a, <1>b, <2>1
  <2>3. ran3 = [s \in Statement |-> ran3[s]] /\ ran2 = [s \in Statement |-> ran2[s]]
    BY <1>c
  <2>4. ran2 = ran3
    <3> HIDE DEF ran2, ran3
    <3> QED
      BY <2>2, <2>3
  <2>5. disk' = disk
    BY DEF RunStatement
  <2>6. view' = [disk EXCEPT !.ran = ran3]
    BY <1>d, <2>4, Zenon
  <2> QED
    BY <1>2, <1>9, <2>5, <2>6 DEF Sees
<1> QED
  BY <1>4, <1>7, <1>8, <1>9, <1>10, <1>11, OthersKeep DEF RunStatement

(* The migration that is committed is the next one. *)
LEMMA NextMigration ==
  ASSUME Inv, NEW p \in Procs, CommitMigration(p)
  PROVE  /\ disk.applied = 1..(proc[p].at - 1)
         /\ disk'.applied = disk.applied \cup {proc[p].at}
         /\ disk'.ran = [s \in Statement |-> disk.ran[s] + RanBy(p, s)]
         /\ disk' \in Contents /\ disk'.table = disk.table /\ disk'.log = disk.log
<1> DEFINE m == proc[p].at
           ran1 == [s \in Statement |-> disk.ran[s] + RanBy(p, s)]
<1>1. disk \in Contents /\ m \in Migrations /\ ran1 \in [Statement -> Nat]
  BY DEF Inv, TypeOK, Contents, Process, RanBy
<1>2. view = [disk EXCEPT !.ran = ran1]
  BY DEF Inv, Sees, CommitMigration, At
<1>3. disk' = [view EXCEPT !.applied = @ \cup {m}] /\ m \notin view.applied
  BY DEF CommitMigration
<1>4. /\ view.applied = disk.applied /\ disk'.applied = disk.applied \cup {m}
      /\ disk'.ran = ran1 /\ disk' \in Contents
      /\ disk'.table = disk.table /\ disk'.log = disk.log
  <2> HIDE DEF ran1, m
  <2> QED
    BY <1>1, <1>2, <1>3 DEF Contents
<1>5. disk.applied = 1..(m - 1)
  <2>1. PICK n \in 0..Top : disk.applied = 1..n
    BY DEF Inv, MigrationsAreWhole
  <2>2. 1..(m - 1) \subseteq 1..n /\ m \notin 1..n
    BY <1>3, <1>4, <2>1 DEF Inv, Knows, CommitMigration, At
  <2>3. n = m - 1
    <3>1. m \in Nat \ {0} /\ n \in Nat
      BY <1>1, <2>1, MigrationAssumption DEF Migrations
    <3>2. m > n
      BY <2>2, <3>1
    <3>3. m - 1 <= n
      <4>1. CASE m = 1
        BY <3>1, <4>1
      <4>2. CASE m > 1
        <5>1. m - 1 \in 1..(m - 1)
          BY <3>1, <4>2
        <5> QED
          BY <2>2, <3>1, <5>1
      <4> QED
        BY <3>1, <4>1, <4>2
    <3> QED
      BY <3>1, <3>2, <3>3
  <2> QED
    BY <2>1, <2>3
<1> QED
  BY <1>4, <1>5

LEMMA CommitMigrationInv == ASSUME Inv, NEW p \in Procs, CommitMigration(p)  PROVE Inv'
<1> DEFINE m == proc[p].at
<1>1. m \in Migrations /\ proc[p].done \in SUBSET Migrations /\ m + 1 \in Nat \ {0} /\ m + 1 \in 1..(Top + 1)
  BY MigrationAssumption DEF Inv, TypeOK, Process, Migrations
<1>2. PICK r \in Process : proc' = [proc EXCEPT ![p] = r] /\ r.phase \in {"versions", "waitMigration"}
  BY <1>1, OnwardTyped DEF CommitMigration
<1>3. writer = p
  BY DEF CommitMigration, At, Inv, TypeOK, Holding
<1>4. TypeOK'
  BY <1>2, <1>3, NextMigration, TypeStep DEF CommitMigration, Inv, TypeOK, Holding
<1>5. disk'.applied = 1..m
  <2>1. m \in Nat \ {0}
    BY <1>1, MigrationAssumption DEF Migrations
  <2>2. (1..(m - 1)) \cup {m} = 1..m
    <3> HIDE DEF m
    <3> QED
      BY <2>1
  <2> QED
    BY <2>2, NextMigration
<1>6. MigrationsAreWhole'
  <2>1. \E n \in 0..Top : disk'.applied = 1..n
    BY <1>1, <1>5, MigrationAssumption DEF Migrations
  <2>2. ASSUME NEW s \in Statement  PROVE disk'.ran[s] = IF s[1] \in disk'.applied THEN 1 ELSE 0
    <3>1. disk'.ran[s] = disk.ran[s] + RanBy(p, s) /\ disk.ran[s] = IF s[1] \in disk.applied THEN 1 ELSE 0
      BY NextMigration DEF Inv, MigrationsAreWhole
    <3>2. RanBy(p, s) = IF s[1] = m THEN 1 ELSE 0
      BY MigrationAssumption DEF RanBy, Statement, CommitMigration
    <3>3. disk.applied = 1..(m - 1)
      BY NextMigration
    <3> QED
      BY <1>1, <1>5, <3>1, <3>2, <3>3 DEF Statement, Migrations
  <2> QED
    BY <2>1, <2>2 DEF MigrationsAreWhole
<1>7. disk.applied \subseteq disk'.applied /\ (disk.table => disk'.table)
  BY NextMigration
<1>8. Knows(p)'
  <2>1. disk'.applied \in SUBSET Migrations
    BY <1>4 DEF TypeOK, Contents
  <2>2. proc[p].done \subseteq disk'.applied
    BY <1>7 DEF Inv, Knows
  <2>3. 1..((m + 1) - 1) \subseteq disk'.applied
    <3>1. (m + 1) - 1 = m
      BY <1>1 DEF Migrations
    <3> QED
      BY <1>5, <3>1
  <2> QED
    BY <1>1, <1>4, <2>1, <2>2, <2>3, OnwardKnows DEF CommitMigration
<1>9. proc'[p] = r /\ \A q \in Procs \ {p} : proc'[q] = proc[q]
  BY <1>2 DEF Inv, TypeOK
<1>10. Sees(p)'
  BY <1>2, <1>9 DEF Sees
<1> QED
  BY <1>3, <1>4, <1>6, <1>7, <1>8, <1>9, <1>10, OthersKeep

LEMMA EntriesShape ==
  ASSUME NEW s \in Seq(Commands), NEW p \in Commands, NEW n \in Nat
  PROVE  /\ s \o Entries(p, n) \in Seq(Commands)
         /\ Len(s \o Entries(p, n)) = Len(s) + n
         /\ \A i \in 1..(Len(s) + n) :
              (s \o Entries(p, n))[i] = IF i <= Len(s) THEN s[i] ELSE p
<1>1. Entries(p, n) \in Seq(Commands) /\ Len(Entries(p, n)) = n
  BY DEF Entries
<1>2. \A i \in 1..n : Entries(p, n)[i] = p
  BY DEF Entries
<1>3. /\ s \o Entries(p, n) \in Seq(Commands)
      /\ Len(s \o Entries(p, n)) = Len(s) + n
  BY <1>1
<1>4. ASSUME NEW i \in 1..(Len(s) + n)
      PROVE  (s \o Entries(p, n))[i] = IF i <= Len(s) THEN s[i] ELSE p
  <2>1. CASE i <= Len(s)
    BY <1>1, <2>1
  <2>2. CASE ~(i <= Len(s))
    <3>1. i - Len(s) \in 1..n
      BY <2>2
    <3>2. (s \o Entries(p, n))[i] = Entries(p, n)[i - Len(s)]
      BY <1>1, <2>2
    <3> QED
      BY <1>2, <2>2, <3>1, <3>2
  <2> QED
    BY <2>1, <2>2
<1> QED
  BY <1>3, <1>4

(* The log grows by one write at a time. *)
LEMMA EntriesGrow ==
  ASSUME NEW s \in Seq(Commands), NEW p \in Commands, NEW n \in Nat
  PROVE  /\ s \o Entries(p, 0) = s
         /\ s \o Entries(p, n + 1) \in Seq(Commands)
         /\ Append(s \o Entries(p, n), p) = s \o Entries(p, n + 1)
<1> DEFINE none == s \o Entries(p, 0)
           some == s \o Entries(p, n)
           more == s \o Entries(p, n + 1)
           next == Append(some, p)
<1>1. /\ none \in Seq(Commands) /\ Len(none) = Len(s) + 0
      /\ \A i \in 1..(Len(s) + 0) : none[i] = IF i <= Len(s) THEN s[i] ELSE p
  <2>1. 0 \in Nat
    OBVIOUS
  <2> QED
    BY <2>1, EntriesShape, Zenon
<1>2. /\ some \in Seq(Commands) /\ Len(some) = Len(s) + n
      /\ \A i \in 1..(Len(s) + n) : some[i] = IF i <= Len(s) THEN s[i] ELSE p
  BY EntriesShape
<1>3. /\ more \in Seq(Commands) /\ Len(more) = Len(s) + (n + 1)
      /\ \A i \in 1..(Len(s) + (n + 1)) : more[i] = IF i <= Len(s) THEN s[i] ELSE p
  <2>1. n + 1 \in Nat
    OBVIOUS
  <2> QED
    BY <2>1, EntriesShape
<1> HIDE DEF none, some, more
<1>4. none = s
  BY <1>1, SeqEqual
<1>5. next \in Seq(Commands) /\ Len(next) = Len(s) + (n + 1)
  BY <1>2
<1>6. ASSUME NEW i \in 1..(Len(s) + (n + 1))  PROVE next[i] = more[i]
  <2>1. CASE i = Len(s) + (n + 1)
    <3>1. next[i] = p /\ ~(i <= Len(s))
      BY <1>2, <2>1
    <3> QED
      BY <1>3, <3>1
  <2>2. CASE i # Len(s) + (n + 1)
    <3>1. i \in 1..(Len(s) + n)
      BY <2>2
    <3>2. next[i] = some[i]
      BY <1>2, <3>1
    <3> QED
      BY <1>2, <1>3, <3>1, <3>2
  <2> QED
    BY <2>1, <2>2
<1> HIDE DEF next
<1>7. next = more
  BY <1>3, <1>5, <1>6, SeqEqual
<1> QED
  BY <1>3, <1>4, <1>7 DEF none, some, more, next

LEMMA ReadInv == ASSUME Inv, NEW p \in Procs, Read(p)  PROVE Inv'
<1> DEFINE r == [proc[p] EXCEPT !.phase = "writing", !.step = 0, !.seen = view.log]
<1>1. /\ r \in Process /\ r.phase = "writing" /\ r.step = 0
      /\ r.seen = view.log /\ r.done = proc[p].done
  <2>1. /\ proc[p] \in Process /\ view.log \in Seq(Commands) /\ 0 \in 0..Statements
        /\ "writing" \in Phases
    BY MigrationAssumption DEF Inv, TypeOK, Contents, Phases, Holding
  <2> QED
    BY <2>1 DEF Process
<1>2. proc' = [proc EXCEPT ![p] = r]
  BY DEF Read
<1>3. writer = p /\ view = disk /\ p \in Commands
  BY DEF Read, At, Inv, TypeOK, Sees, Knows, Holding
<1>4. TypeOK'
  BY <1>1, <1>2, TypeStep DEF Read, At, Inv, TypeOK, Holding
<1>5. MigrationsAreWhole'
  BY DEF Read, Inv, MigrationsAreWhole
<1>6. proc'[p] = r /\ \A q \in Procs \ {p} : proc'[q] = proc[q]
  BY <1>2 DEF Inv, TypeOK
<1>7. Knows(p)'
  BY <1>1, <1>3, <1>6 DEF Inv, Knows, Read, At
<1>8. Sees(p)'
  <2>1. disk.log \o Entries(p, 0) = disk.log /\ disk \in Contents
    BY <1>3, EntriesGrow DEF Inv, TypeOK, Contents
  <2>2. disk = [disk EXCEPT !.log = disk.log \o Entries(p, 0)]
    BY <2>1 DEF Contents
  <2> QED
    BY <1>1, <1>3, <1>6, <2>2 DEF Sees, Wrote, Read
<1> QED
  BY <1>3, <1>4, <1>5, <1>6, <1>7, <1>8, OthersKeep DEF Read

LEMMA WriteInv == ASSUME Inv, NEW p \in Procs, Write(p)  PROVE Inv'
<1> DEFINE n == proc[p].step
           log == disk.log \o Entries(p, n + 1)
           r == [proc[p] EXCEPT !.step = n + 1, !.seen = Append(proc[p].seen, p)]
<1>1. /\ writer = p /\ p \in Commands /\ disk \in Contents /\ proc[p] \in Process
      /\ n \in 0..Statements /\ n < Statements /\ proc[p].phase = "writing"
  BY DEF Write, At, Inv, TypeOK, Knows, Holding, Process
<1>2. /\ proc[p].seen = disk.log \o Entries(p, n)
      /\ view = [disk EXCEPT !.log = disk.log \o Entries(p, n)]
  BY <1>1 DEF Inv, Sees, Wrote, TypeOK, Contents
<1>3. Append(proc[p].seen, p) = log /\ log \in Seq(Commands)
  <2>1. n \in Nat /\ disk.log \in Seq(Commands)
    BY <1>1, MigrationAssumption DEF Contents
  <2>2. /\ log \in Seq(Commands)
        /\ Append(disk.log \o Entries(p, n), p) = log
    BY <1>1, <2>1, EntriesGrow
  <2> QED
    BY <1>2, <2>2
<1>4. view' = [disk EXCEPT !.log = log] /\ disk' = disk
  <2>1. view' = [view EXCEPT !.log = log] /\ disk' = disk
    BY <1>3 DEF Write
  <2> HIDE DEF log
  <2> QED
    BY <1>1, <1>2, <2>1 DEF Contents
<1>5. view' \in Contents /\ view'.log = log
  <2> HIDE DEF log
  <2> QED
    BY <1>1, <1>3, <1>4 DEF Contents
<1>6. proc' = [proc EXCEPT ![p] = r]
  BY <1>1 DEF Write, Inv, TypeOK, Process
<1>7. /\ r \in Process /\ r.phase = "writing" /\ r.step = n + 1
      /\ r.seen = log /\ r.done = proc[p].done
  <2>1. n + 1 \in 0..Statements
    BY <1>1, MigrationAssumption
  <2> HIDE DEF log
  <2> QED
    BY <1>1, <1>3, <2>1 DEF Process
<1>8. TypeOK'
  BY <1>1, <1>5, <1>6, <1>7, TypeStep DEF Write, Inv, TypeOK, Holding
<1>9. MigrationsAreWhole'
  BY <1>4 DEF Inv, MigrationsAreWhole
<1>10. proc'[p] = r /\ \A q \in Procs \ {p} : proc'[q] = proc[q]
  BY <1>6 DEF Inv, TypeOK
<1>11. Knows(p)'
  BY <1>1, <1>4, <1>7, <1>10 DEF Inv, Knows
<1>12. Sees(p)'
  BY <1>4, <1>5, <1>7, <1>10 DEF Sees, Wrote
<1> QED
  BY <1>1, <1>4, <1>8, <1>9, <1>10, <1>11, <1>12, OthersKeep

(* What a command commits is the store it read and its own writes. *)
LEMMA CommitAppends ==
  ASSUME Inv, NEW p \in Procs, Commit(p)
  PROVE  /\ disk' \in Contents /\ p \in Commands
         /\ disk'.log = disk.log \o Entries(p, Statements)
         /\ disk'.applied = disk.applied /\ disk'.ran = disk.ran /\ disk'.table = disk.table
<1>1. /\ disk' = [disk EXCEPT !.log = disk.log \o Entries(p, Statements)]
      /\ p \in Commands
  BY DEF Commit, At, Inv, Sees, Wrote, Knows
<1>2. disk \in Contents /\ disk' \in Contents
  BY DEF Commit, Inv, TypeOK
<1> QED
  BY <1>1, <1>2 DEF Contents

LEMMA CommitInv == ASSUME Inv, NEW p \in Procs, Commit(p)  PROVE Inv'
<1> DEFINE r == [Off EXCEPT !.phase = "ended"]
<1>1. r \in Process /\ proc' = [proc EXCEPT ![p] = r] /\ r.phase = "ended" /\ r.done = {}
  <2>1. Off \in Process /\ "ended" \in Phases
    BY PlaceTyped DEF Inv, Phases
  <2>2. r \in Process
    BY <2>1 DEF Process
  <2> QED
    BY <2>2 DEF Commit, Off
<1>2. writer = p
  BY DEF Commit, At, Inv, TypeOK, Holding
<1>3. TypeOK'
  BY <1>1, <1>2, CommitAppends, TypeStep DEF Commit, Inv, TypeOK, Holding
<1>4. MigrationsAreWhole'
  BY CommitAppends DEF Inv, MigrationsAreWhole
<1>5. proc'[p] = r /\ \A q \in Procs \ {p} : proc'[q] = proc[q]
  BY <1>1 DEF Inv, TypeOK
<1>6. Knows(p)' /\ Sees(p)'
  BY <1>1, <1>5, CommitAppends DEF Inv, Knows, Sees
<1> QED
  BY <1>2, <1>3, <1>4, <1>5, <1>6, CommitAppends, OthersKeep

----------------------------------------------------------------------------
LEMMA StepInv == Inv /\ [Next]_vars => Inv'
<1> SUFFICES ASSUME Inv, [Next]_vars  PROVE Inv'
  OBVIOUS
<1>1. CASE UNCHANGED vars
  <2>1. \A p \in Procs : Wrote(p) => Wrote(p)'
    BY <1>1 DEF vars, Wrote, Entries
  <2>2. \A p \in Procs : Knows(p)' /\ Sees(p)'
    BY <1>1, <2>1 DEF vars, Inv, Knows, Sees, RanBy
  <2> QED
    BY <1>1, <2>2 DEF vars, Inv, TypeOK, MigrationsAreWhole
<1>2. ASSUME NEW p \in Procs, Work(p) \/ Open(p) \/ Connect(p) \/ Refuse(p) \/ TimeOut(p) \/ Die(p)
      PROVE  Inv'
  <2>1. CASE Work(p)
    BY <2>1, AcquireInv, CreateTableInv, ListDoneInv, RunStatementInv, StatementFailsInv,
       CommitMigrationInv, AppliedMeanwhileInv, CheckVersionsInv, CheckSchemaInv,
       ReadInv, WriteInv, CommitInv, Zenon DEF Work
  <2> QED
    BY <1>2, <2>1, OpenInv, ConnectInv, RefuseInv, TimeOutInv, DieInv, Zenon
<1> QED
  BY <1>1, <1>2, Zenon DEF Next

THEOREM StoreInvariant == Spec => []Inv
BY InitInv, StepInv, PTL DEF Spec

(* Every state is well-typed, and a process has the lock exactly while it  *)
(* is in a transaction: no death, timeout or error leaves it taken.        *)
THEOREM StoreTyped == Spec => []TypeOK
<1>1. Inv => TypeOK
  BY DEF Inv
<1> QED
  BY <1>1, StoreInvariant, PTL

(* Any number of inits of any builds leave each migration whole and once.  *)
THEOREM MigrationsWhole == Spec => []MigrationsAreWhole
<1>1. Inv => MigrationsAreWhole
  BY DEF Inv
<1> QED
  BY <1>1, StoreInvariant, PTL

(* A command that takes effect finds the schema of its build.              *)
THEOREM SchemaFound == Spec => CommandsFindTheirSchema
<1> DEFINE Found == \A p \in Commands : At(p, "writing") /\ At(p, "ended")' =>
                      disk.table /\ 1..Build[p] \subseteq disk.applied
<1>1. Inv => Found
  BY DEF Inv, Knows, At, Procs
<1>2. Inv /\ [Next]_vars => [Found]_vars
  BY <1>1
<1> QED
  BY <1>2, StoreInvariant, PTL DEF Spec, CommandsFindTheirSchema

----------------------------------------------------------------------------
(* The refinement *)

(* A command that took effect is over. *)
Settled == \A p \in Commands : p \in Serial!Effective => At(p, "ended")

Acts(p) == Work(p) \/ Open(p) \/ Connect(p) \/ Refuse(p) \/ TimeOut(p) \/ Die(p)

(* Only Commit touches the log, and only CommitMigration the rows. *)
Inside(p) ==
  \/ Acquire(p) \/ ListDone(p) \/ RunStatement(p) \/ StatementFails(p)
  \/ AppliedMeanwhile(p) \/ CheckVersions(p) \/ CheckSchema(p)
  \/ Read(p) \/ Write(p) \/ Open(p) \/ Connect(p) \/ Refuse(p) \/ TimeOut(p) \/ Die(p)

LEMMA ActsSplit ==
  ASSUME NEW p, Acts(p)
  PROVE  CommitMigration(p) \/ Commit(p) \/ CreateTable(p) \/ Inside(p)
BY Zenon DEF Acts, Work, Inside

LEMMA InsideKeeps == ASSUME NEW p, Inside(p)  PROVE disk' = disk
BY DEF Inside, Acquire, ListDone, RunStatement, StatementFails, AppliedMeanwhile, Abort,
     AfterError, CheckVersions, CheckSchema, Read, Write, Open, Connect, Refuse, TimeOut, Die

LEMMA CreateTableKeeps ==
  ASSUME Inv, NEW p \in Procs, CreateTable(p)
  PROVE  disk'.log = disk.log /\ disk'.applied = disk.applied
<1>1. view = disk
  BY DEF Inv, Sees, CreateTable, At
<1> QED
  BY <1>1 DEF CreateTable, Inv, TypeOK, Contents

(* A step moves one process, and none that is over. *)
LEMMA OneMoves ==
  ASSUME Inv, NEW p \in Procs, Acts(p)
  PROVE  /\ proc[p].phase # "ended"
         /\ p \in Commands => proc[p].phase # "failed"
         /\ \A q \in Procs \ {p} : proc'[q] = proc[q]
<1>1. proc \in [Procs -> Process]
  BY DEF Inv, TypeOK
<1>2. CASE Acquire(p) \/ TimeOut(p) \/ Die(p) \/ Connect(p)
  BY <1>1, <1>2 DEF Acquire, TimeOut, Die, Connect, Waiting, At, Go
<1>3. CASE Refuse(p) \/ StatementFails(p) \/ AppliedMeanwhile(p)
  BY <1>1, <1>3 DEF Refuse, StatementFails, AppliedMeanwhile, Abort, At, Go
<1>4. CASE Open(p)
  BY <1>1, <1>4, ProcessAssumption DEF Open, At
<1>5. CASE CreateTable(p) \/ RunStatement(p) \/ Read(p) \/ Write(p) \/ Commit(p)
  BY <1>1, <1>5 DEF CreateTable, RunStatement, Read, Write, Commit, At, Go
<1>6. CASE CheckVersions(p) \/ CheckSchema(p)
  BY <1>1, <1>6 DEF CheckVersions, CheckSchema, At, Go
<1>7. CASE ListDone(p)
  BY <1>1, <1>7 DEF ListDone, Onward, At
<1>8. CASE CommitMigration(p)
  BY <1>1, <1>8 DEF CommitMigration, Onward, At
<1> QED
  BY <1>2, <1>3, <1>4, <1>5, <1>6, <1>7, <1>8, Zenon DEF Acts, Work

LEMMA CommitMigrationPhase ==
  ASSUME Inv, NEW p \in Procs, CommitMigration(p)
  PROVE  proc'[p].phase \in {"versions", "waitMigration"}
<1>1. /\ proc[p].at + 1 \in Nat \ {0} /\ proc[p].done \in SUBSET Migrations
      /\ Onward(p, proc[p].at + 1, proc[p].done)
  BY MigrationAssumption DEF Inv, TypeOK, Process, Migrations, CommitMigration
<1> QED
  BY <1>1, OnwardTyped DEF Inv, TypeOK

(* A commit makes one more command effective. *)
LEMMA CommitEffective ==
  ASSUME Inv, NEW p \in Procs, Commit(p)
  PROVE  Serial!Effective' = Serial!Effective \cup {p}
<1> DEFINE s == disk.log
           new == disk.log \o Entries(p, Statements)
<1>1. /\ disk'.log = new /\ s \in Seq(Commands) /\ p \in Commands
      /\ Statements \in Nat \ {0}
  BY CommitAppends, MigrationAssumption DEF Inv, TypeOK, Contents
<1>2. /\ new \in Seq(Commands) /\ Len(new) = Len(s) + Statements
      /\ \A i \in 1..(Len(s) + Statements) : new[i] = IF i <= Len(s) THEN s[i] ELSE p
  BY <1>1, EntriesShape
<1>3. Serial!Effective' = {new[i] : i \in 1..(Len(s) + Statements)}
  BY <1>1, <1>2 DEF Serial!Effective
<1>4. Serial!Effective = {s[i] : i \in 1..Len(s)}
  BY <1>1 DEF Serial!Effective
<1> HIDE DEF s, new
<1>5. new[Len(s) + 1] = p /\ Len(s) + 1 \in 1..(Len(s) + Statements)
  BY <1>1, <1>2
<1>6. \A i \in 1..Len(s) : new[i] = s[i] /\ i \in 1..(Len(s) + Statements)
  BY <1>1, <1>2
<1>7. \A i \in 1..(Len(s) + Statements) : i \in 1..Len(s) \/ new[i] = p
  BY <1>1, <1>2
<1> QED
  BY <1>3, <1>4, <1>5, <1>6, <1>7

LEMMA SettledInv == Inv /\ Settled /\ [Next]_vars => Settled'
<1> SUFFICES ASSUME Inv, Settled, [Next]_vars  PROVE Settled'
  OBVIOUS
<1>1. CASE UNCHANGED vars
  BY <1>1 DEF vars, Settled, Serial!Effective, At
<1>2. ASSUME NEW p \in Procs, Acts(p)  PROVE Settled'
  <2>1. ASSUME NEW q \in Commands, q # p, q \in Serial!Effective  PROVE At(q, "ended")'
    BY <1>2, <2>1, OneMoves DEF Settled, At, Procs
  <2>2. p \in Commands => p \notin Serial!Effective
    BY <1>2, OneMoves DEF Settled, At
  <2>3. CASE Commit(p)
    <3>1. At(p, "ended")'
      BY <2>3 DEF Commit, Off, At, Inv, TypeOK, Process
    <3> QED
      BY <2>1, <2>3, <3>1, CommitEffective DEF Settled
  <2>4. CASE CommitMigration(p) \/ CreateTable(p) \/ Inside(p)
    <3>1. disk'.log = disk.log
      BY <2>4, NextMigration, CreateTableKeeps, InsideKeeps
    <3>2. Serial!Effective' = Serial!Effective
      BY <3>1 DEF Serial!Effective
    <3> QED
      BY <2>1, <2>2, <3>2 DEF Settled
  <2> QED
    BY <1>2, <2>3, <2>4, ActsSplit
<1> QED
  BY <1>1, <1>2, Zenon DEF Next, Acts

(* Whether a step leaves the set of failed commands alone or adds one to it. *)
LEMMA RefusedGrows ==
  ASSUME Inv, NEW p \in Procs, Acts(p)
  PROVE  \/ Refused' = Refused
         \/ p \in Commands /\ p \notin Refused /\ Refused' = Refused \cup {p}
<1>1. \A q \in Commands : q # p => (At(q, "failed")' <=> At(q, "failed"))
  BY OneMoves DEF At, Procs
<1>2. p \in Commands => ~At(p, "failed")
  BY OneMoves DEF At
<1> QED
  BY <1>1, <1>2 DEF Refused

(* Commands and migrations that are sequences of steps of processes under  *)
(* the lock implement a store where each is one step or nothing.           *)
THEOREM SerialStoreImplemented == Spec => ImplementsSerialStore
<1> DEFINE svars == <<disk.log, Refused, disk.applied>>
<1>1. Init => Serial!Init /\ Settled
  BY DEF Init, Empty, Off, Serial!Init, Serial!Effective, Settled, Refused, At, Procs
<1>2. Inv /\ Settled /\ [Next]_vars => [Serial!Next]_svars
  <2> SUFFICES ASSUME Inv, Settled, [Next]_vars
               PROVE  Serial!Next \/ UNCHANGED svars
    OBVIOUS
  <2>1. ASSUME NEW p \in Procs, Acts(p)  PROVE Serial!Next \/ UNCHANGED svars
    <3>0. p \in Commands => p \notin Serial!Effective \cup Refused
      BY <2>1, OneMoves DEF Settled, Refused, At
    <3>1. CASE CommitMigration(p)
      <4>1. proc[p].at \in Migrations
        BY DEF Inv, TypeOK, Process
      <4>2. Refused' = Refused
        <5>1. ~At(p, "failed")'
          BY <3>1, CommitMigrationPhase DEF At
        <5> QED
          BY <2>1, <5>1, RefusedGrows DEF Refused
      <4>3. Serial!Upgrade(proc[p].at)
        BY <3>1, <4>2, NextMigration DEF Serial!Upgrade
      <4> QED
        BY <4>1, <4>3 DEF Serial!Next
    <3>2. CASE Commit(p)
      <4>1. p \in Commands /\ disk'.log = disk.log \o [i \in 1..Statements |-> p] /\ disk'.applied = disk.applied
        BY <3>2, CommitAppends DEF Entries
      <4>2. Refused' = Refused
        <5>1. ~At(p, "failed")'
          BY <3>2 DEF Commit, Off, At, Inv, TypeOK, Process
        <5> QED
          BY <2>1, <5>1, RefusedGrows DEF Refused
      <4> QED
        BY <3>0, <4>1, <4>2 DEF Serial!Next, Serial!Execute
    <3>3. CASE CreateTable(p) \/ Inside(p)
      <4>1. disk'.log = disk.log /\ disk'.applied = disk.applied
        BY <3>3, CreateTableKeeps, InsideKeeps
      <4>2. CASE Refused' = Refused
        BY <4>1, <4>2
      <4>3. CASE p \in Commands /\ Refused' = Refused \cup {p}
        BY <3>0, <4>1, <4>3 DEF Serial!Next, Serial!Fail
      <4> QED
        BY <2>1, <4>2, <4>3, RefusedGrows
    <3> QED
      BY <2>1, <3>1, <3>2, <3>3, ActsSplit
  <2>2. CASE UNCHANGED vars
    BY <2>2 DEF vars, Refused, At
  <2> QED
    BY <2>1, <2>2, Zenon DEF Next, Acts
<1> QED
  BY <1>1, <1>2, SettledInv, StoreInvariant, PTL DEF Spec, ImplementsSerialStore, Serial!SerialSpec
=============================================================================
