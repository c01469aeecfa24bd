------------------------------- MODULE Store -------------------------------
(***************************************************************************)
(* The SQLite store (src/quorumgit/store.py): migrations, the contract     *)
(* check and the single-writer transactions every command runs in.         *)
(*                                                                         *)
(* An init applies the migrations of its build; a command checks the       *)
(* contract, takes the writer's lock, reads, writes and commits.  Builds   *)
(* of different age work on one store.  A process may die anywhere, and a  *)
(* wait for the lock may time out; SQLite rolls the writer back then.      *)
(*                                                                         *)
(* The data is the log of the writes that took effect, which tells whose:  *)
(* a command that decided on data somebody changed meanwhile would drop a  *)
(* part of it, one that failed half way would leave a part of its own.     *)
(***************************************************************************)
EXTENDS Naturals, Sequences, FiniteSets

CONSTANTS
  Inits,       \* `quorumgit init` processes
  Commands,    \* other commands, each run once
  Nobody,      \* no writer
  Build,       \* how many migrations the build of each process has
  Top,         \* the migrations of the newest build
  Statements,  \* the statements of a migration, the writes of a command
  Creating,    \* <<migration, statement>> that fails when what it creates is there
  MaxFaults    \* bound: deaths and timeouts

Procs == Inits \cup Commands
Migrations == 1..Top
Statement == Migrations \X (1..Statements)

ASSUME ProcessAssumption ==
  /\ Inits \cap Commands = {} /\ Nobody \notin Procs
  /\ Build \in [Procs -> Migrations]
ASSUME MigrationAssumption ==
  /\ Top \in Nat \ {0} /\ Statements \in Nat \ {0} /\ MaxFaults \in Nat
  /\ Creating \subseteq Statement

VARIABLES
  disk,    \* the committed store
  view,    \* the store as the writer's transaction sees it
  writer,  \* who holds the write lock
  proc,    \* where each process is
  faults   \* how many deaths and timeouts there were

vars == <<disk, view, writer, proc, faults>>

Waiting == {"waitTable", "waitMigration", "waitCommand"}
Holding == {"table", "migrating", "reading", "writing"}
Phases == {"off", "listing", "versions", "schema", "ended", "failed"}
            \cup Waiting \cup Holding

Contents ==
  [table : BOOLEAN,                \* schema_migrations exists
   applied : SUBSET Migrations,    \* its rows
   ran : [Statement -> Nat],       \* how often each statement took effect
   log : Seq(Commands)]            \* one entry for each write
Process ==
  [phase : Phases,
   done : SUBSET Migrations,       \* read once by migrate()
   at : Migrations,                \* the migration under way
   step : 0..Statements,
   seen : Seq(Commands)]           \* what a command has read and written

TypeOK ==
  /\ disk \in Contents /\ view \in Contents
  /\ writer \in Procs \cup {Nobody}
  /\ proc \in [Procs -> Process]
  /\ faults \in 0..MaxFaults
  /\ \A p \in Procs : writer = p <=> proc[p].phase \in Holding

Empty == [table |-> FALSE, applied |-> {}, ran |-> [s \in Statement |-> 0], log |-> <<>>]
Off == [phase |-> "off", done |-> {}, at |-> 1, step |-> 0, seen |-> <<>>]

Init ==
  /\ disk = Empty /\ view = Empty
  /\ writer = Nobody
  /\ proc = [p \in Procs |-> Off]
  /\ faults = 0

At(p, phase) == proc[p].phase = phase
Go(p, phase) == proc' = [proc EXCEPT ![p].phase = phase]

----------------------------------------------------------------------------
(* Transactions *)

(* BEGIN IMMEDIATE succeeds.  Seeded bug: the reservation is not taken. *)
BugAvailable == TRUE
Available == writer = Nobody

(* What is left of a transaction that failed.  Seeded bug: the rollback is *)
(* missing and the close commits.                                          *)
BugAfterError == view
AfterError == disk

(* The lock after a process is gone or gave up.  Seeded bug: a connection  *)
(* that was not in order keeps it.                                         *)
BugReleased(p) == writer
Released(p) == IF writer = p THEN Nobody ELSE writer

Granted(phase) ==
  CASE phase = "waitTable" -> "table"
    [] phase = "waitMigration" -> "migrating"
    [] phase = "waitCommand" -> "reading"

(* begin_immediate() *)
Acquire(p) ==
  /\ proc[p].phase \in Waiting
  /\ Available
  /\ writer' = p
  /\ view' = disk
  /\ Go(p, Granted(proc[p].phase))
  /\ UNCHANGED <<disk, faults>>

(* begin_immediate(): busy_timeout ran out. *)
TimeOut(p) ==
  /\ proc[p].phase \in Waiting
  /\ ~Available
  /\ faults < MaxFaults
  /\ faults' = faults + 1
  /\ Go(p, "failed")
  /\ UNCHANGED <<disk, view, writer>>

(* An exception inside the transaction: rollback, close. *)
Abort(p) ==
  /\ disk' = AfterError
  /\ writer' = Released(p)
  /\ Go(p, "failed")
  /\ UNCHANGED <<view, faults>>

(* The process is killed; SQLite discards what it did not commit. *)
Die(p) ==
  /\ ~(At(p, "off") \/ At(p, "ended") \/ At(p, "failed"))
  /\ faults < MaxFaults
  /\ faults' = faults + 1
  /\ writer' = IF writer = p THEN Nobody ELSE writer
  /\ Go(p, "failed")
  /\ UNCHANGED <<disk, view>>

----------------------------------------------------------------------------
(* init: migrate(), then verify_contract() *)

(* An init that failed is run again. *)
Open(p) ==
  /\ p \in Inits
  /\ At(p, "off") \/ At(p, "failed")
  /\ proc' = [proc EXCEPT ![p] = [Off EXCEPT !.phase = "waitTable"]]
  /\ UNCHANGED <<disk, view, writer, faults>>

CreateTable(p) ==
  /\ At(p, "table")
  /\ disk' = [view EXCEPT !.table = TRUE]
  /\ writer' = Nobody
  /\ Go(p, "listing")
  /\ UNCHANGED <<view, faults>>

(* The loop over the files: the first one from m on that was not done. *)
Onward(p, m, done) ==
  LET pending == {k \in m..Build[p] : k \notin done}
  IN proc' = [proc EXCEPT ![p] =
       IF pending = {}
       THEN [@ EXCEPT !.phase = "versions", !.done = {}, !.at = 1, !.step = 0]
       ELSE [@ EXCEPT !.phase = "waitMigration", !.done = done, !.step = 0,
                      !.at = CHOOSE k \in pending : \A j \in pending : k <= j]]

(* The rows are read outside any transaction. *)
ListDone(p) ==
  /\ At(p, "listing")
  /\ Onward(p, 1, disk.applied)
  /\ UNCHANGED <<disk, view, writer, faults>>

Current(p) == <<proc[p].at, proc[p].step + 1>>

Clashes(p) == Current(p) \in Creating /\ view.ran[Current(p)] > 0

RunStatement(p) ==
  /\ At(p, "migrating")
  /\ proc[p].step < Statements
  /\ ~Clashes(p)
  /\ view' = [view EXCEPT !.ran[Current(p)] = @ + 1]
  /\ proc' = [proc EXCEPT ![p].step = @ + 1]
  /\ UNCHANGED <<disk, writer, faults>>

StatementFails(p) ==
  /\ At(p, "migrating")
  /\ proc[p].step < Statements
  /\ Clashes(p)
  /\ Abort(p)

(* INSERT INTO schema_migrations, commit. *)
CommitMigration(p) ==
  /\ At(p, "migrating")
  /\ proc[p].step = Statements
  /\ proc[p].at \notin view.applied
  /\ disk' = [view EXCEPT !.applied = @ \cup {proc[p].at}]
  /\ writer' = Nobody
  /\ Onward(p, proc[p].at + 1, proc[p].done)
  /\ UNCHANGED <<view, faults>>

(* The primary key refuses the row. *)
AppliedMeanwhile(p) ==
  /\ At(p, "migrating")
  /\ proc[p].step = Statements
  /\ proc[p].at \in view.applied
  /\ Abort(p)

----------------------------------------------------------------------------
(* verify_contract(): the rows first, then the schema, each read on its own *)

VersionsMatch(p) == disk.table /\ disk.applied = 1..Build[p]

SchemaMatches(p) ==
  \A s \in Creating : disk.ran[s] = IF s[1] <= Build[p] THEN 1 ELSE 0

CheckVersions(p) ==
  /\ At(p, "versions")
  /\ Go(p, IF VersionsMatch(p) THEN "schema" ELSE "failed")
  /\ UNCHANGED <<disk, view, writer, faults>>

CheckSchema(p) ==
  /\ At(p, "schema")
  /\ Go(p, IF ~SchemaMatches(p) THEN "failed"
           ELSE IF p \in Inits THEN "ended" ELSE "waitCommand")
  /\ UNCHANGED <<disk, view, writer, faults>>

----------------------------------------------------------------------------
(* session(): connect() checks the contract, then one transaction *)

(* Seeded bug: opened without the contract check. *)
BugConnect(p) ==
  /\ p \in Commands
  /\ At(p, "off")
  /\ Go(p, "waitCommand")
  /\ UNCHANGED <<disk, view, writer, faults>>
Connect(p) ==
  /\ p \in Commands
  /\ At(p, "off")
  /\ Go(p, "versions")
  /\ UNCHANGED <<disk, view, writer, faults>>

Read(p) ==
  /\ At(p, "reading")
  /\ proc' = [proc EXCEPT ![p] = [@ EXCEPT
       !.phase = "writing", !.step = 0, !.seen = view.log]]
  /\ UNCHANGED <<disk, view, writer, faults>>

Write(p) ==
  /\ At(p, "writing")
  /\ proc[p].step < Statements
  /\ view' = [view EXCEPT !.log = Append(proc[p].seen, p)]
  /\ proc' = [proc EXCEPT ![p].step = @ + 1, ![p].seen = Append(@, p)]
  /\ UNCHANGED <<disk, writer, faults>>

Commit(p) ==
  /\ At(p, "writing")
  /\ proc[p].step = Statements
  /\ disk' = view
  /\ writer' = Nobody
  /\ proc' = [proc EXCEPT ![p] = [Off EXCEPT !.phase = "ended"]]
  /\ UNCHANGED <<view, faults>>

(* The command raises, before, between or after its writes: session()      *)
(* rolls it back.  A hook that refuses a push rolls back itself, because   *)
(* it answers with a status and session() would commit.  Seeded bug: it    *)
(* does not.                                                               *)
BugRefuse(p) ==
  /\ At(p, "writing")
  /\ disk' = view
  /\ writer' = Nobody
  /\ Go(p, "failed")
  /\ UNCHANGED <<view, faults>>
Refuse(p) ==
  /\ At(p, "writing")
  /\ Abort(p)

----------------------------------------------------------------------------
Work(p) ==
  \/ Acquire(p) \/ CreateTable(p) \/ ListDone(p)
  \/ RunStatement(p) \/ StatementFails(p) \/ CommitMigration(p) \/ AppliedMeanwhile(p)
  \/ CheckVersions(p) \/ CheckSchema(p)
  \/ Read(p) \/ Write(p) \/ Commit(p)

Next == \E p \in Procs : Work(p) \/ Open(p) \/ Connect(p) \/ Refuse(p) \/ TimeOut(p) \/ Die(p)

Spec == Init /\ [][Next]_vars

(* A process that has begun goes on, the lock is granted to one that waits *)
(* for it again and again, and an init that failed is run again.           *)
FairSpec ==
  /\ Spec
  /\ \A p \in Procs : SF_vars(Work(p))
  /\ \A p \in Inits : WF_vars(Open(p))

----------------------------------------------------------------------------
(* Properties *)

(* Whatever inits race, fail or die, the committed store has each          *)
(* migration whole and once, or nothing of it, and its rows say which.     *)
MigrationsAreWhole ==
  /\ \E n \in 0..Top : disk.applied = 1..n
  /\ \A s \in Statement : disk.ran[s] = IF s[1] \in disk.applied THEN 1 ELSE 0

(* A command takes effect only on a store that has every migration of its  *)
(* build, and on tables that exist.                                        *)
CommandsFindTheirSchema ==
  [][\A p \in Commands : At(p, "writing") /\ At(p, "ended")' =>
       disk.table /\ 1..Build[p] \subseteq disk.applied]_vars

(* With finitely many deaths and timeouts, inits that are run again bring  *)
(* the store to the newest build, although they make each other fail.      *)
InitConverges == <>[](disk.applied = Migrations)

(* The store is serial, the assumption under every other module: a command *)
(* takes effect once, with all its writes and on the data as it is then,   *)
(* or fails and leaves nothing of them behind: the refs of an atomic push  *)
(* that were prepared before the one the hook refuses, among others.       *)
Refused == {p \in Commands : At(p, "failed")}
Serial == INSTANCE SerialStore WITH log <- disk.log, refused <- Refused, applied <- disk.applied
ImplementsSerialStore == Serial!SerialSpec
=============================================================================
