# QuorumGit in TLA+

QuorumGit coordinates several agents that work on one Git repository. A local
SQLite file records who holds which task, branch and scope, which operations
were approved and what happened to every push; Git hooks refuse pushes that the
records do not allow. This directory models that program, model-checks it with
TLC and proves its main safety properties with TLAPS. Paths below are relative
to the repository; line numbers are those of the files in `src/src/quorumgit/`.

## Inventory

| Part | State | Operations | What is hard |
|---|---|---|---|
| Tasks, claims, leases (`work.py`) | `tasks.status`, `claims`, `scopes` | create, claim (with override or takeover), renew, release, done, reopen, checkpoint | expiry is evaluated when read, and `unixepoch()` moves inside a transaction; claims of several tasks compete for branches and scopes |
| Handoffs (`handoff.py`) | `handoffs` | create, accept, decline, cancel | a reservation outlives the claim it came from |
| Approvals (`gate.py` 60-543, migrations 004-011) | `approvals`, `votes`, policies, roles | request, vote, consume, restore | eligibility is re-evaluated at every use while roles and policy change; denial is terminal; an approval authorises one update |
| Push gate (`gate.py` 569-1271) | `ref_updates`, Git refs and ref locks | pre-receive, reference-transaction prepared / committed / aborted, doctor | the two hooks run in different processes, Git can fail or die between any two phases, and hooks can be lost |
| Doctor for updates (`gate.py` 1277-1383) | `ref_updates` | repair rows stuck in `prepared` | infers from the ref's value what Git did |
| Worktrees (`trees.py`) | `worktrees`, checkouts on disk | create, continue, transfer, remove, doctor | disk and database cannot commit together |
| Registry (`registry.py`) | agents and roles, repositories, protected refs and paths, namespaces, approval policies | add, set | who may change the rules the gate applies |
| Store (`store.py`) | the SQLite file | open, migrate, verify contract, session, BEGIN IMMEDIATE | serialisation of writers; a refused or failing command must leave nothing behind |
| Scope matching (`work.py` 314-410) | none | normalise, overlap, match | the overlap test must never miss a real overlap |
| Git plumbing (`git_objects.py`) | none | ancestry, changed paths against baselines | which paths a push introduces |
| Push planning (`gate.py` 856-945) | none | `approve prepare` | must name the very operations the gate will ask for |
| Hook installation (`gate.py` 1480-1593), CLI (`cli.py`), configuration, canonical hashing, audit | files, environment, an append-only table | | pure input and output |

The parts share one database. Every command runs as one transaction that takes
SQLite's single writer lock before it reads (`store.begin_immediate`), so two
commands never interleave inside their critical part; what interleaves is the
commands themselves, the clock, the phases of a push (two hooks in two Git
processes, with Git's own ref locks between them), and the file system.

## Modules

| Module | Models |
|---|---|
| `Ownership` | tasks, claims, leases, handoffs, takeover (`work.py`, `handoff.py`, the claim command of `cli.py`) |
| `TaskBoard` | the abstract specification `Ownership` implements: per task a status, its owners and its offers |
| `PushGate` | one protected ref, the pushes that want to move it, Git's ref lock and its four hook runs, `ref_updates`, the approvals those updates spend, doctor (`gate.py`) |
| `PaidRef` | the abstract specification `PushGate` implements: a move of the ref spends its approvals in one step |
| `Authority` | roles, policy and override, votes, use and restoration of the approvals of one operation, and the SQL triggers that repeat the rule (`gate.py`, `registry.py`, `migrations/`) |
| `Worktrees` | the `worktrees` table, the checkouts on disk and what Git registers; claim, handoff, release, doctor, and people who edit, switch, move and delete checkouts (`trees.py`) |
| `Governance` | what an update needs approval for: a commit graph, the refs of the hub, claims and rules that change between the reads of the two hooks; `approve prepare` (`gate.py`, `git_objects.py`) |
| `Scopes` | the glob matcher and the overlap test, no state (`work.py`) |
| `Store` | processes that migrate, check the contract and run one transaction under the writer's lock, with deaths and timeouts (`store.py`) |
| `SerialStore` | the abstract specification `Store` implements: a command is one step with all its writes, or nothing |
| `MC...` | instances for TLC |
| `OwnershipProofs`, `PushGateProofs`, `PushProofs`, `AuthorityProofs`, `WorktreesProofs`, `GovernanceProofs`, `ScopesProofs`, `StoreProofs` | theorems, checked by TLAPS |

No module extends another component's module; each takes the others as
constants or as an environment that may do whatever the other component does.

* `PushGate` sees `Ownership` as the variable `owner`, which may change at any
  moment to any agent, to nobody or to frozen: whatever claims and handoffs do
  to the branch is one of those changes. It sees `Authority` as the approvals
  table with requests and decisions: a decision may approve or deny a pending
  instance, and reopen or deny an approved one, at any moment before it is spent
  (`vote` reopens only what no longer meets the policy). Who may decide, and
  whether an approved instance still authorizes its user, is `Authority`'s question,
  where a use is one action instead of four hook phases. Its constant `Needs` is what
  `Governance` derives as `Operations`; that this does not change between the
  two hooks is `ApprovalsStayValid`.
* `Worktrees` has the claims that decide on a checkout, and grants a claim at
  least as often as `Ownership` does. `Governance` has them as the scopes of the
  live claim on each branch.
* `Ownership` has the relation `Overlap` of its globs as a constant, and
  `Governance` the relation `Covers`. `Scopes` defines both; `MCGovernance` assumes
  of its `Covers` that it is what `Matches` says, and TLC evaluates that.
* Every module but `Store` takes a command as one atomic step. That is what
  `ImplementsSerialStore` says of `Store`.

### Ownership and the code

An action is one command, that is one transaction: `CreateTask`, `ClaimTask`,
`Takeover`, `ApproveTakeover`, `RenewClaim`, `ReleaseClaim`, `CompleteTask`,
`ReopenTask`, `CreateHandoff`, `AcceptHandoff`, `DeclineHandoff`, `CancelHandoff`,
and `Tick` for the clock. Two details carry most of the weight.

* `unixepoch()` is evaluated per statement, so a command that reads it twice may
  see a lease live in the first statement and expired in the second. `Acquire`
  has a `read` and a `later` instant and lets them differ by a tick. The unique
  index `claims_one_active_per_task` is a guard of its own: there are executions
  in which only the index refuses.
* `cmd_claim` commits a *refused* claim in order to record the conflict, and with
  it the release of a holder whose lease ran out. `RefuseAfterLapse` is that
  commit.

`claims` keeps released rows, as the table does. `late` marks a claim whose
release came after the end of its lease; it is a function of two columns that
the model keeps instead of the release time.

### PushGate and the code

The variable `push` is where Git is with each push; `ledger` is `ref_updates`;
`approvals` is the approvals table without votes. Git's part (advertising the
ref, the lock, checking the old value under it, releasing it *before* the
outcome hook) is modelled from how the hooks are used; the hooks are translated
from `run_pre_receive`, `_prepare_updates`, `_resolve_updates` and
`doctor_ref_updates`. Rows are found as the code finds them: by values, newest
first, with a zero old value matching everything. `stale` is the abstraction of
`created_at` against `VALIDATION_TTL_SECONDS`; `Age` makes all rows up to one
stale, since rows grow old in the order they were made. Four constants say how
bad the environment is: `MayLose` (outcome hooks lost or minutes late), `MayDie`
(Git dying under the lock), `MayRace` (two pushes of the same update in flight)
and `MayMaintain` (updates of the ref outside any push).

`PaidRef` has neither hooks nor lock nor ledger: a purse of approval instances,
and a `Move` that spends exactly one approved instance per operation the move
needs. `Purse` is the mapping. The instant of the purchase is the instant Git
moves the ref: what the prepared hook consumed before shows as approved (it is
only held back, and comes back if Git dies), what a push that moved the ref
consumed shows as spent, for ever.

`Needs` maps an update to the operations `governed_operations()` asks for.

### Authority and the code

`Laid` is both `COALESCE` of an override over the default and what a policy
command does to the fields it does not name. `MayVote`, `Counted`, `Required`,
`Authorizes` are the Python rule; `EngineEligible`, `EngineAuthorizes`,
`EngineMayVote` the SQL of migrations 008 and 011, written from the SQL and not
from the Python. A vote or a use needs both, as in the program, and
`EngineAgrees` compares them. `toAgent` is the beneficiary if the operation is a
takeover, chosen once, because the operation never changes.

### Worktrees and the code

`disk[p]` is the directory at a path and the branch Git has registered for it;
`head = Unregistered` is a path Git knows nothing of. One action is one command,
with the Git call inside the transaction; `DieCreating`, `DieRemoving` and
`DieRepairing` are the command killed after Git did its part and before the
commit, so the effect stays and the record does not. `ClaimRefused` is the
refused claim whose commit releases a holder that lapsed. `Doctor` is
`doctor_worktrees(repair=True)`: `Missing`, `Orphaned` and `Unexpected` are its
three issues, `Removable` the orphans it removes, `Swept` its `git worktree
prune` and `git worktree remove`. `Edit`, `Commit`, `Switch`, `Vanish`,
`Reappear` and `Prune` are people and Git, without any restraint.

### Governance and the code

A push is `Connect`, `ReadRules`, `ScanRefs`, `ScanMainline`, `Validate`, `Land`
or `Fail`: the client's view of the refs, the three reads that pre-receive makes
without a lock (the protected refs, once, at `gate.py:960`; then the refs of the
hub; then the mainline, by the protected refs read at first), the row it records
under the lock, and the prepared hook. That hook finds a row by values, as
`_find_update` does: a creation may find the row of another push of the same
value to its ref, and takes over its old value and its paths. It decides with the
recorded paths, but with the claims and rules of its own moment. A push of several
refs is the several updates in it. A missing approval is `Fail`; a `Land` is a
landing for which every operation in `AskedFor` the row had one.

`arrived`, `mainline` and a row's `lapsed` are history: the code has nothing like
them, they say what properties are about. `lapsed` is what the derivation counted
as mainline because a ref *had been* protected when pre-receive began. It is the
exception in `ClaimedBranchCarriesScopedWork`, and a real one: A's pre-receive
reads the rules, an operator unprotects a branch, B pushes work to it that no claim
covers, and A's read of the mainline still counts that branch, so A may bring B's
work into a claimed branch without approval although it never was mainline.
The other exception is work below the old value of the row the hook found.

The mainline is read with one Git process per ref and in one step here: each tip is
judged on its own, so reading them at different moments only mixes such steps.

### Store and the code

A migration is a sequence of statements; `Creating` are the statements that fail
when what they create is there. In the run only the second statement of the first
migration creates something, and the second migration could run twice unnoticed
but for its row: each migration of the repository does create something, so the
primary key of `schema_migrations` (`AppliedMeanwhile`) is the second line of
defence there and the only one in the model's second migration. `view` is the
database as the open transaction sees it, `disk` the committed one.

A command is `Connect`, the contract check, `Acquire`, `Read`, several `Write`s and
`Commit`, or `Refuse` anywhere between `Read` and `Commit`; a death may come
anywhere. The writes are what `log` counts. `_prepare_updates` is such a command:
each ref of an atomic push writes rows and consumes approvals, and the refusal of a
later ref comes after the writes of the earlier ones. It is the hook's own rollback
(`gate.py:1266`, and `gate.py:1011` in pre-receive) that undoes them, as the hook
then returns a status and `session()` commits; the seeded bug `BugRefuse` leaves it
out, and `ImplementsSerialStore` fails.

`verify_contract` reads versions and schema in two steps, outside the
transaction of the command that follows; migrations are never undone, so an
older build that was let in before an upgrade still writes afterwards. The
contract check does not prevent that, and `CommandsFindTheirSchema` says what is
left: the migrations of its own build are there.

### Scopes and the code

A path is a sequence of symbols with two cases of one letter, a glob adds `*`,
`**`, `?`, a negated class and an unclosed bracket. `_glob_regex` concatenates one
piece for each symbol, so `Matches` asks for a cut of the path into segments that
the pieces take (`Takes`); the slash after `**` belongs to the piece `(?:.*/)?`
and may take nothing together with it. `ScopesOverlap` compares casefolded
literal prefixes. `OverlapIsConservative` relates the two.

## Runs

| Run | What it shows | Bounds |
|---|---|---|
| `contention` | branch exclusivity, recorded overlaps, atomic takeover, final expiry | 2 tasks, 2 agents, 2 branches, 2 globs, 2 claims, clock 0..2 |
| `handoffs` | implements `TaskBoard`; one owner; reservations hold or their exception is a late handoff | 2 tasks, 3 claims, 2 handoffs |
| `push` | with hooks in time and no twin pushes, whenever Git dies, a push implements `PaidRef`: every move is paid for, once, and recorded as it happened | 3 pushes, 2 agents, 2 values, 2 approvals |
| `race` | the two tables balance, live instances are unique and rows are not shared, whatever is lost, late, dead or doubled | 2 pushes, 2 agents, 3 values, 2 approvals; the branch is never claimed |
| `repair` | liveness: doctor settles everything and gives back what a dead push spent | 2 pushes, 1 agent, 2 values |
| `authority` | denial, two persons, quorum over the others, agreement with the triggers, no return to bootstrap | 3 agents, 2 instances, default or override with threshold 2, quorum, worker votes |
| `worktrees` | who gets a checkout, whose record may be closed, uncommitted work stays, a closed record leaves nothing behind, and (liveness) doctor reconciles what it may | 2 tasks, 2 branches, 2 claims, 2 checkouts |
| `governed` | content that is new, or was never mainline, comes in only approved; approvals stay valid; plans name what the gate asks | 3 updates, 3 branches of which 1 is new or was left by an earlier owner, 1 to 3 values pushed to each, 4 commits with a merge, 2 paths, 2 globs, 1 change of rules |
| `store` | migrations are whole and once, commands are serial, all or nothing, and find their schema, and (liveness) repeated inits converge | 2 inits, commands of 2 builds with 2 writes each, 2 migrations of 2 statements, 3 deaths or timeouts |

Three further runs are counterexamples, each a place where the program does not
do what its documentation says:

| Run | Statement refuted |
|---|---|
| `lost_outcome` | one approval never authorizes twice: after a lost committed hook and a ref that came back to its old value, doctor gives the approval back |
| `quorum_consumer` | an approval short of votes can collect more: short only without its consumer, it is neither usable nor open |
| `gone_checkout` | a checkout whose directory is gone is replaced by a fresh worktree: Git still has its registration and refuses, until somebody prunes |

Other places where documentation and code part, which the models contain and no
run of its own shows:

* `README.md:132`, an open handoff reserves its branch: a handoff made from a
  claim whose lease *expired* reserves a branch another task may hold already. It
  is the exception in `ReservationsCollideOnlyAfterExpiry`.
* `ref_updates` tells what Git did: with two pushes of the same update in flight,
  the aborted hook of one marks the prepared row of its twin. `Push.cfg` with
  `MayRace = TRUE` refutes `LedgerTellsTruth`.
* A push that creates the ref has a zero old value, which matches every recorded
  one (`gate.py:1067`). Beside a push of another update to the same new value, or
  after maintenance moved the ref, its prepared hook may find that other row, and
  the creation is paid at the price of the other update: `MovesArePaid` fails for
  creations with `MayRace` or `MayMaintain` when `Needs` asks more of a creation
  than of a change. For changes it holds in every environment
  (`PushProofs!ChangesPaid`).
* An operation can be requested again after a denial: an older instance that is
  restored afterwards is live, so the request is refused, and never looked at,
  because only the newest instance counts.
* `create_worktree` takes back a worktree that Git made when a later statement
  fails. Its comment (`trees.py:119`) says `doctor can reconcile if Git refuses';
  the checkout then has no record, and doctor looks at recorded paths only. It is
  one more way to the state `DieCreating` reaches, out of which a person must help.

Every property has a mutant, an operator `Bug…` next to the definition it
spoils, which makes TLC report that property violated.

`OverlapIsConservative` involves no state. It is an assumption of `MCGovernance`
that TLC evaluates, for all normalized globs and paths of up to three symbols,
when it starts the run `governed`; `ScopesProofs` proves it for every length.

### Why the bounds are enough

Claims collide in pairs; the interesting third claim is the one that comes after
an expired one was replaced, and three claim ids reach it. A clock of three
values has a time before, at and after the end of a lease of one second, and a
tick inside a transaction. A push interferes with one other push at a time: it
takes the other's row or the other's approval; the third push in `push` is the
one that comes after both. The zero value, the old value and a third one are
needed because a zero old value matches any row (`race`). In `race` the constraint
`Unclaimed` leaves out who owns the branch: an owner only keeps a push from going
on, which a push may do of itself at any time, and no property of that run names
the owner. Two instances of an
operation are what the newest-instance rule and the live index are about. Three
agents give a requester, a voter and a consumer; the case of `quorum_consumer`
needs four.

Two checkouts are the one a claim continues and the one that is in its way; two
claims are a predecessor and a successor, of one task or of two. In `governed`
the merge has a parent that touches what the claim covers and a parent that
touches what it does not, one of them protected; three updates stage content on
one branch, merge it and move the mainline under the third, or push one value to
one ref twice, so that a creation finds the other's row. Each ref is pushed to the
values these stories need (`Pushable`). One change of the rules, which
start with a protected branch and a protected path, is the one between the reads
of pre-receive. In `store`, two
inits race, an older build meets a newer one, a command may refuse between its
two writes, and three faults let both inits
fail and one command die. Deaths and timeouts are finitely many in every
behaviour of a bound, which is what `InitConverges` assumes.

### Fairness

`repair` and `worktrees` assume that somebody runs `doctor --repair` again and
again (`WF`). The code never schedules doctor: the runs show what an operator
achieves who keeps running it. `repair` also assumes that Git goes on with a push
it started (`WF` of its steps or of losing the hook) and that rows grow old. In
`worktrees` nothing is assumed of people: they may move a checkout in and out of
doctor's reach for ever, and the property asks that what doctor may repair does
not stay so. `repair` has no twin pushes and no maintenance: with those, another
push may take the dead one's row and nothing promises its approvals back.

`store` assumes that a process that has begun goes on, with `SF`, because a
waiting writer is overtaken as long as others get the lock first: SQLite retries
at intervals and promises no order. It also assumes that a failed `quorumgit
init` is run again (`WF` of `Open`).

Nothing is assumed about requests, votes, pushes, claims and handoffs.
`CHECK_DEADLOCK` is off everywhere, because a store where everything is done and
every bound is used up may rest.

`push` leaves out twin pushes, maintenance and lost hooks: with them its
properties fail, as listed above. It has Git dying under the lock at any moment.

## Proofs

All theorems hold for every value of the constants that satisfies the modules'
named assumptions, for any number of tasks, pushes, commits, migrations and
processes. Except for four in `PushProofs` they use no assumption about the
environment constants: hooks may be lost, pushes doubled, policies changed,
commands killed. Those four state the environment they need, because TLC refutes
them in a worse one: `Calm` has no twin pushes and no maintenance, `Prompt` is
calm and its outcome hooks arrive in time. Git may die in all of them.

| Theorem | States |
|---|---|
| `OwnershipProofs!TypeCorrect` | types of the three tables |
| `OwnershipProofs!BranchesExclusive` | `BranchExclusive` |
| `OwnershipProofs!AtMostOneOwner` | `OneOwner` |
| `OwnershipProofs!OverlapsRecorded` | `OverlapIsRecorded` |
| `OwnershipProofs!ReservationsKept` | `ReservationsCollideOnlyAfterExpiry` |
| `OwnershipProofs!TakeoversAtomic` | `TakeoverIsAtomic` |
| `OwnershipProofs!TaskBoardImplemented` | `ImplementsTaskBoard`, the refinement |
| `PushGateProofs!GateTypeCorrect` | types of refs, phases and tables |
| `PushGateProofs!BooksBalance` | `SpendingBalances` |
| `PushGateProofs!OneLiveApproval` | `OneLiveInstance` |
| `PushGateProofs!RowsNeverShared` | `RowsAreNotShared` |
| `PushProofs!ChangesPaid` | `MovesArePaid` for every move from a value, in every environment |
| `PushProofs!MovesPaid` | `MovesArePaid`, if `Calm` |
| `PushProofs!LedgerTrue` | `LedgerTellsTruth`, if `Prompt` |
| `PushProofs!AuthorizesOnce` | `ApprovalAuthorizesOnce`, if `Prompt` |
| `PushProofs!PushIsPurchase` | `ImplementsPaidRef`, the refinement, if `Prompt` |
| `AuthorityProofs!AuthorityTypeCorrect` | types of roles, policy and approvals |
| `AuthorityProofs!TwoPersonsAlways` | `TwoPersonRule` |
| `AuthorityProofs!DenialAlwaysWins` | `DenialWins` |
| `AuthorityProofs!RulesAlwaysAgree` | `EngineAgrees` |
| `AuthorityProofs!UsesHaveTheVotes` | `OthersSuffice` |
| `AuthorityProofs!BootstrapStaysOver` | `BootstrapEndsForGood` |
| `WorktreesProofs!WorktreesTyped` | types of claims, records and disk; every record is of a claim and a checkout that were made (`RecordsRefer`) |
| `WorktreesProofs!AdoptionVerified` | `AdoptionIsVerified` |
| `WorktreesProofs!ReservedKept` | `ReservedIsKept` |
| `WorktreesProofs!HandoffPasses` | `HandoffPassesCheckout` |
| `WorktreesProofs!WorkKept` | `WorkIsKept` |
| `WorktreesProofs!ClosedGone` | `ClosedMeansGone` |
| `GovernanceProofs!GovernanceTyped` | types of the hub, rules and updates |
| `GovernanceProofs!FreshContentGoverned` | `FreshContentIsGoverned` |
| `GovernanceProofs!ClaimedBranchScoped` | `ClaimedBranchCarriesScopedWork` |
| `GovernanceProofs!ApprovalsStay` | `ApprovalsStayValid` |
| `GovernanceProofs!PlansMatchGate` | `PlanMatchesGate` |
| `ScopesProofs!OverlapsNeverMissed` | globs of any length that cover one file, in whatever case, overlap |
| `ScopesProofs!OverlapConservative` | `OverlapIsConservative`, for every bound |
| `StoreProofs!StoreTyped` | types; the lock is held exactly in a transaction |
| `StoreProofs!MigrationsWhole` | `MigrationsAreWhole` |
| `StoreProofs!SchemaFound` | `CommandsFindTheirSchema` |
| `StoreProofs!SerialStoreImplemented` | `ImplementsSerialStore`, the refinement |

* *Ownership.* Every step either grants one claim, after looking at all live
  ones, or revives none (`StepShape`), and time only makes live claims fewer:
  `BranchExclusive`, `OverlapIsRecorded` and `OneOwner` are inductive with
  `TypeOK`. The overlap property is the one that needs the overlap relation to
  be symmetric (`OverlapAssumption`; `scopes_overlap` is). Reservations need two
  facts more: a claim behind an open handoff is released, so it is not the live
  holder it may collide with, and branches are exclusive, so two claims that are
  both in time cannot both be handed off.
* *TaskBoard.* A transaction concerns one task (`OnlyTask`), so the board changes
  at that task or not at all (`Becomes`); `OneOwner` says which owners and offers
  were there before.
* *PushGate.* `SpendingBalances` needs to know that a row spends at most one
  instance per operation and spends nothing while it is `validated`
  (`RowsWellFormed`), and that live instances are unique; the three are
  inductive together (`Tables`). `RowsAreNotShared` needs that a row a push
  rests on has left `validated` for good, and that a push rests on none before
  its prepared hook (`RowsInv`).
* *Push.* `GateInv` holds in every environment: rows grow old in order
  (`AgeOrdered`), the lock is held by exactly the push Git is at, whose old value
  is the ref's (`LockHeld`), and a prepared push has spent what the update of its
  row needs, no more and no less (`PaidRows`). Hence `ChangesPaid`: the row's old
  value is the push's, unless that is zero. In a calm environment no two pushes in
  flight fit one row (`NoTwins`), so each finds the row it made (`OwnRows`): it is
  the newest that fits, and if it has grown stale every older one has too, so
  none is found. That closes the gap for creations. When hooks are in time,
  `Recorded` says that the row of a push under way is `prepared` and fresh, so
  neither another hook nor doctor settles it, and that the row of one that is
  over is `committed`. `LedgerTellsTruth` is read off it; with `SpendingBalances`
  and `RowsAreNotShared` it gives `ApprovalAuthorizesOnce`; and with `PaidRows`
  and `RowsWellFormed` the step in which Git moves the ref is a `Move`, while
  consuming and restoring do not show in the purse.
* *Authority.* The heart is `OthersAuthorize`: if a use is authorized, the votes
  of the others meet the threshold and, under quorum, are more than two thirds
  of the others, whether or not the consumer voted or is eligible. From it
  follow `OthersSuffice`, the two-person rule (a threshold is at least one) and
  the agreement with the trigger (`RulesAgree`), which is a fact about the two
  rules in any typed state.
* *Worktrees.* The invariant is that a record belongs to a claim that was made,
  on the claim's branch, and that a claim has at most one active record; the
  second is why a handoff that moves one record moves all. Every command then
  satisfies `Step`, the conjunction of what the action properties need, so the
  five theorems are one induction.
* *Governance.* `HubIsKnown` says that what is on a ref has arrived, and
  `RowEnough` that the paths of every row cover each commit that is still new, and
  its scope paths each one that was never mainline and is not excused: commits only
  ever become known, so a derivation from an older state of the hub asks for too
  much and never for too little. That is the argument by which the unlocked reads
  of the hub are safe, for any row a hook may find. It does not hold of the unlocked
  read of the rules, whose set may also shrink: `TrustedTips` bounds what that
  costs by `lapsed`. For `ApprovalsStay`, rows of other updates are added and
  removed around the one that is found (`AppendingKeepsFound`,
  `RemovalKeepsFound`).
* *Scopes.* A path that a glob covers starts with the literal prefix of the glob:
  the pieces before the first wildcard take one symbol each, so the i-th ends at i
  (`CoveredStartsWithPrefix`). Two prefixes of one file, up to case, lie one in
  the other. The induction along the prefix is a least counterexample (`Least`,
  from the well-foundedness of the naturals): the library's induction theorems
  have an operator as a parameter, which the provers cannot instantiate.
* *Store.* `Knows` is what a process may rely on although it read it outside any
  transaction (migrations are not taken back), `Sees` is how the open
  transaction differs from the committed store. The refinement also needs that a
  command in the log is over (`Settled`).

What is only model-checked: liveness (`NothingSpentForNothing`,
`PreparedIsSettled`, `DriftIsReconciled`, `InitConverges`), which is out of the
prover's reach. Every other property of a passing run is a theorem.

## Plan

Done: ownership, push gate, authority, worktrees, governed operations and
planning, scopes, store. What a next step could add: an atomic push of several
refs in `PushGate` itself, where a ref may land although Git gave up on the
push.

## Not modelled

* Several refs in one push, as rows and approvals of one transaction: `Governance`
  treats them as updates of their own, which they are for what they need, and the
  undoing of those prepared before a refused one is the rollback of a command that
  refuses between two writes in `Store`.
* Repository registration and ref namespaces: single-row writes; which Git
  directory two paths name is the file system's matter.
* Checkpoints and `verify_commit`: an appended row no decision reads, and a
  question to Git.
* Hook installation (`gate.py` 1394-1593): contents, permissions and versions of
  files.
* Audit and conflict events: append-only, in the transaction of the change they
  describe, and read by no decision.
* Canonical JSON and its hash: operations are model values, the hash is taken to
  be injective.
* The tokenizer of the schema fingerprint, and the text `normalize_scope`
  accepts: both are modelled by what they decide.
* Configuration, argument parsing, printing.
* The displayed `threshold` column of an approval: nothing decides on it.
