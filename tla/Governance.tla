----------------------------- MODULE Governance -----------------------------
(***************************************************************************)
(* What a push needs approval for (src/quorumgit/gate.py, governed_        *)
(* operations and its callers; src/quorumgit/git_objects.py): derived from *)
(* the commits it brings in, the refs of the hub, the claim on the branch  *)
(* and the rules of the repository.                                        *)
(*                                                                         *)
(* pre-receive reads the protected refs, then the hub, before it takes the *)
(* store's lock, derives the changed paths and records them; the prepared  *)
(* hook finds the record of the update by its values and decides with the  *)
(* recorded paths, under the ref lock, on the claims and rules of that     *)
(* moment.  Who may push, and how approvals are spent and given back, is   *)
(* module PushGate, for which Operations is the constant Needs.            *)
(*                                                                         *)
(* A push of several refs is several updates: it derives the paths of all  *)
(* of them before any ref moves, and each ref moves in a transaction of    *)
(* its own, so it is one of the interleavings of its updates here.         *)
(***************************************************************************)
EXTENDS Naturals, Sequences, FiniteSets

CONSTANTS
  Updates,       \* ref updates that are pushed, each once
  Refs,          \* branches, in an allowed namespace
  Default,       \* the default branch
  Commits,
  Zero,          \* the zero OID: no such ref
  Reach,         \* the commits reachable from each commit, itself included
  Paths,
  Touches,       \* the paths each commit introduces (combined diff)
  Globs,         \* scopes and protected paths
  Covers,        \* path_in_scopes(): <<path, glob>> when the glob matches
  Claimable,     \* the scopes each branch may be claimed with
  Pushable,      \* bound: the values each ref is pushed to
  InitialHubs,   \* values of the refs to start from
  InitialRules,  \* protected refs and paths
  MaxRuleChanges \* bound: changes of the rules

Rules == [refs : SUBSET Refs, paths : SUBSET Globs]

ASSUME ReachAssumption ==
  /\ Reach \in [Commits -> SUBSET Commits]
  /\ \A c \in Commits : c \in Reach[c]
  /\ \A c \in Commits : \A d \in Reach[c] : Reach[d] \subseteq Reach[c]
ASSUME RulesAssumption ==
  /\ Default \in Refs
  /\ Touches \in [Commits -> SUBSET Paths]
  /\ Covers \subseteq Paths \X Globs
  /\ Claimable \in [Refs -> SUBSET (SUBSET Globs)]
  /\ Pushable \in [Refs -> SUBSET (Commits \cup {Zero})]
  /\ InitialHubs \subseteq [Refs -> Commits \cup {Zero}]
  /\ InitialRules \in Rules
  /\ MaxRuleChanges \in Nat
ASSUME NamesAssumption == Zero \notin Commits

VARIABLES
  hub,       \* the value of each ref
  claim,     \* {the scopes of the live claim on the branch}, {} without one
  rules,     \* the protected refs and paths
  changes,   \* how often the rules were changed
  update,    \* where each update is
  ledger,    \* the validated rows of ref_updates, oldest first
  arrived,   \* commits the hub has ever had
  mainline   \* commits that have ever been on the default or a protected ref

vars == <<hub, claim, rules, changes, update, ledger, arrived, mainline>>

Values == Commits \cup {Zero}
RefOps == {"protected_ref_update", "ref_delete", "force_update"}
ContentOps == {"out_of_scope_push", "protected_path_update"}
Operation == [type : RefOps, paths : {{}}]
               \cup [type : ContentOps, paths : (SUBSET Paths) \ {{}}]
Phases == {"idle", "connected", "begun", "scanned", "derived", "received", "landed", "failed"}
Update ==
  [phase : Phases,
   ref : Refs, old : Values, new : Values,
   trusted : SUBSET Refs,         \* the protected refs, as pre-receive read them
   paths : SUBSET Paths,          \* what it derived from its first read of the hub
   scopePaths : SUBSET Paths,     \* ... and from the mainline
   lapsed : SUBSET Commits,       \* history: counted as mainline, on a ref that
                                  \* was no longer protected
   spent : SUBSET Operation]      \* the approvals spent on the update
Row ==
  [ref : Refs, old : Values, new : Values,
   paths : SUBSET Paths, scopePaths : SUBSET Paths,
   lapsed : SUBSET Commits]

TypeOK ==
  /\ hub \in [Refs -> Values]
  /\ claim \in [Refs -> SUBSET (SUBSET Globs)]
  /\ \A r \in Refs : \A a, b \in claim[r] : a = b
  /\ rules \in Rules /\ changes \in 0..MaxRuleChanges
  /\ update \in [Updates -> Update]
  /\ ledger \in Seq(Row)
  /\ arrived \subseteq Commits /\ mainline \subseteq Commits

Idle == [phase |-> "idle", ref |-> Default, old |-> Zero, new |-> Zero,
         trusted |-> {}, paths |-> {}, scopePaths |-> {}, lapsed |-> {}, spent |-> {}]

----------------------------------------------------------------------------
(* git_objects.py *)

Reachable(tips) == UNION {Reach[c] : c \in tips}

Tips(refs) == {hub[r] : r \in refs} \ {Zero}

RefTips == Tips(Refs)

(* The commits the scopes of a claim need not cover, for the history. *)
Shared == Reachable(Tips({Default} \cup rules.refs))

(* Seeded bug: every ref counts as mainline. *)
BugMainlineTips(protected) == RefTips
MainlineTips(protected) == Tips({Default} \cup protected)

(* Seeded bug: only the tip of the push is looked at. *)
BugNewCommits(new, known) == {new} \ Reachable(known)
NewCommits(new, known) == Reach[new] \ Reachable(known)

ChangedPaths(old, new, known) ==
  IF new = Zero THEN {}
  ELSE UNION {Touches[c] : c \in NewCommits(new, known \cup ({old} \ {Zero}))}

----------------------------------------------------------------------------
(* gate.py: what an update needs *)

Covered(path, globs) == \E g \in globs : <<path, g>> \in Covers
Outside(paths, globs) == {path \in paths : ~Covered(path, globs)}
Within(paths, globs) == {path \in paths : Covered(path, globs)}

Forced(old, new) == Zero \notin {old, new} /\ old \notin Reach[new]

(* Seeded bug: a claim is enough to ask for an out-of-scope approval. *)
BugNeed(condition, type, paths) ==
  IF condition \/ type = "out_of_scope_push" THEN {[type |-> type, paths |-> paths]} ELSE {}
Need(condition, type, paths) ==
  IF condition THEN {[type |-> type, paths |-> paths]} ELSE {}

OutOfScope(r, scopePaths) ==
  UNION {Outside(scopePaths, scopes) : scopes \in claim[r]}

(* governed_operations(); the operation also binds the ref, old and new. *)
Operations(r, old, new, paths, scopePaths) ==
  LET outside == OutOfScope(r, scopePaths)
      protected == Within(paths, rules.paths)
  IN Need(r \in rules.refs, "protected_ref_update", {})
       \cup Need(new = Zero, "ref_delete", {})
       \cup Need(Forced(old, new), "force_update", {})
       \cup Need(outside # {}, "out_of_scope_push", outside)
       \cup Need(protected # {}, "protected_path_update", protected)

----------------------------------------------------------------------------
(* The hub, its claims and its rules *)

Init ==
  /\ hub \in InitialHubs
  /\ claim = [r \in Refs |-> {}]
  /\ rules = InitialRules
  /\ changes = 0
  /\ update = [u \in Updates |-> Idle]
  /\ ledger = << >>
  /\ arrived = Reachable(RefTips)
  /\ mainline = Shared

(* claim_task(): nobody has the branch. *)
Claim(r, scopes) ==
  /\ claim[r] = {}
  /\ claim' = [claim EXCEPT ![r] = {scopes}]
  /\ UNCHANGED <<hub, rules, changes, update, ledger, arrived, mainline>>

(* The claim is released or expires. *)
Unclaim(r) ==
  /\ claim[r] # {}
  /\ claim' = [claim EXCEPT ![r] = {}]
  /\ UNCHANGED <<hub, rules, changes, update, ledger, arrived, mainline>>

ChangeRules(new) ==
  /\ new # rules
  /\ changes < MaxRuleChanges
  /\ rules' = new
  /\ changes' = changes + 1
  /\ UNCHANGED <<hub, claim, update, ledger, arrived>>
  /\ mainline' = mainline \cup Shared'

(* set_protected_ref(), set_protected_path(): an operator adds or removes one. *)
SetProtectedRef(r) ==
  \E refs \in {rules.refs \cup {r}, rules.refs \ {r}} :
    ChangeRules([rules EXCEPT !.refs = refs])
SetProtectedPath(g) ==
  \E paths \in {rules.paths \cup {g}, rules.paths \ {g}} :
    ChangeRules([rules EXCEPT !.paths = paths])

----------------------------------------------------------------------------
(* A push *)

At(u, phase) == update[u].phase = phase

Advance(u, m) ==
  /\ update' = [update EXCEPT ![u] = m]
  /\ UNCHANGED <<hub, claim, rules, changes, arrived, mainline>>

(* The client reads the hub's refs and asks for one of them to move. *)
Connect(u, r, new) ==
  /\ At(u, "idle")
  /\ new # hub[r]
  /\ Advance(u, [Idle EXCEPT !.phase = "connected", !.ref = r, !.old = hub[r], !.new = new])
  /\ UNCHANGED ledger

(* pre-receive, before it takes the store's lock: the rules are read       *)
(* (get_repository) ...                                                    *)
ReadRules(u) ==
  /\ At(u, "connected")
  /\ Advance(u, [update[u] EXCEPT !.phase = "begun", !.trusted = rules.refs])
  /\ UNCHANGED ledger

(* ... then every ref of the hub (ref_tips) ...                            *)
ScanRefs(u) ==
  /\ At(u, "begun")
  /\ Advance(u, [update[u] EXCEPT
       !.phase = "scanned",
       !.paths = ChangedPaths(update[u].old, update[u].new, RefTips)])
  /\ UNCHANGED ledger

(* ... then the mainline (mainline_tips), by the rules read at first.      *)
ScanMainline(u) ==
  LET m == update[u]
  IN /\ At(u, "scanned")
     /\ Advance(u, [m EXCEPT
          !.phase = "derived", !.trusted = {},
          !.scopePaths = ChangedPaths(m.old, m.new, MainlineTips(m.trusted)),
          !.lapsed = Reachable(Tips(m.trusted \ ({Default} \cup rules.refs)))])
     /\ UNCHANGED ledger

(* Under the lock, the update is recorded as validated. *)
Validate(u) ==
  LET m == update[u]
  IN /\ At(u, "derived")
     /\ ledger' = Append(ledger,
          [ref |-> m.ref, old |-> m.old, new |-> m.new,
           paths |-> m.paths, scopePaths |-> m.scopePaths, lapsed |-> m.lapsed])
     /\ Advance(u, [m EXCEPT !.phase = "received", !.paths = {}, !.scopePaths = {}, !.lapsed = {}])

(* _find_update(): the newest row of the update; when the update creates   *)
(* its ref, the old value of the row may be any.  (Age is left out: rows   *)
(* expire in the order they were made, so when the newest has expired all  *)
(* have, and the hook refuses, as in Fail.)                                *)
Matching(u) ==
  {i \in DOMAIN ledger : /\ ledger[i].ref = update[u].ref
                         /\ ledger[i].new = update[u].new
                         /\ update[u].old \in {ledger[i].old, Zero}}
FoundRow(u) == {i \in Matching(u) : \A j \in Matching(u) : j <= i}
Without(i) == [j \in 1..Len(ledger) - 1 |-> ledger[IF j < i THEN j ELSE j + 1]]

(* What the prepared hook asks for: from the row.  Seeded bug: it derives  *)
(* the paths again.                                                        *)
BugAskedFor(row) ==
  Operations(row.ref, row.old, row.new, ChangedPaths(row.old, row.new, RefTips),
             ChangedPaths(row.old, row.new, MainlineTips(rules.refs)))
AskedFor(row) == Operations(row.ref, row.old, row.new, row.paths, row.scopePaths)

(* The prepared hook, under the ref lock: every operation the update needs *)
(* now has an approved instance, which is spent, and the ref moves.        *)
Land(u) ==
  LET m == update[u]
  IN /\ At(u, "received")
     /\ hub[m.ref] = m.old
     /\ \E i \in FoundRow(u) :
          /\ ledger' = Without(i)
          /\ update' = [update EXCEPT ![u] =
               [Idle EXCEPT !.phase = "landed", !.spent = AskedFor(ledger[i])]]
     /\ hub' = [hub EXCEPT ![m.ref] = m.new]
     /\ arrived' = arrived \cup Reachable({m.new} \ {Zero})
     /\ UNCHANGED <<claim, rules, changes>>
     /\ mainline' = mainline \cup Shared'

(* Git lost the ref's value to another push: the row stays.  Or the hook   *)
(* refuses, an approval is missing, and the aborted hook resolves a row.   *)
(* (A push that breaks off earlier is one that never goes on.)             *)
Fail(u) ==
  /\ At(u, "received")
  /\ Advance(u, [Idle EXCEPT !.phase = "failed"])
  /\ \/ UNCHANGED ledger
     \/ \E i \in FoundRow(u) : ledger' = Without(i)

----------------------------------------------------------------------------
(* Push planning (prepare_push): the same derivation, read from a clone.   *)

Clones == {objects \in SUBSET Commits :
             Reachable(objects) \subseteq objects}

(* The refusals: the clone has what moves and what the hub's refs name.    *)
(* Seeded bug: only the ref that moves is compared.                        *)
BugPlannable(clone, old, new) == {old, new} \ {Zero} \subseteq clone
Plannable(clone, old, new) ==
  /\ {old, new} \ {Zero} \subseteq clone
  /\ new # Zero => RefTips \subseteq clone

Planned(clone, r, new) ==
  Operations(r, hub[r], new, ChangedPaths(hub[r], new, RefTips \cap clone),
             ChangedPaths(hub[r], new, MainlineTips(rules.refs) \cap clone))

----------------------------------------------------------------------------
Next ==
  \/ \E r \in Refs : Unclaim(r) \/ SetProtectedRef(r)
  \/ \E r \in Refs : \E scopes \in Claimable[r] : Claim(r, scopes)
  \/ \E g \in Globs : SetProtectedPath(g)
  \/ \E u \in Updates, r \in Refs : \E new \in Pushable[r] : Connect(u, r, new)
  \/ \E u \in Updates : ReadRules(u) \/ ScanRefs(u) \/ ScanMainline(u)
                          \/ Validate(u) \/ Land(u) \/ Fail(u)

Spec == Init /\ [][Next]_vars

----------------------------------------------------------------------------
(* Properties *)

Lands(u) == At(u, "received") /\ At(u, "landed")'

Approved(u, type) == UNION {op.paths : op \in {o \in update[u].spent : o.type = type}}

(* A commit the hub never had comes in only with an approval that names    *)
(* each path it touches that is protected when the ref moves: whichever    *)
(* ref brings it, whatever other pushes did since the paths were derived,  *)
(* and although the derivation reads the hub without a lock.               *)
FreshContentIsGoverned ==
  [][\A u \in Updates : Lands(u) /\ update[u].new # Zero =>
       \A c \in Reach[update[u].new] \ arrived :
         Within(Touches[c], rules.paths) \subseteq Approved(u, "protected_path_update")']_vars

(* On a claimed branch, all work that was never mainline is inside the     *)
(* claim or approved path by path: work staged on another branch first, or *)
(* pushed before the claim changed hands, does not escape it.  The record  *)
(* the hook goes by says from which value of the ref the work counts, and  *)
(* the one exception is work that stood, when the mainline was read, on a  *)
(* ref whose protection had been withdrawn since pre-receive began.        *)
ClaimedBranchCarriesScopedWork ==
  [][\A u \in Updates : Lands(u) /\ update[u].new # Zero =>
       \A i \in FoundRow(u) :
         LET row == ledger[i]
             excused == mainline \cup Reachable({row.old} \ {Zero}) \cup row.lapsed
         IN \A c \in Reach[row.new] \ excused : \A scopes \in claim[row.ref] :
              Outside(Touches[c], scopes) \subseteq Approved(u, "out_of_scope_push")']_vars

(* What a validated update needs does not change because other refs move,  *)
(* those of the same push first among them, nor because their records come *)
(* and go: the approvals obtained for it stay the ones the prepared hook   *)
(* asks for.  Only the claim, the rules, or a push of the same value to    *)
(* the same ref can change them.                                           *)
Twin(u, v) == u # v /\ update[v].ref = update[u].ref /\ update[v].new = update[u].new
ApprovalsStayValid ==
  [][\A u \in Updates :
       LET asked == {AskedFor(ledger[i]) : i \in FoundRow(u)}
       IN At(u, "received") /\ At(u, "received")' /\ UNCHANGED <<claim, rules>>
            /\ (\A v \in Updates : Twin(u, v) => update'[v] = update[v])
          => asked' = asked]_vars

(* A plan made in any clone that is not refused lists exactly what the     *)
(* hook would ask for, as long as the hub is the one that was planned for. *)
PlanMatchesGate ==
  \A u \in Updates :
    LET m == update[u]
    IN At(u, "connected") /\ hub[m.ref] = m.old =>
         \A clone \in Clones : Plannable(clone, m.old, m.new) =>
           Planned(clone, m.ref, m.new)
             = Operations(m.ref, m.old, m.new, ChangedPaths(m.old, m.new, RefTips),
                          ChangedPaths(m.old, m.new, MainlineTips(rules.refs)))
=============================================================================
