-------------------------- MODULE GovernanceProofs --------------------------
(* Theorems about Governance: nothing comes in unlooked at, for every       *)
(* history, every set of refs and every number of concurrent pushes.        *)
EXTENDS Governance, TLAPS

(* What has been on a ref, and on a mainline ref, is never forgotten. *)
HubIsKnown ==
  /\ Reachable(RefTips) \subseteq arrived
  /\ Shared \subseteq mainline

(* What a push found, and later its row, covers what is new to the hub, now *)
(* or later: the hub only learns commits, so the derivation errs on the     *)
(* side of asking.  It covers too what was never mainline, apart from work  *)
(* below the old value and work on a ref that had just lost its protection. *)
Excused(row) == mainline \cup Reachable({row.old} \ {Zero}) \cup row.lapsed
PathsEnough(row) ==
  row.new # Zero => \A c \in Reach[row.new] \ arrived : Touches[c] \subseteq row.paths
ScopePathsEnough(row) ==
  row.new # Zero => \A c \in Reach[row.new] \ Excused(row) : Touches[c] \subseteq row.scopePaths
RowEnough(row) == PathsEnough(row) /\ ScopePathsEnough(row)
RecordedEnough(u) ==
  LET m == update[u]
  IN /\ m.phase \in {"connected", "begun", "scanned"} =>
          Reachable({m.old} \ {Zero}) \subseteq arrived
     /\ m.phase = "scanned" => PathsEnough(m)
     /\ m.phase = "derived" => RowEnough(m)

Inv ==
  /\ TypeOK
  /\ HubIsKnown
  /\ \A u \in Updates : RecordedEnough(u)
  /\ \A i \in DOMAIN ledger : RowEnough(ledger[i])

----------------------------------------------------------------------------
LEMMA TipsTyped ==
  ASSUME TypeOK, NEW refs \in SUBSET Refs
  PROVE  Tips(refs) \subseteq Commits
BY DEF TypeOK, Tips, Values

LEMMA ReachableTyped ==
  ASSUME NEW tips \in SUBSET Commits
  PROVE  Reachable(tips) \subseteq Commits
BY ReachAssumption DEF Reachable

LEMMA SharedTyped ==
  ASSUME TypeOK
  PROVE  /\ {Default} \cup rules.refs \subseteq Refs
         /\ Shared \subseteq Commits
<1>1. {Default} \cup rules.refs \subseteq Refs
  BY RulesAssumption DEF TypeOK, Rules
<1> QED
  BY <1>1, TipsTyped, ReachableTyped DEF Shared

LEMMA ChangedPathsTyped ==
  ASSUME NEW old \in Values, NEW new \in Values, NEW known
  PROVE  ChangedPaths(old, new, known) \subseteq Paths
<1>1. CASE new = Zero
  BY <1>1 DEF ChangedPaths
<1>2. CASE new # Zero
  <2>1. Reach[new] \subseteq Commits
    BY <1>2, ReachAssumption DEF Values
  <2>2. \A c \in Commits : Touches[c] \subseteq Paths
    BY RulesAssumption
  <2> QED
    BY <1>2, <2>1, <2>2, Zenon DEF ChangedPaths, NewCommits
<1> QED
  BY <1>1, <1>2

(* Every commit that is not behind what is known has its paths derived. *)
LEMMA ChangedPathsCover ==
  ASSUME NEW old, NEW new, new # Zero, NEW known,
         NEW c \in Reach[new], c \notin Reachable(known \cup ({old} \ {Zero}))
  PROVE  Touches[c] \subseteq ChangedPaths(old, new, known)
<1>1. c \in NewCommits(new, known \cup ({old} \ {Zero}))
  BY DEF NewCommits
<1> QED
  BY <1>1, Zenon DEF ChangedPaths

LEMMA ReachableUnion ==
  ASSUME NEW A, NEW B
  PROVE  Reachable(A \cup B) = Reachable(A) \cup Reachable(B)
BY DEF Reachable

LEMMA NeedTyped ==
  ASSUME NEW condition, NEW type, NEW paths,
         condition => [type |-> type, paths |-> paths] \in Operation
  PROVE  Need(condition, type, paths) \subseteq Operation
BY Zenon DEF Need

LEMMA OperationsTyped ==
  ASSUME TypeOK, NEW r \in Refs, NEW old, NEW new,
         NEW paths \in SUBSET Paths, NEW scopePaths \in SUBSET Paths
  PROVE  Operations(r, old, new, paths, scopePaths) \subseteq Operation
<1> DEFINE outside == OutOfScope(r, scopePaths)
           protected == Within(paths, rules.paths)
<1>1. outside \subseteq Paths /\ protected \subseteq Paths
  BY DEF OutOfScope, Outside, Within
<1>2. \A type \in RefOps : [type |-> type, paths |-> {}] \in Operation
  BY DEF Operation
<1>3. \A type \in ContentOps, p \in (SUBSET Paths) \ {{}} : [type |-> type, paths |-> p] \in Operation
  BY DEF Operation
<1>4. /\ Need(r \in rules.refs, "protected_ref_update", {}) \subseteq Operation
      /\ Need(new = Zero, "ref_delete", {}) \subseteq Operation
      /\ Need(Forced(old, new), "force_update", {}) \subseteq Operation
  BY <1>2, NeedTyped DEF RefOps
<1>5. /\ Need(outside # {}, "out_of_scope_push", outside) \subseteq Operation
      /\ Need(protected # {}, "protected_path_update", protected) \subseteq Operation
  <2> HIDE DEF outside, protected
  <2>1. /\ outside # {} => [type |-> "out_of_scope_push", paths |-> outside] \in Operation
        /\ protected # {} => [type |-> "protected_path_update", paths |-> protected] \in Operation
    BY <1>1, <1>3 DEF ContentOps
  <2> QED
    BY <2>1, NeedTyped, Zenon
<1> QED
  BY <1>4, <1>5, Zenon DEF Operations

----------------------------------------------------------------------------
(* Taking a row out of the ledger brings none in. *)
LEMMA WithoutRows ==
  ASSUME ledger \in Seq(Row), NEW i \in DOMAIN ledger
  PROVE  /\ Without(i) \in Seq(Row)
         /\ \A j \in DOMAIN Without(i) : \E k \in DOMAIN ledger : Without(i)[j] = ledger[k]
<1>1. Len(ledger) \in Nat /\ DOMAIN ledger = 1..Len(ledger) /\ i \in 1..Len(ledger)
  OBVIOUS
<1>2. ASSUME NEW j \in 1..Len(ledger) - 1
      PROVE  (IF j < i THEN j ELSE j + 1) \in DOMAIN ledger
  BY <1>1
<1>3. Len(ledger) - 1 \in Nat /\ \A k \in DOMAIN ledger : ledger[k] \in Row
  BY <1>1
<1>4. Without(i) \in [1..Len(ledger) - 1 -> Row]
  BY <1>2, <1>3 DEF Without
<1>5. Without(i) \in Seq(Row)
  BY <1>3, <1>4
<1>6. \A j \in DOMAIN Without(i) : \E k \in DOMAIN ledger : Without(i)[j] = ledger[k]
  BY <1>2 DEF Without
<1> QED
  BY <1>5, <1>6

LEMMA InitInv == Init => Inv
<1> SUFFICES ASSUME Init  PROVE Inv
  OBVIOUS
<1>1. Idle \in Update
  BY RulesAssumption DEF Idle, Update, Phases, Values
<1>2. TypeOK
  <2>1. hub \in [Refs -> Values]
    BY RulesAssumption DEF Init, Values
  <2>2. rules \in Rules /\ changes \in 0..MaxRuleChanges
    BY RulesAssumption DEF Init
  <2>3. update \in [Updates -> Update] /\ ledger \in Seq(Row)
    BY <1>1 DEF Init
  <2>4. arrived \subseteq Commits /\ mainline \subseteq Commits
    <3>1. RefTips \subseteq Commits
      BY <2>1 DEF RefTips, Tips, Values
    <3>2. Tips({Default} \cup rules.refs) \subseteq Commits
      BY <2>1, <2>2, RulesAssumption DEF Tips, Values, Rules
    <3> QED
      BY <3>1, <3>2, ReachableTyped DEF Init, Shared
  <2>5. claim \in [Refs -> SUBSET (SUBSET Globs)] /\ \A r \in Refs : \A a, b \in claim[r] : a = b
    BY DEF Init
  <2> QED
    BY <2>1, <2>2, <2>3, <2>4, <2>5 DEF TypeOK
<1>3. HubIsKnown
  BY DEF HubIsKnown, Init
<1>4. \A u \in Updates : RecordedEnough(u)
  BY DEF Init, Idle, RecordedEnough
<1>5. \A i \in DOMAIN ledger : RowEnough(ledger[i])
  BY DEF Init
<1> QED
  BY <1>2, <1>3, <1>4, <1>5 DEF Inv

(* The records of a push that does nothing stay sufficient. *)
LEMMA RecordsKeep ==
  ASSUME NEW u \in Updates, RecordedEnough(u), update'[u] = update[u],
         arrived \subseteq arrived', mainline \subseteq mainline'
  PROVE  RecordedEnough(u)'
BY DEF RecordedEnough, RowEnough, PathsEnough, ScopePathsEnough, Excused

LEMMA RowsKeep ==
  ASSUME NEW row, RowEnough(row), arrived \subseteq arrived', mainline \subseteq mainline'
  PROVE  RowEnough(row)'
BY DEF RowEnough, PathsEnough, ScopePathsEnough, Excused

LEMMA ClaimInv ==
  ASSUME Inv, NEW r \in Refs, NEW scopes \in Claimable[r], Claim(r, scopes)
  PROVE  Inv'
<1>1. TypeOK'
  <2>1. scopes \in SUBSET Globs
    BY RulesAssumption
  <2> QED
    BY <2>1 DEF Inv, TypeOK, Claim
<1>2. HubIsKnown' /\ \A u \in Updates : RecordedEnough(u)'
  BY RecordsKeep DEF Inv, HubIsKnown, Claim, RefTips, Shared, Tips
<1>3. \A i \in DOMAIN ledger' : RowEnough(ledger[i])'
  BY RowsKeep DEF Inv, Claim
<1> QED
  BY <1>1, <1>2, <1>3 DEF Inv

LEMMA UnclaimInv ==
  ASSUME Inv, NEW r \in Refs, Unclaim(r)
  PROVE  Inv'
<1>1. TypeOK'
  BY DEF Inv, TypeOK, Unclaim
<1>2. HubIsKnown' /\ \A u \in Updates : RecordedEnough(u)'
  BY RecordsKeep DEF Inv, HubIsKnown, Unclaim, RefTips, Shared, Tips
<1>3. \A i \in DOMAIN ledger' : RowEnough(ledger[i])'
  BY RowsKeep DEF Inv, Unclaim
<1> QED
  BY <1>1, <1>2, <1>3 DEF Inv

LEMMA ChangeRulesInv ==
  ASSUME Inv, NEW new \in Rules, ChangeRules(new)
  PROVE  Inv'
<1>1. /\ hub' = hub /\ rules' = new /\ claim' = claim /\ update' = update
      /\ ledger' = ledger
      /\ arrived' = arrived /\ mainline' = mainline \cup Shared'
      /\ changes' \in 0..MaxRuleChanges
  BY RulesAssumption DEF ChangeRules, Inv, TypeOK
<1>2. Shared' \subseteq Commits
  <2>1. {Default} \cup rules'.refs \subseteq Refs
    BY <1>1, RulesAssumption DEF Rules
  <2>2. Tips({Default} \cup rules.refs)' \subseteq Commits
    BY <1>1, <2>1 DEF Inv, TypeOK, Tips, Values
  <2> QED
    BY <2>2, ReachAssumption DEF Shared, Reachable
<1>3. TypeOK'
  BY <1>1, <1>2 DEF Inv, TypeOK
<1>4. HubIsKnown'
  BY <1>1 DEF Inv, HubIsKnown, RefTips, Tips
<1>5. \A u \in Updates : RecordedEnough(u)'
  BY <1>1, RecordsKeep DEF Inv
<1>6. \A i \in DOMAIN ledger' : RowEnough(ledger[i])'
  BY <1>1, RowsKeep DEF Inv
<1> QED
  BY <1>3, <1>4, <1>5, <1>6 DEF Inv

LEMMA SetProtectedRefInv == ASSUME Inv, NEW r \in Refs, SetProtectedRef(r)  PROVE Inv'
<1>1. PICK refs \in {rules.refs \cup {r}, rules.refs \ {r}} : ChangeRules([rules EXCEPT !.refs = refs])
  BY DEF SetProtectedRef
<1>2. [rules EXCEPT !.refs = refs] \in Rules
  BY <1>1 DEF Inv, TypeOK, Rules
<1> QED
  BY <1>1, <1>2, ChangeRulesInv

LEMMA SetProtectedPathInv == ASSUME Inv, NEW g \in Globs, SetProtectedPath(g)  PROVE Inv'
<1>1. PICK paths \in {rules.paths \cup {g}, rules.paths \ {g}} : ChangeRules([rules EXCEPT !.paths = paths])
  BY DEF SetProtectedPath
<1>2. [rules EXCEPT !.paths = paths] \in Rules
  BY <1>1 DEF Inv, TypeOK, Rules
<1> QED
  BY <1>1, <1>2, ChangeRulesInv

(* A push that only changes what it has of its own, and its row. *)
LEMMA OwnRecord ==
  ASSUME Inv, NEW u \in Updates, NEW m \in Update, Advance(u, m), RecordedEnough(u)',
         ledger' \in Seq(Row), \A i \in DOMAIN ledger' : RowEnough(ledger'[i])
  PROVE  Inv'
<1>1. TypeOK'
  BY DEF Inv, TypeOK, Advance
<1>2. HubIsKnown'
  BY DEF Inv, HubIsKnown, RefTips, Shared, Tips, Advance
<1>3. ASSUME NEW v \in Updates  PROVE RecordedEnough(v)'
  <2>1. v # u => update'[v] = update[v]
    BY DEF Inv, TypeOK, Advance
  <2> QED
    BY <2>1, RecordsKeep DEF Inv, Advance
<1>4. \A i \in DOMAIN ledger' : RowEnough(ledger[i])'
  BY DEF RowEnough, PathsEnough, ScopePathsEnough, Excused, Advance
<1> QED
  BY <1>1, <1>2, <1>3, <1>4 DEF Inv

LEMMA OwnRecordKeepsRows ==
  ASSUME Inv, NEW u \in Updates, NEW m \in Update, Advance(u, m), RecordedEnough(u)',
         UNCHANGED ledger
  PROVE  Inv'
BY OwnRecord DEF Inv, TypeOK

LEMMA Advanced ==
  ASSUME Inv, NEW u \in Updates, NEW m, Advance(u, m)
  PROVE  update'[u] = m /\ arrived' = arrived /\ mainline' = mainline
BY DEF Inv, TypeOK, Advance

LEMMA OldIsKnown ==
  ASSUME Inv, NEW r \in Refs
  PROVE  Reachable({hub[r]} \ {Zero}) \subseteq arrived
<1>1. {hub[r]} \ {Zero} \subseteq RefTips
  BY DEF RefTips, Tips
<1> QED
  BY <1>1 DEF Inv, HubIsKnown, Reachable

LEMMA ConnectInv ==
  ASSUME Inv, NEW u \in Updates, NEW r \in Refs, NEW new \in Values, Connect(u, r, new)
  PROVE  Inv'
<1> DEFINE m == [Idle EXCEPT !.phase = "connected", !.ref = r, !.old = hub[r], !.new = new]
<1>1. m \in Update /\ m.phase = "connected" /\ m.old = hub[r]
  <2>1. hub[r] \in Values /\ "connected" \in Phases
    BY DEF Inv, TypeOK, Phases
  <2> QED
    BY <2>1 DEF Update, Idle
<1>2. Advance(u, m) /\ UNCHANGED ledger
  BY DEF Connect
<1> HIDE DEF m
<1>3. RecordedEnough(u)'
  BY <1>1, <1>2, Advanced, OldIsKnown DEF RecordedEnough
<1> QED
  BY <1>1, <1>2, <1>3, OwnRecordKeepsRows

LEMMA ReadRulesInv ==
  ASSUME Inv, NEW u \in Updates, ReadRules(u)
  PROVE  Inv'
<1> DEFINE m == [update[u] EXCEPT !.phase = "begun", !.trusted = rules.refs]
<1>1. update[u] \in Update /\ rules.refs \subseteq Refs /\ "begun" \in Phases
  BY DEF Inv, TypeOK, Rules, Phases
<1>2. m \in Update /\ m.phase = "begun" /\ m.old = update[u].old
  BY <1>1 DEF Update
<1>3. Advance(u, m) /\ UNCHANGED ledger /\ update[u].phase = "connected"
  BY DEF ReadRules, At
<1>4. Reachable({m.old} \ {Zero}) \subseteq arrived
  BY <1>2, <1>3 DEF Inv, RecordedEnough
<1> HIDE DEF m
<1>5. RecordedEnough(u)'
  BY <1>2, <1>3, <1>4, Advanced DEF RecordedEnough
<1> QED
  BY <1>2, <1>3, <1>5, OwnRecordKeepsRows

LEMMA ScanRefsInv ==
  ASSUME Inv, NEW u \in Updates, ScanRefs(u)
  PROVE  Inv'
<1> DEFINE paths == ChangedPaths(update[u].old, update[u].new, RefTips)
           m == [update[u] EXCEPT !.phase = "scanned", !.paths = paths]
<1>1. update[u] \in Update /\ update[u].old \in Values /\ update[u].new \in Values /\ paths \subseteq Paths
  BY ChangedPathsTyped DEF Inv, TypeOK, Update
<1>2. m \in Update /\ m.phase = "scanned" /\ m.paths = paths /\ m.old = update[u].old /\ m.new = update[u].new
  <2> HIDE DEF paths
  <2>1. "scanned" \in Phases
    BY DEF Phases
  <2> QED
    BY <1>1, <2>1 DEF Update
<1>3. Advance(u, m) /\ UNCHANGED ledger /\ update[u].phase = "begun"
  BY DEF ScanRefs, At
<1>4. Reachable({m.old} \ {Zero}) \subseteq arrived
  BY <1>2, <1>3 DEF Inv, RecordedEnough
<1>5. ASSUME m.new # Zero, NEW c \in Reach[m.new] \ arrived  PROVE Touches[c] \subseteq m.paths
  <2>1. c \notin Reachable(RefTips \cup ({m.old} \ {Zero}))
    BY <1>4, <1>5, ReachableUnion DEF Inv, HubIsKnown
  <2> QED
    BY <1>2, <1>5, <2>1, ChangedPathsCover, Zenon
<1> HIDE DEF m
<1>6. RecordedEnough(u)'
  BY <1>2, <1>3, <1>4, <1>5, Advanced DEF RecordedEnough, PathsEnough
<1> QED
  BY <1>2, <1>3, <1>6, OwnRecordKeepsRows

(* What counts as mainline by the rules read before is mainline, or on a    *)
(* ref whose protection was withdrawn since.                                *)
LEMMA TrustedTips ==
  ASSUME Inv, NEW protected \in SUBSET Refs
  PROVE  Reachable(MainlineTips(protected))
           \subseteq mainline \cup Reachable(Tips(protected \ ({Default} \cup rules.refs)))
<1>1. MainlineTips(protected)
        \subseteq Tips({Default} \cup rules.refs) \cup Tips(protected \ ({Default} \cup rules.refs))
  BY DEF MainlineTips, Tips
<1>2. Reachable(Tips({Default} \cup rules.refs)) \subseteq mainline
  BY DEF Inv, HubIsKnown, Shared
<1> QED
  BY <1>1, <1>2 DEF Reachable

LEMMA ScanMainlineInv ==
  ASSUME Inv, NEW u \in Updates, ScanMainline(u)
  PROVE  Inv'
<1> DEFINE m == update[u]
           tips == MainlineTips(m.trusted)
           gone == Tips(m.trusted \ ({Default} \cup rules.refs))
           n == [m EXCEPT !.phase = "derived", !.trusted = {},
                   !.scopePaths = ChangedPaths(m.old, m.new, tips), !.lapsed = Reachable(gone)]
<1>1. m \in Update /\ m.old \in Values /\ m.new \in Values /\ m.trusted \subseteq Refs
  BY DEF Inv, TypeOK, Update
<1>2. Reachable(gone) \subseteq Commits
  BY <1>1, TipsTyped, ReachableTyped DEF Inv
<1>3. ChangedPaths(m.old, m.new, tips) \subseteq Paths
  BY <1>1, ChangedPathsTyped
<1>4. /\ n \in Update /\ n.phase = "derived"
      /\ n.old = m.old /\ n.new = m.new /\ n.paths = m.paths
      /\ n.scopePaths = ChangedPaths(m.old, m.new, tips) /\ n.lapsed = Reachable(gone)
  <2> HIDE DEF tips, gone
  <2> QED
    BY <1>1, <1>2, <1>3 DEF Update, Phases
<1>5. Advance(u, n) /\ UNCHANGED ledger /\ m.phase = "scanned"
  BY DEF ScanMainline, At
<1>6. ASSUME m.new # Zero, NEW c \in Reach[m.new] \ Excused(n)
      PROVE  Touches[c] \subseteq ChangedPaths(m.old, m.new, tips)
  <2>1. c \notin mainline /\ c \notin Reachable({m.old} \ {Zero}) /\ c \notin Reachable(gone)
    BY <1>4, <1>6 DEF Excused
  <2>2. c \notin Reachable(tips)
    BY <1>1, <2>1, TrustedTips
  <2>3. c \notin Reachable(tips \cup ({m.old} \ {Zero}))
    <3>1. Reachable(tips \cup ({m.old} \ {Zero})) = Reachable(tips) \cup Reachable({m.old} \ {Zero})
      BY ReachableUnion, Zenon
    <3> HIDE DEF tips, m
    <3> QED
      BY <2>1, <2>2, <3>1, Zenon
  <2> QED
    BY <1>6, <2>3, ChangedPathsCover, Zenon
<1>7. PathsEnough(m)
  BY <1>5 DEF Inv, RecordedEnough
<1> HIDE DEF n, m
<1>8. RowEnough(n)
  BY <1>4, <1>6, <1>7 DEF RowEnough, PathsEnough, ScopePathsEnough
<1>9. update'[u] = n /\ arrived' = arrived /\ mainline' = mainline
  BY <1>4, <1>5, Advanced
<1>10. RecordedEnough(u)'
  BY <1>4, <1>8, <1>9 DEF RecordedEnough, RowEnough, PathsEnough, ScopePathsEnough, Excused
<1> QED
  BY <1>4, <1>5, <1>10, OwnRecordKeepsRows

(* The row pre-receive writes. *)
NewRow(u) ==
  LET m == update[u]
  IN [ref |-> m.ref, old |-> m.old, new |-> m.new,
      paths |-> m.paths, scopePaths |-> m.scopePaths, lapsed |-> m.lapsed]

LEMMA NewRowTyped ==
  ASSUME Inv, NEW u \in Updates
  PROVE  NewRow(u) \in Row
BY DEF Inv, TypeOK, Update, NewRow, Row

LEMMA ValidateInv ==
  ASSUME Inv, NEW u \in Updates, Validate(u)
  PROVE  Inv'
<1> DEFINE m == update[u]
           row == NewRow(u)
           n == [m EXCEPT !.phase = "received", !.paths = {}, !.scopePaths = {}, !.lapsed = {}]
<1>1. m \in Update /\ row \in Row
  BY NewRowTyped DEF Inv, TypeOK
<1>2. n \in Update /\ n.phase = "received"
  BY <1>1 DEF Update, Phases
<1>3. Advance(u, n) /\ ledger' = Append(ledger, row) /\ m.phase = "derived"
  BY DEF Validate, At, NewRow
<1>4. RowEnough(row)
  <2>1. RowEnough(m)
    BY <1>3 DEF Inv, RecordedEnough
  <2> QED
    BY <2>1 DEF NewRow, RowEnough, PathsEnough, ScopePathsEnough, Excused
<1> HIDE DEF row, n
<1>5. ledger' \in Seq(Row) /\ \A i \in DOMAIN ledger' : RowEnough(ledger'[i])
  <2>1. ledger \in Seq(Row) /\ \A i \in DOMAIN ledger : RowEnough(ledger[i])
    BY DEF Inv, TypeOK
  <2>2. \A i \in DOMAIN ledger' : ledger'[i] = row \/ (i \in DOMAIN ledger /\ ledger'[i] = ledger[i])
    BY <1>1, <1>3, <2>1
  <2> QED
    BY <1>1, <1>3, <1>4, <2>1, <2>2
<1>6. RecordedEnough(u)'
  BY <1>2, <1>3, Advanced DEF RecordedEnough
<1> QED
  BY <1>2, <1>3, <1>5, <1>6, OwnRecord

(* Rows that are left are among those that were there. *)
LEMMA FewerRows ==
  ASSUME Inv, NEW u, NEW i \in FoundRow(u), ledger' = Without(i)
  PROVE  /\ ledger' \in Seq(Row)
         /\ \A j \in DOMAIN ledger' : RowEnough(ledger'[j])
<1>1. i \in DOMAIN ledger
  BY DEF FoundRow, Matching
<1> QED
  BY <1>1, WithoutRows DEF Inv, TypeOK

LEMMA FailInv ==
  ASSUME Inv, NEW u \in Updates, Fail(u)
  PROVE  Inv'
<1> DEFINE m == [Idle EXCEPT !.phase = "failed"]
<1>1. m \in Update /\ m.phase = "failed"
  BY RulesAssumption DEF Idle, Update, Phases, Values
<1>2. Advance(u, m)
  BY DEF Fail
<1>3. ledger' \in Seq(Row) /\ \A j \in DOMAIN ledger' : RowEnough(ledger'[j])
  BY FewerRows DEF Fail, Inv, TypeOK
<1> HIDE DEF m
<1>4. RecordedEnough(u)'
  BY <1>1, <1>2, Advanced DEF RecordedEnough
<1> QED
  BY <1>1, <1>2, <1>3, <1>4, OwnRecord

LEMMA AskedTyped ==
  ASSUME Inv, NEW i \in DOMAIN ledger
  PROVE  AskedFor(ledger[i]) \subseteq Operation
<1>1. ledger[i] \in Row
  BY DEF Inv, TypeOK
<1> QED
  BY <1>1, OperationsTyped DEF AskedFor, Inv, Row

LEMMA LandInv ==
  ASSUME Inv, NEW u \in Updates, Land(u)
  PROVE  Inv'
<1> DEFINE m == update[u]
<1>1. m \in Update /\ m.ref \in Refs /\ m.new \in Values
  BY DEF Inv, TypeOK, Update
<1>2. PICK i \in FoundRow(u) :
        /\ ledger' = Without(i)
        /\ update' = [update EXCEPT ![u] =
             [Idle EXCEPT !.phase = "landed", !.spent = AskedFor(ledger[i])]]
  BY DEF Land
<1> DEFINE n == [Idle EXCEPT !.phase = "landed", !.spent = AskedFor(ledger[i])]
<1>3. n \in Update /\ n.phase = "landed"
  <2>1. AskedFor(ledger[i]) \subseteq Operation
    BY <1>2, AskedTyped DEF FoundRow, Matching
  <2> QED
    BY <2>1, RulesAssumption DEF Update, Idle, Phases, Values
<1>4. /\ hub' = [hub EXCEPT ![m.ref] = m.new] /\ update' = [update EXCEPT ![u] = n]
      /\ arrived' = arrived \cup Reachable({m.new} \ {Zero})
      /\ mainline' = mainline \cup Shared' /\ claim' = claim /\ rules' = rules /\ changes' = changes
  BY <1>2 DEF Land
<1> HIDE DEF n
<1>5. hub' \in [Refs -> Values] /\ update' \in [Updates -> Update]
  BY <1>1, <1>3, <1>4 DEF Inv, TypeOK
<1>6. Reachable({m.new} \ {Zero}) \subseteq Commits
  BY <1>1, ReachableTyped DEF Values
<1>7. Shared' \subseteq Commits
  <2>1. Tips({Default} \cup rules.refs)' \subseteq Commits
    BY <1>4, <1>5, SharedTyped DEF Inv, Tips, Values
  <2> QED
    BY <2>1, ReachAssumption DEF Shared, Reachable
<1>8. /\ ledger' \in Seq(Row)
      /\ \A j \in DOMAIN ledger' : RowEnough(ledger'[j])
  BY <1>2, FewerRows
<1>9. TypeOK'
  BY <1>4, <1>5, <1>6, <1>7, <1>8 DEF Inv, TypeOK
<1>10. HubIsKnown'
  <2>1. RefTips' \subseteq RefTips \cup ({m.new} \ {Zero})
    BY <1>4, <1>5 DEF RefTips, Tips, Inv, TypeOK
  <2>2. Reachable(RefTips)' \subseteq arrived'
    BY <1>4, <2>1 DEF Inv, HubIsKnown, Reachable
  <2> QED
    BY <1>4, <2>2 DEF HubIsKnown
<1>11. ASSUME NEW v \in Updates  PROVE RecordedEnough(v)'
  <2>1. CASE v = u
    BY <1>3, <1>4, <1>5, <2>1 DEF RecordedEnough, Inv, TypeOK
  <2>2. CASE v # u
    BY <1>4, <2>2, RecordsKeep DEF Inv, TypeOK
  <2> QED
    BY <2>1, <2>2
<1>12. \A j \in DOMAIN ledger' : RowEnough(ledger[j])'
  BY <1>4, <1>8 DEF RowEnough, PathsEnough, ScopePathsEnough, Excused
<1> QED
  BY <1>9, <1>10, <1>11, <1>12 DEF Inv

LEMMA StepInv == Inv /\ [Next]_vars => Inv'
<1> SUFFICES ASSUME Inv, [Next]_vars  PROVE Inv'
  OBVIOUS
<1>1. CASE UNCHANGED vars
  <2>1. TypeOK' /\ HubIsKnown'
    BY <1>1 DEF vars, Inv, TypeOK, HubIsKnown, RefTips, Shared, Tips
  <2>2. (\A u \in Updates : RecordedEnough(u)') /\ \A i \in DOMAIN ledger' : RowEnough(ledger[i])'
    BY <1>1, RecordsKeep, RowsKeep DEF vars, Inv
  <2> QED
    BY <2>1, <2>2 DEF Inv
<1>2. CASE Next
  <2>1. ASSUME NEW u \in Updates, NEW r \in Refs, NEW new \in Pushable[r], Connect(u, r, new)
        PROVE  Inv'
    BY <2>1, ConnectInv, RulesAssumption DEF Values
  <2> QED
    BY <1>2, <2>1, ClaimInv, UnclaimInv, SetProtectedRefInv, SetProtectedPathInv, ReadRulesInv,
       ScanRefsInv, ScanMainlineInv, ValidateInv, LandInv, FailInv, Zenon DEF Next
<1> QED
  BY <1>1, <1>2

----------------------------------------------------------------------------
THEOREM GovernanceInvariant == Spec => []Inv
BY InitInv, StepInv, PTL DEF Spec

(* Every state is well-typed; in particular, no approval of a content       *)
(* operation is ever asked for without naming a path.                       *)
THEOREM GovernanceTyped == Spec => []TypeOK
<1>1. Inv => TypeOK
  BY DEF Inv
<1> QED
  BY <1>1, GovernanceInvariant, PTL

(* A step of a push. *)
Goes(v) ==
  \/ \E r \in Refs, new \in Values : Connect(v, r, new)
  \/ ReadRules(v) \/ ScanRefs(v) \/ ScanMainline(v) \/ Validate(v) \/ Land(v) \/ Fail(v)

(* Where an action leaves the push it is about, and all others. *)
LEMMA Advances ==
  ASSUME Inv, NEW v \in Updates
  PROVE  /\ \A r \in Refs, new \in Values : Connect(v, r, new) => update'[v].phase = "connected"
         /\ ReadRules(v) => update'[v].phase = "begun"
         /\ ScanRefs(v) => update'[v].phase = "scanned"
         /\ ScanMainline(v) => update'[v].phase = "derived"
         /\ Validate(v) => update[v].phase = "derived" /\ update'[v].phase = "received"
         /\ Land(v) => update'[v].phase = "landed"
         /\ Fail(v) => update'[v].phase = "failed"
<1>1. update[v] \in Update /\ update \in [Updates -> Update]
  BY DEF Inv, TypeOK
<1>2. ASSUME NEW r \in Refs, NEW new \in Values, Connect(v, r, new)
      PROVE  update'[v].phase = "connected"
  BY <1>1, <1>2 DEF Connect, Advance, Idle
<1>3. ReadRules(v) => update'[v].phase = "begun"
  BY <1>1 DEF ReadRules, Advance, Update
<1>4. ScanRefs(v) => update'[v].phase = "scanned"
  BY <1>1 DEF ScanRefs, Advance, Update
<1>5. ScanMainline(v) => update'[v].phase = "derived"
  BY <1>1 DEF ScanMainline, Advance, Update
<1>6. Validate(v) => update[v].phase = "derived" /\ update'[v].phase = "received"
  BY <1>1 DEF Validate, Advance, Update, At
<1>7. Land(v) => update'[v].phase = "landed"
  BY <1>1 DEF Land, Idle
<1>8. Fail(v) => update'[v].phase = "failed"
  BY <1>1 DEF Fail, Advance, Idle
<1> QED
  BY <1>2, <1>3, <1>4, <1>5, <1>6, <1>7, <1>8

LEMMA OthersStay ==
  ASSUME Inv, NEW v \in Updates, NEW u \in Updates \ {v}, Goes(v)
  PROVE  update'[u] = update[u]
<1>1. \E m : update' = [update EXCEPT ![v] = m]
  BY Zenon DEF Goes, Connect, ReadRules, ScanRefs, ScanMainline, Validate, Land, Fail, Advance
<1> QED
  BY <1>1 DEF Inv, TypeOK

LEMMA OnlyPushesMove ==
  ASSUME [Next]_vars
  PROVE  UNCHANGED <<update, ledger>> \/ \E v \in Updates : Goes(v)
<1>1. CASE UNCHANGED vars
  BY <1>1 DEF vars
<1>2. ASSUME NEW u \in Updates, NEW r \in Refs, NEW new \in Pushable[r], Connect(u, r, new)
      PROVE  Goes(u)
  BY <1>2, RulesAssumption DEF Goes, Values
<1>3. CASE Next
  BY <1>2, <1>3, Zenon DEF Next, Goes, Claim, Unclaim, SetProtectedRef, SetProtectedPath, ChangeRules
<1> QED
  BY <1>1, <1>3

(* There is one newest row. *)
LEMMA OneFound ==
  ASSUME Inv, NEW u, NEW i \in FoundRow(u), NEW j \in FoundRow(u)
  PROVE  i = j
<1>1. i <= j /\ j <= i /\ i \in DOMAIN ledger /\ j \in DOMAIN ledger
  BY DEF FoundRow, Matching
<1>2. DOMAIN ledger \subseteq Nat
  BY DEF Inv, TypeOK
<1> QED
  BY <1>1, <1>2

(* A push lands by the prepared hook alone, on the row it found. *)
LEMMA LandingIsLand ==
  ASSUME Inv, [Next]_vars, NEW u \in Updates, Lands(u)
  PROVE  \E i \in FoundRow(u) : /\ i \in DOMAIN ledger /\ ledger[i].new = update[u].new
                                /\ update'[u].spent = AskedFor(ledger[i])
<1>1. update[u].phase = "received" /\ update'[u].phase = "landed"
  BY DEF Lands, At
<1>2. update'[u] # update[u]
  BY <1>1
<1>3. PICK v \in Updates : Goes(v)
  BY <1>2, OnlyPushesMove
<1>4. v = u
  BY <1>2, <1>3, OthersStay
<1>5. Land(u)
  BY <1>1, <1>3, <1>4, Advances DEF Goes
<1>6. PICK i \in FoundRow(u) :
        update' = [update EXCEPT ![u] = [Idle EXCEPT !.phase = "landed", !.spent = AskedFor(ledger[i])]]
  BY <1>5 DEF Land
<1>7. update'[u].spent = AskedFor(ledger[i])
  BY <1>6 DEF Inv, TypeOK, Idle
<1> QED
  BY <1>6, <1>7 DEF FoundRow, Matching

(* The paths named by the approvals an update asks for. *)
LEMMA NamedPaths ==
  ASSUME NEW r, NEW old, NEW new, NEW paths, NEW scopePaths, NEW spent,
         spent = Operations(r, old, new, paths, scopePaths)
  PROVE  /\ Within(paths, rules.paths)
              \subseteq UNION {op.paths : op \in {o \in spent : o.type = "protected_path_update"}}
         /\ OutOfScope(r, scopePaths)
              \subseteq UNION {op.paths : op \in {o \in spent : o.type = "out_of_scope_push"}}
<1> DEFINE outside == OutOfScope(r, scopePaths)
           protected == Within(paths, rules.paths)
<1>1. protected # {} => [type |-> "protected_path_update", paths |-> protected] \in spent
  BY Zenon DEF Operations, Need
<1>2. outside # {} => [type |-> "out_of_scope_push", paths |-> outside] \in spent
  BY Zenon DEF Operations, Need
<1> HIDE DEF outside, protected
<1>3. protected \subseteq UNION {op.paths : op \in {o \in spent : o.type = "protected_path_update"}}
  BY <1>1
<1>4. outside \subseteq UNION {op.paths : op \in {o \in spent : o.type = "out_of_scope_push"}}
  BY <1>2
<1> QED
  BY <1>3, <1>4 DEF outside, protected

(* Whatever refs, pushes and rules do meanwhile, a protected path of a      *)
(* commit new to the hub is named by a spent approval.                      *)
THEOREM FreshContentGoverned == Spec => FreshContentIsGoverned
<1> DEFINE Named == \A u \in Updates : Lands(u) /\ update[u].new # Zero =>
             \A c \in Reach[update[u].new] \ arrived :
               Within(Touches[c], rules.paths) \subseteq Approved(u, "protected_path_update")'
<1>1. Inv /\ [Next]_vars => Named
  <2> SUFFICES ASSUME Inv, [Next]_vars, NEW u \in Updates, Lands(u), update[u].new # Zero,
                      NEW c \in Reach[update[u].new] \ arrived
               PROVE  Within(Touches[c], rules.paths) \subseteq Approved(u, "protected_path_update")'
    OBVIOUS
  <2>1. PICK i \in FoundRow(u) : /\ i \in DOMAIN ledger /\ ledger[i].new = update[u].new
                                /\ update'[u].spent = AskedFor(ledger[i])
    BY LandingIsLand
  <2> DEFINE row == ledger[i]
  <2>2. Touches[c] \subseteq row.paths
    BY <2>1 DEF Inv, RowEnough, PathsEnough
  <2>3. Within(Touches[c], rules.paths) \subseteq Within(row.paths, rules.paths)
    BY <2>2 DEF Within
  <2>4. Within(row.paths, rules.paths)
          \subseteq UNION {op.paths : op \in {o \in update'[u].spent : o.type = "protected_path_update"}}
    <3>1. update'[u].spent = Operations(row.ref, row.old, row.new, row.paths, row.scopePaths)
      BY <2>1 DEF AskedFor
    <3> QED
      BY <3>1, NamedPaths
  <2> QED
    BY <2>3, <2>4, Zenon DEF Approved
<1> QED
  BY <1>1, GovernanceInvariant, PTL DEF Spec, FreshContentIsGoverned

(* A branch that is claimed when the ref moves gets no work that was never  *)
(* mainline outside the claim, except approved path by path, below the old  *)
(* value the hook goes by, or read on a ref that was protected a moment ago.*)
THEOREM ClaimedBranchScoped == Spec => ClaimedBranchCarriesScopedWork
<1> DEFINE Scoped == \A u \in Updates : Lands(u) /\ update[u].new # Zero =>
       \A i \in FoundRow(u) :
         LET row == ledger[i]
             excused == mainline \cup Reachable({row.old} \ {Zero}) \cup row.lapsed
         IN \A c \in Reach[row.new] \ excused : \A scopes \in claim[row.ref] :
              Outside(Touches[c], scopes) \subseteq Approved(u, "out_of_scope_push")'
<1>1. Inv /\ [Next]_vars => Scoped
  <2> SUFFICES ASSUME Inv, [Next]_vars, NEW u \in Updates, Lands(u), update[u].new # Zero,
                      NEW i \in FoundRow(u),
                      NEW c \in Reach[ledger[i].new] \ Excused(ledger[i]),
                      NEW scopes \in claim[ledger[i].ref]
               PROVE  Outside(Touches[c], scopes) \subseteq Approved(u, "out_of_scope_push")'
    BY Zenon DEF Excused
  <2> DEFINE row == ledger[i]
  <2>1. i \in DOMAIN ledger /\ row.new = update[u].new /\ update'[u].spent = AskedFor(row)
    BY LandingIsLand, OneFound
  <2>2. Touches[c] \subseteq row.scopePaths
    BY <2>1 DEF Inv, RowEnough, ScopePathsEnough
  <2>3. Outside(Touches[c], scopes) \subseteq OutOfScope(row.ref, row.scopePaths)
    BY <2>2 DEF Outside, OutOfScope
  <2>4. OutOfScope(row.ref, row.scopePaths)
          \subseteq UNION {op.paths : op \in {o \in update'[u].spent : o.type = "out_of_scope_push"}}
    <3>1. update'[u].spent = Operations(row.ref, row.old, row.new, row.paths, row.scopePaths)
      BY <2>1 DEF AskedFor
    <3> QED
      BY <3>1, NamedPaths
  <2> QED
    BY <2>3, <2>4, Zenon DEF Approved
<1> QED
  BY <1>1, GovernanceInvariant, PTL DEF Spec, ClaimedBranchCarriesScopedWork

(* A plan that is not refused is exact, in every clone. *)
THEOREM PlansMatchGate == Spec => []PlanMatchesGate
<1>1. Inv => PlanMatchesGate
  <2> SUFFICES ASSUME Inv, NEW u \in Updates, hub[update[u].ref] = update[u].old,
                      NEW clone \in Clones, Plannable(clone, update[u].old, update[u].new)
               PROVE  Planned(clone, update[u].ref, update[u].new)
                        = Operations(update[u].ref, update[u].old, update[u].new,
                            ChangedPaths(update[u].old, update[u].new, RefTips),
                            ChangedPaths(update[u].old, update[u].new, MainlineTips(rules.refs)))
    BY Zenon DEF PlanMatchesGate
  <2>1. CASE update[u].new = Zero
    BY <2>1, Zenon DEF Planned, ChangedPaths
  <2>2. CASE update[u].new # Zero
    <3>1. MainlineTips(rules.refs) \subseteq RefTips
      BY SharedTyped DEF MainlineTips, RefTips, Tips, Inv
    <3>2. RefTips \cap clone = RefTips /\ MainlineTips(rules.refs) \cap clone = MainlineTips(rules.refs)
      BY <2>2, <3>1 DEF Plannable
    <3> QED
      BY <3>2, Zenon DEF Planned
  <2> QED
    BY <2>1, <2>2
<1> QED
  BY <1>1, GovernanceInvariant, PTL

(* Rows of other updates come and go without moving the one that is found.  *)
Found(u) == {ledger[i] : i \in FoundRow(u)}

LEMMA AppendingKeepsFound ==
  ASSUME Inv, NEW u, NEW row \in Row, row.ref # update[u].ref \/ row.new # update[u].new,
         ledger' = Append(ledger, row), update'[u] = update[u]
  PROVE  Found(u)' = Found(u)
<1>1. ledger \in Seq(Row)
  BY DEF Inv, TypeOK
<1>2. Len(ledger) \in Nat /\ DOMAIN ledger = 1..Len(ledger)
  BY <1>1
<1>3. /\ DOMAIN ledger' = 1..Len(ledger) + 1 /\ ledger'[Len(ledger) + 1] = row
      /\ \A i \in DOMAIN ledger : ledger'[i] = ledger[i]
  BY <1>1
<1>4. Matching(u)' = Matching(u)
  BY <1>2, <1>3 DEF Matching
<1>5. FoundRow(u)' = FoundRow(u)
  BY <1>4 DEF FoundRow
<1> QED
  BY <1>3, <1>5 DEF Found, FoundRow, Matching

LEMMA RemovalKeepsFound ==
  ASSUME Inv, NEW u, NEW k \in DOMAIN ledger, k \notin Matching(u),
         ledger' = Without(k), update'[u] = update[u]
  PROVE  Found(u)' = Found(u)
<1> DEFINE from(i) == IF i < k THEN i ELSE i + 1
           to(i) == IF i < k THEN i ELSE i - 1
<1>1. ledger \in Seq(Row)
  BY DEF Inv, TypeOK
<1>2. Len(ledger) \in Nat /\ DOMAIN ledger = 1..Len(ledger) /\ k \in 1..Len(ledger)
  BY <1>1
<1>3. /\ DOMAIN ledger' = 1..Len(ledger) - 1
      /\ \A i \in DOMAIN ledger' : ledger'[i] = ledger[from(i)]
  BY DEF Without
<1>4. \A i \in DOMAIN ledger' : i \in Matching(u)' <=> from(i) \in Matching(u)
  BY <1>2, <1>3 DEF Matching
<1>5. \A j \in Matching(u) : to(j) \in DOMAIN ledger' /\ from(to(j)) = j
  BY <1>2, <1>3 DEF Matching
<1>6. \A j \in Matching(u) : to(j) \in Matching(u)'
  BY <1>4, <1>5
<1>7. /\ Matching(u) \subseteq Nat /\ Matching(u)' \subseteq Nat
      /\ \A i \in Matching(u)' : i \in DOMAIN ledger'
  BY <1>2, <1>3 DEF Matching
<1>8. ASSUME NEW i \in FoundRow(u)'  PROVE from(i) \in FoundRow(u)
  <2>1. i \in Matching(u)' /\ from(i) \in Matching(u)
    BY <1>4, <1>7 DEF FoundRow
  <2>2. ASSUME NEW j \in Matching(u)  PROVE j <= from(i)
    <3>1. to(j) <= i
      BY <1>6, <1>8 DEF FoundRow
    <3> QED
      BY <1>2, <1>5, <1>7, <2>1, <3>1
  <2> QED
    BY <2>1, <2>2 DEF FoundRow
<1>9. ASSUME NEW j \in FoundRow(u)  PROVE to(j) \in FoundRow(u)'
  <2>1. j \in Matching(u) /\ to(j) \in Matching(u)'
    BY <1>6 DEF FoundRow
  <2>2. ASSUME NEW i \in Matching(u)'  PROVE i <= to(j)
    <3>1. from(i) <= j
      BY <1>4, <1>7, <1>9 DEF FoundRow
    <3> QED
      BY <1>2, <1>7, <2>1, <3>1
  <2> QED
    BY <2>1, <2>2 DEF FoundRow
<1>10. \A i \in FoundRow(u)' : from(i) \in FoundRow(u) /\ ledger'[i] = ledger[from(i)]
  BY <1>3, <1>7, <1>8 DEF FoundRow
<1>11. \A j \in FoundRow(u) : to(j) \in FoundRow(u)' /\ ledger'[to(j)] = ledger[j]
  BY <1>3, <1>5, <1>9 DEF FoundRow
<1> HIDE DEF from, to
<1> QED
  BY <1>10, <1>11 DEF Found

(* Another update moves, and is no twin of this one. *)
LEMMA OthersKeepFound ==
  ASSUME Inv, NEW u \in Updates, NEW v \in Updates, v # u, Goes(v),
         update'[u] = update[u], Twin(u, v) => update'[v] = update[v]
  PROVE  Found(u)' = Found(u)
<1>1. CASE UNCHANGED ledger
  BY <1>1 DEF Found, FoundRow, Matching
<1>2. CASE Validate(v)
  <2>1. ~Twin(u, v)
    BY <1>2, Advances
  <2>2. /\ ledger' = Append(ledger, NewRow(v)) /\ NewRow(v) \in Row
        /\ NewRow(v).ref = update[v].ref /\ NewRow(v).new = update[v].new
    BY <1>2, NewRowTyped DEF Validate, NewRow
  <2> QED
    BY <2>1, <2>2, AppendingKeepsFound DEF Twin
<1>3. ASSUME At(v, "received"), update'[v].phase # "received",
             NEW k \in FoundRow(v), ledger' = Without(k)
      PROVE  Found(u)' = Found(u)
  <2>1. ~Twin(u, v)
    BY <1>3 DEF At
  <2>2. k \in DOMAIN ledger /\ ledger[k].ref = update[v].ref /\ ledger[k].new = update[v].new
    BY <1>3 DEF FoundRow, Matching
  <2>3. k \notin Matching(u)
    BY <2>1, <2>2 DEF Matching, Twin
  <2> QED
    BY <1>3, <2>2, <2>3, RemovalKeepsFound
<1>4. CASE Land(v)
  BY <1>3, <1>4, Advances DEF Land
<1>5. CASE Fail(v)
  BY <1>1, <1>3, <1>5, Advances DEF Fail
<1> QED
  BY <1>1, <1>2, <1>4, <1>5, Zenon DEF Goes, Connect, ReadRules, ScanRefs, ScanMainline

(* Whatever other refs and their records do, what a validated update needs  *)
(* stays; only a push of the same value to the same ref can change it.      *)
THEOREM ApprovalsStay == Spec => ApprovalsStayValid
<1> DEFINE Stay == \A u \in Updates :
       LET asked == {AskedFor(ledger[i]) : i \in FoundRow(u)}
       IN At(u, "received") /\ At(u, "received")' /\ UNCHANGED <<claim, rules>>
            /\ (\A v \in Updates : Twin(u, v) => update'[v] = update[v])
          => asked' = asked
<1>1. Inv /\ [Next]_vars => Stay
  <2> SUFFICES ASSUME Inv, [Next]_vars, NEW u \in Updates,
                      At(u, "received"), At(u, "received")', UNCHANGED <<claim, rules>>,
                      \A v \in Updates : Twin(u, v) => update'[v] = update[v]
               PROVE  {AskedFor(ledger[i]) : i \in FoundRow(u)}' = {AskedFor(ledger[i]) : i \in FoundRow(u)}
    BY Zenon
  <2>1. Found(u)' = Found(u)
    <3>1. CASE UNCHANGED <<update, ledger>>
      BY <3>1 DEF Found, FoundRow, Matching
    <3>2. ASSUME NEW v \in Updates, Goes(v)  PROVE Found(u)' = Found(u)
      <4>1. v # u
        <5>1. update[u].phase = "received" /\ update'[u].phase = "received"
          BY DEF At
        <5> QED
          BY <3>2, <5>1, Advances DEF Goes
      <4> QED
        BY <3>2, <4>1, OthersStay, OthersKeepFound
    <3> QED
      BY <3>1, <3>2, OnlyPushesMove
  <2>2. \A row : AskedFor(row)' = AskedFor(row)
    BY DEF AskedFor, Operations, OutOfScope
  <2>3. {AskedFor(ledger[i]) : i \in FoundRow(u)} = {AskedFor(row) : row \in Found(u)}
    BY DEF Found
  <2>4. {AskedFor(ledger[i]) : i \in FoundRow(u)}' = {AskedFor(row)' : row \in Found(u)'}
    BY DEF Found
  <2> QED
    BY <2>1, <2>2, <2>3, <2>4
<1> QED
  BY <1>1, GovernanceInvariant, PTL DEF Spec, ApprovalsStayValid
=============================================================================
