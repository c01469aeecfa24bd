-------------------------- MODULE WorktreesProofs --------------------------
(* Theorems about Worktrees. *)
EXTENDS Worktrees, SequenceTheorems, TLAPS

(* A record is of a claim that was made, on that claim's branch, and of a    *)
(* checkout that was made.                                                   *)
RecordsRefer ==
  \A r \in DOMAIN rows : /\ rows[r].claim \in DOMAIN claims
                         /\ rows[r].path \in DOMAIN disk
                         /\ rows[r].branch = claims[rows[r].claim].branch

(* A claim has at most one record that is not closed.                        *)
Inv ==
  /\ TypeOK
  /\ RecordsRefer
  /\ \A r, s \in DOMAIN rows :
       rows[r].claim = rows[s].claim /\ Active(r) /\ Active(s) => r = s

----------------------------------------------------------------------------
(* Sequences that are rebuilt row by row *)

LEMMA Rebuilt ==
  ASSUME NEW S, NEW T, NEW s \in Seq(T), NEW f,
         f = [i \in DOMAIN s |-> f[i]], \A i \in DOMAIN s : f[i] \in S
  PROVE  f \in Seq(S) /\ DOMAIN f = DOMAIN s /\ Len(f) = Len(s)
<1>1. Len(s) \in Nat /\ DOMAIN s = 1..Len(s)
  BY LenProperties
<1>2. f \in [1..Len(s) -> S]
  BY <1>1
<1>3. f \in Seq(S)
  BY <1>1, <1>2, SeqDef
<1>4. DOMAIN f = DOMAIN s
  OBVIOUS
<1> QED
  BY <1>1, <1>3, <1>4, LenProperties

LEMMA Appended ==
  ASSUME NEW S, NEW s \in Seq(S), NEW e \in S
  PROVE  /\ Append(s, e) \in Seq(S) /\ Len(Append(s, e)) = Len(s) + 1
         /\ Len(s) \in Nat /\ Len(s) + 1 \notin DOMAIN s
         /\ DOMAIN Append(s, e) = DOMAIN s \cup {Len(s) + 1}
         /\ Append(s, e)[Len(s) + 1] = e
         /\ \A i \in DOMAIN s : Append(s, e)[i] = s[i]
BY AppendProperties, LenProperties

(* Claims keep their task and branch; a step that replaces the holder of a  *)
(* task releases it.                                                        *)
LEMMA WithoutHolderFacts ==
  ASSUME TypeOK, NEW t \in Tasks
  PROVE  LET after == WithoutHolder(t)
         IN /\ after \in Seq(Claim) /\ DOMAIN after = DOMAIN claims /\ Len(after) = Len(claims)
            /\ \A c \in DOMAIN claims :
                 /\ after[c].task = claims[c].task /\ after[c].branch = claims[c].branch
                 /\ after[c].state \in {claims[c].state, "released"}
                 /\ after[c].state # claims[c].state => Unreleased(c)
<1> DEFINE after == WithoutHolder(t)
<1>1. after = [c \in DOMAIN claims |-> after[c]]
  BY DEF WithoutHolder
<1>2. ASSUME NEW c \in DOMAIN claims
      PROVE  /\ after[c] \in Claim
             /\ after[c].task = claims[c].task /\ after[c].branch = claims[c].branch
             /\ after[c].state \in {claims[c].state, "released"}
             /\ after[c].state # claims[c].state => Unreleased(c)
  <2>1. claims[c] \in Claim
    BY ElementOfSeq, LenProperties DEF TypeOK
  <2>2. CASE c \in Holders(t)
    <3>1. after[c] = [claims[c] EXCEPT !.state = "released"] /\ Unreleased(c)
      BY <2>2 DEF WithoutHolder, Holders
    <3> QED
      BY <2>1, <3>1 DEF Claim
  <2>3. CASE c \notin Holders(t)
    BY <2>1, <2>3 DEF WithoutHolder
  <2> QED
    BY <2>2, <2>3
<1>3. claims \in Seq(Claim)
  BY DEF TypeOK
<1> HIDE DEF after
<1>4. after \in Seq(Claim) /\ DOMAIN after = DOMAIN claims /\ Len(after) = Len(claims)
  BY <1>1, <1>2, <1>3, Rebuilt
<1> QED
  BY <1>2, <1>4 DEF after

LEMMA WithStateFacts ==
  ASSUME TypeOK, NEW c \in DOMAIN claims, NEW state \in {"live", "expired", "handoff", "released"}
  PROVE  LET after == WithState(c, state)
         IN /\ after \in Seq(Claim) /\ DOMAIN after = DOMAIN claims /\ Len(after) = Len(claims)
            /\ \A d \in DOMAIN claims :
                 after[d].task = claims[d].task /\ after[d].branch = claims[d].branch
            /\ after[c].state = state
            /\ \A d \in DOMAIN claims \ {c} : after[d] = claims[d]
<1> DEFINE after == WithState(c, state)
           row == [claims[c] EXCEPT !.state = state]
<1>1. claims \in Seq(Claim) /\ claims[c] \in Claim
  BY ElementOfSeq, LenProperties DEF TypeOK
<1>2. row \in Claim /\ row.task = claims[c].task /\ row.branch = claims[c].branch /\ row.state = state
  BY <1>1 DEF Claim
<1>3. after = [claims EXCEPT ![c] = row]
  BY DEF WithState
<1> HIDE DEF row, after
<1>4. after \in Seq(Claim) /\ Len(after) = Len(claims) /\ DOMAIN after = DOMAIN claims
      /\ \A i \in DOMAIN claims : after[i] = IF i = c THEN row ELSE claims[i]
  BY <1>1, <1>2, <1>3, ExceptSeq
<1> QED
  BY <1>2, <1>4 DEF after

LEMMA GrantedFacts ==
  ASSUME TypeOK, NEW t \in Tasks, NEW b \in Branches
  PROVE  LET after == Granted(t, b)
             new == Len(claims) + 1
         IN /\ after \in Seq(Claim) /\ Len(after) = new
            /\ new \notin DOMAIN claims /\ DOMAIN after = DOMAIN claims \cup {new}
            /\ after[new] = [task |-> t, branch |-> b, state |-> "live"]
            /\ \A c \in DOMAIN claims : after[c] = WithoutHolder(t)[c]
<1>1. [task |-> t, branch |-> b, state |-> "live"] \in Claim
  BY DEF Claim
<1> QED
  BY <1>1, WithoutHolderFacts, Appended DEF Granted

(* Records keep claim, path and branch when some are closed. *)
LEMMA MarkRemovedFacts ==
  ASSUME TypeOK, NEW R
  PROVE  LET after == MarkRemoved(R)
         IN /\ after \in Seq(Row) /\ DOMAIN after = DOMAIN rows
            /\ \A r \in DOMAIN rows :
                 /\ after[r].claim = rows[r].claim /\ after[r].path = rows[r].path
                 /\ after[r].branch = rows[r].branch
                 /\ after[r].removed <=> rows[r].removed \/ r \in R
<1> DEFINE after == MarkRemoved(R)
<1>1. after = [r \in DOMAIN rows |-> after[r]]
  BY DEF MarkRemoved
<1>2. ASSUME NEW r \in DOMAIN rows
      PROVE  /\ after[r] \in Row
             /\ after[r].claim = rows[r].claim /\ after[r].path = rows[r].path
             /\ after[r].branch = rows[r].branch
             /\ after[r].removed <=> rows[r].removed \/ r \in R
  <2>1. rows[r] \in Row
    BY ElementOfSeq, LenProperties DEF TypeOK
  <2>2. PICK x \in BOOLEAN : x <=> rows[r].removed \/ r \in R
    OBVIOUS
  <2>3. after[r] = [rows[r] EXCEPT !.removed = x]
    BY <2>2, Zenon DEF MarkRemoved
  <2> QED
    BY <2>1, <2>2, <2>3 DEF Row
<1>3. rows \in Seq(Row)
  BY DEF TypeOK
<1> HIDE DEF after
<1>4. after \in Seq(Row) /\ DOMAIN after = DOMAIN rows
  BY <1>1, <1>2, <1>3, Rebuilt
<1> QED
  BY <1>2, <1>4 DEF after

LEMMA TransferredFacts ==
  ASSUME TypeOK, NEW r \in DOMAIN rows, NEW c \in 1..MaxClaims
  PROVE  LET after == Transferred(r, c)
         IN /\ after \in Seq(Row) /\ DOMAIN after = DOMAIN rows
            /\ after[r].claim = c /\ after[r].path = rows[r].path
            /\ after[r].branch = rows[r].branch /\ after[r].removed = rows[r].removed
            /\ \A s \in DOMAIN rows \ {r} : after[s] = rows[s]
<1> DEFINE row == [rows[r] EXCEPT !.claim = c]
           after == Transferred(r, c)
<1>1. rows[r] \in Row /\ rows \in Seq(Row)
  BY ElementOfSeq, LenProperties DEF TypeOK
<1>2. /\ row \in Row /\ row.claim = c /\ row.path = rows[r].path
      /\ row.branch = rows[r].branch /\ row.removed = rows[r].removed
  BY <1>1 DEF Row
<1>3. after = [rows EXCEPT ![r] = row]
  BY DEF Transferred
<1> HIDE DEF row, after
<1>4. after \in Seq(Row) /\ DOMAIN after = DOMAIN rows
      /\ \A i \in DOMAIN rows : after[i] = IF i = r THEN row ELSE rows[i]
  BY <1>1, <1>2, <1>3, ExceptSeq
<1> QED
  BY <1>2, <1>4 DEF after

LEMMA HandedOnFacts ==
  ASSUME TypeOK, Len(claims) < MaxClaims, NEW c \in DOMAIN claims
  PROVE  LET after == HandedOn(c)
         IN /\ after \in Seq(Row) /\ DOMAIN after = DOMAIN rows
            /\ \A r \in DOMAIN rows :
                 /\ after[r].claim = IF r \in ActiveOf(c) THEN Len(claims) + 1 ELSE rows[r].claim
                 /\ after[r].path = rows[r].path /\ after[r].branch = rows[r].branch
                 /\ after[r].removed = rows[r].removed
<1> DEFINE after == HandedOn(c)
           new == Len(claims) + 1
<1>1. after = [r \in DOMAIN rows |-> after[r]]
  BY DEF HandedOn
<1>2. new \in 1..MaxClaims
  BY LenProperties, BoundsAssumption DEF TypeOK
<1>3. ASSUME NEW r \in DOMAIN rows
      PROVE  /\ after[r] \in Row
             /\ after[r].claim = IF r \in ActiveOf(c) THEN new ELSE rows[r].claim
             /\ after[r].path = rows[r].path /\ after[r].branch = rows[r].branch
             /\ after[r].removed = rows[r].removed
  <2>1. rows[r] \in Row
    BY ElementOfSeq, LenProperties DEF TypeOK
  <2>2. CASE r \in ActiveOf(c)
    <3>1. after[r] = [rows[r] EXCEPT !.claim = new]
      BY <2>2 DEF HandedOn
    <3> HIDE DEF after, new
    <3> QED
      BY <1>2, <2>1, <2>2, <3>1 DEF Row
  <2>3. CASE r \notin ActiveOf(c)
    BY <2>1, <2>3 DEF HandedOn
  <2> QED
    BY <2>2, <2>3
<1>4. rows \in Seq(Row)
  BY DEF TypeOK
<1> HIDE DEF after
<1>5. after \in Seq(Row) /\ DOMAIN after = DOMAIN rows
  BY <1>1, <1>3, <1>4, Rebuilt
<1> QED
  BY <1>3, <1>5 DEF after

(* Checkouts that are replaced one by one *)
LEMMA CheckoutsKept ==
  ASSUME TypeOK, NEW f, f = [p \in DOMAIN disk |-> f[p]],
         \A p \in DOMAIN disk : f[p] \in {disk[p], Gone}
  PROVE  f \in Seq(Checkout) /\ DOMAIN f = DOMAIN disk /\ Len(f) = Len(disk)
<1>1. disk \in Seq(Checkout)
  BY DEF TypeOK
<1>2. ASSUME NEW p \in DOMAIN disk  PROVE f[p] \in Checkout
  <2>1. disk[p] \in Checkout
    BY <1>1, ElementOfSeq, LenProperties
  <2>2. Gone \in Checkout
    BY DEF Gone, Checkout
  <2> QED
    BY <2>1, <2>2
<1> QED
  BY <1>1, <1>2, Rebuilt

LEMMA SweptFacts ==
  ASSUME TypeOK, NEW R
  PROVE  LET after == Swept(R)
         IN /\ after \in Seq(Checkout) /\ DOMAIN after = DOMAIN disk /\ Len(after) = Len(disk)
            /\ \A p \in DOMAIN disk :
                 after[p] = IF \/ \E r \in Removable(R) : rows[r].path = p
                               \/ disk[p].dir = "none" /\ \E r \in R : Missing(r)
                            THEN Gone ELSE disk[p]
<1> DEFINE after == Swept(R)
<1>1. after = [p \in DOMAIN disk |-> after[p]]
  BY DEF Swept
<1>2. \A p \in DOMAIN disk :
        after[p] = IF \/ \E r \in Removable(R) : rows[r].path = p
                      \/ disk[p].dir = "none" /\ \E r \in R : Missing(r)
                   THEN Gone ELSE disk[p]
  BY DEF Swept
<1>3. \A p \in DOMAIN disk : after[p] \in {disk[p], Gone}
  BY <1>2
<1> HIDE DEF after
<1> QED
  BY <1>1, <1>2, <1>3, CheckoutsKept DEF after

LEMMA OneGone ==
  ASSUME TypeOK, NEW p \in DOMAIN disk
  PROVE  LET after == [disk EXCEPT ![p] = Gone]
         IN /\ after \in Seq(Checkout) /\ DOMAIN after = DOMAIN disk /\ Len(after) = Len(disk)
            /\ after[p] = Gone /\ \A q \in DOMAIN disk \ {p} : after[q] = disk[q]
<1> DEFINE after == [disk EXCEPT ![p] = Gone]
<1>1. /\ after = [q \in DOMAIN disk |-> after[q]]
      /\ after[p] = Gone /\ \A q \in DOMAIN disk \ {p} : after[q] = disk[q]
  OBVIOUS
<1>2. \A q \in DOMAIN disk : after[q] \in {disk[q], Gone}
  BY <1>1
<1> HIDE DEF after
<1> QED
  BY <1>1, <1>2, CheckoutsKept DEF after

(* What a removal does, when there is a record to close. *)
LEMMA RemoveCheckoutFacts ==
  ASSUME Inv, NEW c \in DOMAIN claims, RemoveCheckout(c)
  PROVE  /\ rows' \in Seq(Row) /\ DOMAIN rows' = DOMAIN rows
         /\ disk' \in Seq(Checkout) /\ DOMAIN disk' = DOMAIN disk /\ Len(disk') = Len(disk)
         /\ \A r \in DOMAIN rows :
              /\ rows'[r].claim = rows[r].claim /\ rows'[r].path = rows[r].path
              /\ rows'[r].branch = rows[r].branch
              /\ rows[r].removed => rows'[r].removed
              /\ r \in ActiveOf(c) => rows'[r].removed
              /\ Active(r) /\ rows'[r].removed => r \in ActiveOf(c) /\ disk'[rows[r].path] = Gone
         /\ \A p \in DOMAIN disk :
              disk'[p] = disk[p] \/ (disk'[p] = Gone /\ disk[p].dir # "dirty")
<1>1. rows \in Seq(Row) /\ disk \in Seq(Checkout) /\ TypeOK
  BY DEF Inv, RecordsRefer, TypeOK
<1>2. CASE ActiveOf(c) = {}
  BY <1>1, <1>2 DEF RemoveCheckout, KeepCheckout, Active
<1>3. CASE ActiveOf(c) # {}
  <2>1. PICK r \in ActiveOf(c) : /\ CanRemove(rows[r].path)
                                 /\ disk' = [disk EXCEPT ![rows[r].path] = Gone]
                                 /\ rows' = MarkRemoved({r})
    BY <1>3, Zenon DEF RemoveCheckout
  <2>2. r \in DOMAIN rows /\ rows[r].path \in DOMAIN disk /\ ActiveOf(c) = {r}
    BY <2>1 DEF ActiveOf, Inv, RecordsRefer
  <2>3. /\ disk' \in Seq(Checkout) /\ DOMAIN disk' = DOMAIN disk /\ Len(disk') = Len(disk)
        /\ disk'[rows[r].path] = Gone
        /\ \A q \in DOMAIN disk \ {rows[r].path} : disk'[q] = disk[q]
    BY <1>1, <2>1, <2>2, OneGone
  <2>4. /\ rows' \in Seq(Row) /\ DOMAIN rows' = DOMAIN rows
        /\ \A s \in DOMAIN rows :
             /\ rows'[s].claim = rows[s].claim /\ rows'[s].path = rows[s].path
             /\ rows'[s].branch = rows[s].branch
             /\ rows'[s].removed <=> rows[s].removed \/ s \in {r}
    BY <1>1, <2>1, MarkRemovedFacts
  <2>5. disk[rows[r].path].dir # "dirty"
    BY <2>1 DEF CanRemove
  <2>6. ASSUME NEW s \in DOMAIN rows
        PROVE  /\ rows[s].removed => rows'[s].removed
               /\ s \in ActiveOf(c) => rows'[s].removed
               /\ Active(s) /\ rows'[s].removed => s \in ActiveOf(c) /\ disk'[rows[s].path] = Gone
    <3>1. s = r \/ s # r
      OBVIOUS
    <3> QED
      BY <2>2, <2>3, <2>4, <3>1, Zenon DEF Active
  <2>7. \A p \in DOMAIN disk : disk'[p] = disk[p] \/ (disk'[p] = Gone /\ disk[p].dir # "dirty")
    BY <2>3, <2>5
  <2> QED
    BY <2>3, <2>4, <2>6, <2>7
<1> QED
  BY <1>2, <1>3

----------------------------------------------------------------------------
(* The five action properties, as one step formula. *)
AdoptionStep ==
  \A r \in DOMAIN rows :
    LET from == rows[r].claim
        to == rows'[r].claim
    IN from # to =>
         /\ claims'[from].task = claims'[to].task
         /\ claims'[from].branch = claims'[to].branch
         /\ claims'[from].state = "released" /\ claims'[to].state = "live"
         /\ \/ claims[from].state = "handoff"
            \/ /\ disk[rows[r].path].dir # "none"
               /\ disk[rows[r].path].head = rows[r].branch
ReservedStep ==
  \A r \in DOMAIN rows :
    Active(r) /\ rows'[r].removed =>
      \/ ~Present(r)
      \/ claims'[rows[r].claim].state = "released"
HandoffStep ==
  \A c \in DOMAIN claims :
    claims[c].state = "handoff" /\ claims'[c].state = "released" =>
      \A r \in ActiveOf(c) : rows'[r].removed \/ claims'[rows'[r].claim].state = "live"
WorkStep ==
  \A p \in DOMAIN disk :
    disk[p].dir = "dirty" =>
      \/ disk'[p].dir # "none"
      \/ disk'[p].head = disk[p].head
ClosedStep ==
  \A r \in DOMAIN rows : Active(r) /\ rows'[r].removed => disk'[rows[r].path] = Gone

Step == AdoptionStep /\ ReservedStep /\ HandoffStep /\ WorkStep /\ ClosedStep

ClaimsGrow ==
  /\ claims' \in Seq(Claim) /\ Len(claims') <= MaxClaims
  /\ \A c \in DOMAIN claims : /\ c \in DOMAIN claims'
                               /\ claims'[c].branch = claims[c].branch
DiskGrows ==
  /\ disk' \in Seq(Checkout) /\ Len(disk') <= MaxCheckouts
  /\ DOMAIN disk \subseteq DOMAIN disk'
RowsStay ==
  /\ rows' \in Seq(Row) /\ DOMAIN rows' = DOMAIN rows
  /\ \A r \in DOMAIN rows :
       /\ rows'[r].claim = rows[r].claim /\ rows'[r].path = rows[r].path
       /\ rows'[r].branch = rows[r].branch
       /\ rows[r].removed => rows'[r].removed
NoHandoffEnds ==
  \A c \in DOMAIN claims : claims[c].state = "handoff" => claims'[c].state = "handoff"

LEMMA Keep ==
  ASSUME Inv, ClaimsGrow, DiskGrows, RowsStay
  PROVE  Inv'
<1>1. TypeOK'
  BY DEF ClaimsGrow, DiskGrows, RowsStay, TypeOK
<1>2. ASSUME NEW r \in DOMAIN rows'
      PROVE  /\ rows'[r].claim \in DOMAIN claims' /\ rows'[r].path \in DOMAIN disk'
             /\ rows'[r].branch = claims'[rows'[r].claim].branch
  BY <1>2 DEF Inv, RecordsRefer, ClaimsGrow, DiskGrows, RowsStay
<1>3. ASSUME NEW r \in DOMAIN rows', NEW s \in DOMAIN rows',
             rows'[r].claim = rows'[s].claim, ~rows'[r].removed, ~rows'[s].removed
      PROVE  r = s
  BY <1>3 DEF Inv, RecordsRefer, RowsStay, Active
<1> QED
  BY <1>1, <1>2, <1>3 DEF Inv, RecordsRefer, Active

LEMMA Unchanged ==
  ASSUME Inv
  PROVE  /\ UNCHANGED claims => ClaimsGrow /\ NoHandoffEnds
         /\ UNCHANGED disk => DiskGrows /\ WorkStep
         /\ UNCHANGED rows => RowsStay /\ AdoptionStep /\ ReservedStep /\ ClosedStep
         /\ NoHandoffEnds => HandoffStep
BY DEF Inv, RecordsRefer, TypeOK, ClaimsGrow, DiskGrows, RowsStay, NoHandoffEnds, AdoptionStep,
   ReservedStep, HandoffStep, WorkStep, ClosedStep, Active

(* A claim that is granted replaces none that has an open handoff. *)
LEMMA GrantedGrows ==
  ASSUME Inv, NEW t \in Tasks, NEW b \in Branches, Grantable(t, b), claims' = Granted(t, b)
  PROVE  ClaimsGrow /\ NoHandoffEnds
<1>1. TypeOK /\ Len(claims) \in Nat /\ Len(claims) < MaxClaims /\ MaxClaims \in Nat
  BY LenProperties, BoundsAssumption DEF Inv, RecordsRefer, TypeOK, Grantable
<1>g. /\ claims' \in Seq(Claim) /\ Len(claims') = Len(claims) + 1
      /\ DOMAIN claims' = DOMAIN claims \cup {Len(claims) + 1}
      /\ \A c \in DOMAIN claims : claims'[c] = WithoutHolder(t)[c]
  BY <1>1, GrantedFacts, Zenon
<1>w. \A c \in DOMAIN claims :
        /\ WithoutHolder(t)[c].branch = claims[c].branch
        /\ WithoutHolder(t)[c].state # claims[c].state => Unreleased(c)
  BY <1>1, WithoutHolderFacts, Zenon
<1>2. claims' \in Seq(Claim) /\ Len(claims') <= MaxClaims
  BY <1>1, <1>g
<1>3. ASSUME NEW c \in DOMAIN claims
      PROVE  /\ c \in DOMAIN claims' /\ claims'[c].branch = claims[c].branch
             /\ claims[c].state = "handoff" => claims'[c].state = "handoff"
  <2>1. claims[c].state = "handoff" => ~Unreleased(c)
    BY DEF Unreleased
  <2> QED
    BY <1>g, <1>w, <2>1
<1> QED
  BY <1>2, <1>3 DEF ClaimsGrow, NoHandoffEnds

LEMMA WithStateGrows ==
  ASSUME Inv, NEW c \in DOMAIN claims, NEW state \in {"live", "expired", "handoff", "released"},
         claims' = WithState(c, state)
  PROVE  /\ ClaimsGrow
         /\ claims[c].state # "handoff" => NoHandoffEnds
<1>1. TypeOK
  BY DEF Inv, RecordsRefer
<1>2. /\ claims' \in Seq(Claim) /\ DOMAIN claims' = DOMAIN claims /\ Len(claims') = Len(claims)
      /\ \A d \in DOMAIN claims : claims'[d].branch = claims[d].branch
      /\ \A d \in DOMAIN claims \ {c} : claims'[d] = claims[d]
  BY <1>1, WithStateFacts, Zenon
<1>3. Len(claims') <= MaxClaims
  BY <1>1, <1>2 DEF TypeOK
<1> QED
  BY <1>2, <1>3 DEF ClaimsGrow, NoHandoffEnds

----------------------------------------------------------------------------
(* Actions that leave the records alone *)

LEMMA ClaimOnlyStep ==
  ASSUME Inv, NEW t \in Tasks, NEW b \in Branches, ClaimOnly(t, b)
  PROVE  Inv' /\ Step
BY GrantedGrows, Keep, Unchanged DEF ClaimOnly, Step

LEMMA AddedFacts ==
  ASSUME TypeOK, NEW b \in Branches, CanAdd(b), disk' = Added(b)
  PROVE  /\ disk' \in Seq(Checkout) /\ Len(disk') <= MaxCheckouts
         /\ DOMAIN disk' = DOMAIN disk \cup {Len(disk) + 1}
         /\ \A p \in DOMAIN disk : disk'[p] = disk[p]
<1>1. [dir |-> "clean", head |-> b] \in Checkout /\ disk \in Seq(Checkout)
  BY DEF Checkout, TypeOK
<1>2. Len(disk) \in Nat /\ MaxCheckouts \in Nat
  BY <1>1, LenProperties, BoundsAssumption
<1> QED
  BY <1>1, <1>2, Appended DEF Added, CanAdd

LEMMA DieCreatingStep ==
  ASSUME Inv, NEW t \in Tasks, NEW b \in Branches, DieCreating(t, b)
  PROVE  Inv' /\ Step
<1>1. DiskGrows /\ WorkStep
  BY AddedFacts DEF DieCreating, Inv, RecordsRefer, DiskGrows, WorkStep
<1> QED
  BY <1>1, Keep, Unchanged DEF DieCreating, Step

LEMMA ClaimRefusedStep ==
  ASSUME Inv, NEW t \in Tasks, NEW b \in Branches, ClaimRefused(t, b)
  PROVE  Inv' /\ Step
<1>1. ClaimsGrow /\ NoHandoffEnds
  BY WithoutHolderFacts DEF ClaimRefused, Inv, RecordsRefer, TypeOK, ClaimsGrow, NoHandoffEnds, Unreleased
<1> QED
  BY <1>1, Keep, Unchanged DEF ClaimRefused, Step

LEMMA ExpireStep ==
  ASSUME Inv, NEW c \in DOMAIN claims, Expire(c)
  PROVE  Inv' /\ Step
<1>1. ClaimsGrow /\ NoHandoffEnds
  BY WithStateGrows DEF Expire
<1> QED
  BY <1>1, Keep, Unchanged DEF Expire, Step

LEMMA CreateHandoffStep ==
  ASSUME Inv, NEW c \in DOMAIN claims, CreateHandoff(c)
  PROVE  Inv' /\ Step
<1>1. ClaimsGrow /\ NoHandoffEnds
  BY WithStateGrows DEF CreateHandoff, Unreleased
<1> QED
  BY <1>1, Keep, Unchanged DEF CreateHandoff, Step

LEMMA DieRemovingStep ==
  ASSUME Inv, NEW c \in DOMAIN claims, DieRemoving(c)
  PROVE  Inv' /\ Step
<1>1. PICK r \in ActiveOf(c) : CanRemove(rows[r].path) /\ disk' = [disk EXCEPT ![rows[r].path] = Gone]
  BY DEF DieRemoving
<1>2. rows[r].path \in DOMAIN disk
  BY <1>1 DEF ActiveOf, Inv, RecordsRefer
<1>3. DiskGrows /\ WorkStep
  BY <1>1, <1>2, OneGone DEF Inv, RecordsRefer, TypeOK, DiskGrows, WorkStep, CanRemove
<1> QED
  BY <1>3, Keep, Unchanged DEF DieRemoving, Step

(* What somebody does to one checkout *)
LEMMA OneCheckout ==
  ASSUME Inv, NEW p \in DOMAIN disk, NEW x \in Checkout, disk' = [disk EXCEPT ![p] = x],
         UNCHANGED <<claims, rows>>,
         disk[p].dir = "dirty" => x.dir # "none" \/ x.head = disk[p].head
  PROVE  Inv' /\ Step
<1>1. disk \in Seq(Checkout)
  BY DEF Inv, RecordsRefer, TypeOK
<1>2. /\ disk' \in Seq(Checkout) /\ Len(disk') = Len(disk) /\ DOMAIN disk' = DOMAIN disk
      /\ \A q \in DOMAIN disk : disk'[q] = IF q = p THEN x ELSE disk[q]
  BY <1>1, ExceptSeq
<1>3. DiskGrows /\ WorkStep
  BY <1>2 DEF DiskGrows, WorkStep, Inv, RecordsRefer, TypeOK
<1> QED
  BY <1>3, Keep, Unchanged DEF Step

LEMMA CheckoutTyped ==
  ASSUME Inv, NEW p \in DOMAIN disk
  PROVE  /\ disk[p] \in Checkout
         /\ \A dir \in {"none", "clean", "dirty"} :
              /\ [disk[p] EXCEPT !.dir = dir] \in Checkout
              /\ [disk[p] EXCEPT !.dir = dir].dir = dir
              /\ [disk[p] EXCEPT !.dir = dir].head = disk[p].head
         /\ \A head \in Branches \cup {Elsewhere, Unregistered} :
              /\ [disk[p] EXCEPT !.head = head] \in Checkout
              /\ [disk[p] EXCEPT !.head = head].dir = disk[p].dir
<1>1. disk[p] \in Checkout
  BY ElementOfSeq, LenProperties DEF Inv, RecordsRefer, TypeOK
<1> QED
  BY <1>1 DEF Checkout

LEMMA OutsideStep ==
  ASSUME Inv, Outside
  PROVE  Inv' /\ Step
<1>1. ASSUME NEW p \in DOMAIN disk, Edit(p)  PROVE Inv' /\ Step
  BY <1>1, CheckoutTyped, OneCheckout DEF Edit
<1>2. ASSUME NEW p \in DOMAIN disk, Commit(p)  PROVE Inv' /\ Step
  BY <1>2, CheckoutTyped, OneCheckout DEF Commit
<1>3. ASSUME NEW p \in DOMAIN disk, Vanish(p)  PROVE Inv' /\ Step
  BY <1>3, CheckoutTyped, OneCheckout DEF Vanish
<1>4. ASSUME NEW p \in DOMAIN disk, NEW head \in Branches \cup {Elsewhere, Unregistered}, Switch(p, head)
      PROVE  Inv' /\ Step
  BY <1>4, CheckoutTyped, OneCheckout DEF Switch
<1>5. ASSUME NEW p \in DOMAIN disk, NEW head \in Branches \cup {Elsewhere, Unregistered},
             NEW dir \in {"clean", "dirty"}, Reappear(p, dir, head)
      PROVE  Inv' /\ Step
  <2>1. [dir |-> dir, head |-> head] \in Checkout
    BY DEF Checkout
  <2> QED
    BY <1>5, <2>1, OneCheckout DEF Reappear
<1>6. ASSUME Prune  PROVE Inv' /\ Step
  <2>1. /\ disk' = [p \in DOMAIN disk |-> disk'[p]]
        /\ \A p \in DOMAIN disk : disk'[p] = IF disk[p].dir = "none" THEN Gone ELSE disk[p]
    BY <1>6 DEF Prune
  <2>2. disk' \in Seq(Checkout) /\ DOMAIN disk' = DOMAIN disk /\ Len(disk') = Len(disk)
    BY <2>1, CheckoutsKept DEF Inv, RecordsRefer
  <2>3. DiskGrows /\ WorkStep
    BY <2>1, <2>2 DEF DiskGrows, WorkStep, Inv, RecordsRefer, TypeOK
  <2> QED
    BY <1>6, <2>3, Keep, Unchanged DEF Prune, Step
<1> QED
  BY <1>1, <1>2, <1>3, <1>4, <1>5, <1>6, Zenon DEF Outside

----------------------------------------------------------------------------
(* Actions that give a record to another claim *)

LEMMA CreateWorktreeStep ==
  ASSUME Inv, NEW t \in Tasks, NEW b \in Branches, CreateWorktree(t, b)
  PROVE  Inv' /\ Step
<1> DEFINE new == Len(claims) + 1
           row == [claim |-> new, path |-> Len(disk) + 1, branch |-> b, removed |-> FALSE]
<1>1. ClaimsGrow /\ NoHandoffEnds
  BY GrantedGrows DEF CreateWorktree
<1>2. /\ new \notin DOMAIN claims /\ new \in DOMAIN claims' /\ claims'[new].branch = b
      /\ new \in 1..MaxClaims
  <2>1. TypeOK /\ claims' = Granted(t, b)
    BY DEF CreateWorktree, Inv, RecordsRefer
  <2>2. /\ new \notin DOMAIN claims /\ new \in DOMAIN claims'
        /\ claims'[new] = [task |-> t, branch |-> b, state |-> "live"]
    BY <2>1, GrantedFacts, Zenon
  <2>3. new \in 1..MaxClaims
    BY LenProperties, BoundsAssumption DEF CreateWorktree, Grantable, Inv, RecordsRefer, TypeOK
  <2> QED
    BY <2>2, <2>3
<1>3. /\ disk' \in Seq(Checkout) /\ Len(disk') <= MaxCheckouts
      /\ DOMAIN disk' = DOMAIN disk \cup {Len(disk) + 1}
      /\ \A p \in DOMAIN disk : disk'[p] = disk[p]
  BY AddedFacts DEF CreateWorktree, Inv, RecordsRefer
<1>4. DiskGrows /\ WorkStep
  BY <1>3 DEF DiskGrows, WorkStep
<1>5. row \in Row /\ row.claim = new /\ row.path = Len(disk) + 1 /\ row.branch = b
  <2>1. Len(disk) + 1 \in 1..MaxCheckouts
    BY LenProperties, BoundsAssumption DEF CreateWorktree, CanAdd, Inv, RecordsRefer, TypeOK
  <2> QED
    BY <1>2, <2>1 DEF Row
<1> DEFINE k == Len(rows) + 1
<1>6. /\ rows' \in Seq(Row) /\ DOMAIN rows' = DOMAIN rows \cup {k} /\ k \notin DOMAIN rows
      /\ rows'[k] = row /\ \A r \in DOMAIN rows : rows'[r] = rows[r]
  <2>1. rows' = Append(rows, row) /\ rows \in Seq(Row)
    BY DEF CreateWorktree, Inv, RecordsRefer, TypeOK
  <2> HIDE DEF row
  <2> QED
    BY <1>5, <2>1, Appended
<1> HIDE DEF row, k, new
<1>7. TypeOK'
  BY <1>1, <1>3, <1>6 DEF ClaimsGrow, TypeOK
<1>8. ASSUME NEW r \in DOMAIN rows'
      PROVE  /\ rows'[r].claim \in DOMAIN claims' /\ rows'[r].path \in DOMAIN disk'
             /\ rows'[r].branch = claims'[rows'[r].claim].branch
  <2>1. CASE r = k
    BY <1>2, <1>3, <1>5, <1>6, <2>1
  <2>2. CASE r \in DOMAIN rows
    BY <1>1, <1>3, <1>6, <2>2 DEF ClaimsGrow, Inv, RecordsRefer
  <2> QED
    BY <1>6, <2>1, <2>2
<1>9. ASSUME NEW r \in DOMAIN rows', NEW s \in DOMAIN rows',
             rows'[r].claim = rows'[s].claim, ~rows'[r].removed, ~rows'[s].removed
      PROVE  r = s
  <2>1. \A q \in DOMAIN rows : rows'[q].claim # new
    BY <1>2, <1>6 DEF Inv, RecordsRefer
  <2> QED
    BY <1>5, <1>6, <1>9, <2>1 DEF Inv, RecordsRefer, Active
<1>10. Inv'
  BY <1>7, <1>8, <1>9 DEF Inv, RecordsRefer, Active
<1>11. AdoptionStep /\ ReservedStep /\ ClosedStep
  BY <1>6 DEF AdoptionStep, ReservedStep, ClosedStep, Active
<1> QED
  BY <1>1, <1>4, <1>10, <1>11, Unchanged DEF Step

LEMMA ContinueWorktreeStep ==
  ASSUME Inv, NEW t \in Tasks, NEW b \in Branches, ContinueWorktree(t, b)
  PROVE  Inv' /\ Step
<1> DEFINE new == Len(claims) + 1
<1>1. PICK r \in Retained(b) : /\ Present(r) /\ MayContinue(r, t) /\ Matches(r)
                              /\ rows' = Transferred(r, new)
  BY DEF ContinueWorktree
<1>2. r \in DOMAIN rows /\ Active(r) /\ rows[r].branch = b
  BY DEF Retained
<1>3. ClaimsGrow /\ NoHandoffEnds
  BY GrantedGrows DEF ContinueWorktree
<1>4. /\ new \notin DOMAIN claims /\ new \in DOMAIN claims' /\ new \in 1..MaxClaims
      /\ claims'[new] = [task |-> t, branch |-> b, state |-> "live"]
      /\ \A c \in DOMAIN claims : claims'[c] = WithoutHolder(t)[c]
  <2>1. TypeOK /\ claims' = Granted(t, b)
    BY DEF ContinueWorktree, Inv, RecordsRefer
  <2>2. /\ new \notin DOMAIN claims /\ new \in DOMAIN claims'
        /\ claims'[new] = [task |-> t, branch |-> b, state |-> "live"]
        /\ \A c \in DOMAIN claims : claims'[c] = WithoutHolder(t)[c]
    BY <2>1, GrantedFacts, Zenon
  <2>3. new \in 1..MaxClaims
    BY LenProperties, BoundsAssumption DEF ContinueWorktree, Grantable, Inv, RecordsRefer, TypeOK
  <2> QED
    BY <2>2, <2>3
<1> HIDE DEF new
<1>5. /\ rows' \in Seq(Row) /\ DOMAIN rows' = DOMAIN rows
      /\ rows'[r].claim = new /\ rows'[r].path = rows[r].path
      /\ rows'[r].branch = rows[r].branch /\ rows'[r].removed = rows[r].removed
      /\ \A s \in DOMAIN rows \ {r} : rows'[s] = rows[s]
  BY <1>1, <1>2, <1>4, TransferredFacts DEF Inv, RecordsRefer
<1>6. DiskGrows /\ WorkStep /\ disk' = disk
  BY Unchanged DEF ContinueWorktree
<1>7. TypeOK'
  BY <1>3, <1>5, <1>6 DEF ClaimsGrow, DiskGrows, TypeOK
<1>8. ASSUME NEW s \in DOMAIN rows'
      PROVE  /\ rows'[s].claim \in DOMAIN claims' /\ rows'[s].path \in DOMAIN disk'
             /\ rows'[s].branch = claims'[rows'[s].claim].branch
  <2>1. CASE s = r
    BY <1>2, <1>4, <1>5, <1>6, <2>1 DEF Inv, RecordsRefer
  <2>2. CASE s # r
    BY <1>3, <1>5, <1>6, <2>2 DEF ClaimsGrow, Inv, RecordsRefer
  <2> QED
    BY <2>1, <2>2
<1>9. ASSUME NEW p \in DOMAIN rows', NEW s \in DOMAIN rows',
             rows'[p].claim = rows'[s].claim, ~rows'[p].removed, ~rows'[s].removed
      PROVE  p = s
  <2>1. \A q \in DOMAIN rows : rows[q].claim # new
    BY <1>4 DEF Inv, RecordsRefer
  <2> QED
    BY <1>5, <1>9, <2>1 DEF Inv, RecordsRefer, Active
<1>10. Inv'
  BY <1>7, <1>8, <1>9 DEF Inv, RecordsRefer, Active
<1>11. AdoptionStep
  <2>1. SUFFICES ASSUME NEW q \in DOMAIN rows, rows[q].claim # rows'[q].claim
                 PROVE  LET from == rows[q].claim
                            to == rows'[q].claim
                        IN /\ claims'[from].task = claims'[to].task
                           /\ claims'[from].branch = claims'[to].branch
                           /\ claims'[from].state = "released" /\ claims'[to].state = "live"
                           /\ disk[rows[q].path].dir # "none"
                           /\ disk[rows[q].path].head = rows[q].branch
    BY Zenon DEF AdoptionStep
  <2>2. q = r
    BY <1>5, <2>1
  <2>3. rows[r].claim \in DOMAIN claims /\ claims[rows[r].claim].branch = b
    BY <1>2 DEF Inv, RecordsRefer
  <2>4. /\ claims'[rows[r].claim].branch = b
        /\ claims'[rows[r].claim].task = t /\ claims'[rows[r].claim].state = "released"
    <3>1. WithoutHolder(t)[rows[r].claim].task = claims[rows[r].claim].task
      BY <2>3, WithoutHolderFacts, Zenon DEF Inv, RecordsRefer
    <3> QED
      BY <1>1, <1>3, <1>4, <2>3, <3>1 DEF MayContinue, ClaimsGrow
  <2> QED
    BY <1>1, <1>4, <1>5, <2>2, <2>4 DEF Present, Matches
<1>12. ReservedStep /\ ClosedStep
  BY <1>5 DEF ReservedStep, ClosedStep, Active
<1> QED
  BY <1>3, <1>6, <1>10, <1>11, <1>12, Unchanged DEF Step

LEMMA AcceptHandoffStep ==
  ASSUME Inv, NEW c \in DOMAIN claims, AcceptHandoff(c)
  PROVE  Inv' /\ Step
<1> DEFINE new == Len(claims) + 1
           t == claims[c].task
           b == claims[c].branch
           ended == WithState(c, "released")
           row == [task |-> t, branch |-> b, state |-> "live"]
<1>1. claims[c] \in Claim /\ row \in Claim /\ claims[c].state = "handoff" /\ TypeOK
  <2>1. claims[c] \in Claim
    BY ElementOfSeq, LenProperties DEF Inv, RecordsRefer, TypeOK
  <2> QED
    BY <2>1 DEF Claim, AcceptHandoff, Inv, RecordsRefer
<1>2. /\ ended \in Seq(Claim) /\ DOMAIN ended = DOMAIN claims /\ Len(ended) = Len(claims)
      /\ \A d \in DOMAIN claims : ended[d].task = claims[d].task /\ ended[d].branch = claims[d].branch
      /\ ended[c].state = "released" /\ \A d \in DOMAIN claims \ {c} : ended[d] = claims[d]
  BY <1>1, WithStateFacts
<1>3. claims' = Append(ended, row)
  BY DEF AcceptHandoff
<1> HIDE DEF row, ended
<1>4. /\ claims' \in Seq(Claim) /\ Len(claims') = new /\ new \notin DOMAIN claims
      /\ DOMAIN claims' = DOMAIN claims \cup {new} /\ claims'[new] = row
      /\ \A d \in DOMAIN claims : claims'[d] = ended[d]
  BY <1>1, <1>2, <1>3, Appended
<1>5. ClaimsGrow
  <2>1. new <= MaxClaims
    BY LenProperties, BoundsAssumption DEF AcceptHandoff, Inv, RecordsRefer, TypeOK
  <2> QED
    BY <1>2, <1>4, <2>1 DEF ClaimsGrow
<1>6. /\ rows' \in Seq(Row) /\ DOMAIN rows' = DOMAIN rows
      /\ \A r \in DOMAIN rows :
           /\ rows'[r].claim = IF r \in ActiveOf(c) THEN new ELSE rows[r].claim
           /\ rows'[r].path = rows[r].path /\ rows'[r].branch = rows[r].branch
           /\ rows'[r].removed = rows[r].removed
  BY <1>1, HandedOnFacts DEF AcceptHandoff
<1> HIDE DEF new
<1>7. DiskGrows /\ WorkStep /\ disk' = disk
  BY Unchanged DEF AcceptHandoff
<1>8. TypeOK'
  BY <1>5, <1>6, <1>7 DEF ClaimsGrow, DiskGrows, TypeOK
<1>9. \A r \in ActiveOf(c) : r \in DOMAIN rows /\ rows[r].claim = c /\ rows[r].branch = b
  BY DEF ActiveOf, Inv, RecordsRefer
<1>10. row.branch = b /\ row.task = t /\ row.state = "live"
  BY DEF row
<1>11. ASSUME NEW r \in DOMAIN rows'
       PROVE  /\ rows'[r].claim \in DOMAIN claims' /\ rows'[r].path \in DOMAIN disk'
              /\ rows'[r].branch = claims'[rows'[r].claim].branch
  <2>1. CASE r \in ActiveOf(c)
    BY <1>4, <1>6, <1>7, <1>9, <1>10, <2>1 DEF Inv, RecordsRefer
  <2>2. CASE r \notin ActiveOf(c)
    BY <1>5, <1>6, <1>7, <2>2 DEF ClaimsGrow, Inv, RecordsRefer
  <2> QED
    BY <2>1, <2>2
<1>12. ASSUME NEW p \in DOMAIN rows', NEW s \in DOMAIN rows',
              rows'[p].claim = rows'[s].claim, ~rows'[p].removed, ~rows'[s].removed
       PROVE  p = s
  <2>1. \A q \in DOMAIN rows : rows[q].claim # new
    BY <1>4 DEF Inv, RecordsRefer
  <2> QED
    BY <1>6, <1>9, <1>12, <2>1 DEF Inv, RecordsRefer, Active
<1>13. Inv'
  BY <1>8, <1>11, <1>12 DEF Inv, RecordsRefer, Active
<1>14. AdoptionStep
  <2>1. SUFFICES ASSUME NEW q \in DOMAIN rows, rows[q].claim # rows'[q].claim
                 PROVE  LET from == rows[q].claim
                            to == rows'[q].claim
                        IN /\ claims'[from].task = claims'[to].task
                           /\ claims'[from].branch = claims'[to].branch
                           /\ claims'[from].state = "released" /\ claims'[to].state = "live"
                           /\ claims[from].state = "handoff"
    BY Zenon DEF AdoptionStep
  <2>2. rows[q].claim = c /\ rows'[q].claim = new
    BY <1>6, <1>9, <2>1
  <2> QED
    BY <1>1, <1>2, <1>4, <1>10, <2>2
<1>15. ReservedStep /\ ClosedStep
  BY <1>6 DEF ReservedStep, ClosedStep, Active
<1>16. HandoffStep
  <2>1. SUFFICES ASSUME NEW d \in DOMAIN claims, claims[d].state = "handoff",
                        claims'[d].state = "released", NEW r \in ActiveOf(d)
                 PROVE  claims'[rows'[r].claim].state = "live"
    BY Zenon DEF HandoffStep
  <2>2. d = c
    BY <1>2, <1>4, <2>1
  <2> QED
    BY <1>4, <1>6, <1>9, <1>10, <2>1, <2>2
<1> QED
  BY <1>7, <1>13, <1>14, <1>15, <1>16 DEF Step

----------------------------------------------------------------------------
(* Actions that close records *)

LEMMA EndClaim ==
  ASSUME Inv, NEW c \in DOMAIN claims, claims' = WithState(c, "released"),
         \/ KeepCheckout /\ claims[c].state # "handoff"
         \/ RemoveCheckout(c)
  PROVE  Inv' /\ Step
<1>1. ClaimsGrow /\ (claims[c].state # "handoff" => NoHandoffEnds)
  BY WithStateGrows
<1>2. /\ claims'[c].state = "released"
      /\ \A d \in DOMAIN claims \ {c} : claims'[d] = claims[d]
  <2>1. TypeOK
    BY DEF Inv, RecordsRefer
  <2> QED
    BY <2>1, WithStateFacts
<1>3. CASE KeepCheckout /\ claims[c].state # "handoff"
  BY <1>1, <1>3, Keep, Unchanged DEF KeepCheckout, Step
<1>4. CASE RemoveCheckout(c)
  <2>1. /\ rows' \in Seq(Row) /\ DOMAIN rows' = DOMAIN rows
        /\ disk' \in Seq(Checkout) /\ DOMAIN disk' = DOMAIN disk /\ Len(disk') = Len(disk)
        /\ \A r \in DOMAIN rows :
             /\ rows'[r].claim = rows[r].claim /\ rows'[r].path = rows[r].path
             /\ rows'[r].branch = rows[r].branch
             /\ rows[r].removed => rows'[r].removed
             /\ r \in ActiveOf(c) => rows'[r].removed
             /\ Active(r) /\ rows'[r].removed => r \in ActiveOf(c) /\ disk'[rows[r].path] = Gone
        /\ \A p \in DOMAIN disk :
             disk'[p] = disk[p] \/ (disk'[p] = Gone /\ disk[p].dir # "dirty")
    BY <1>4, RemoveCheckoutFacts, Zenon
  <2>2. RowsStay /\ DiskGrows
    BY <2>1 DEF RowsStay, DiskGrows, Inv, RecordsRefer, TypeOK
  <2>3. AdoptionStep /\ ClosedStep
    BY <2>1 DEF AdoptionStep, ClosedStep
  <2>4. WorkStep
    BY <2>1 DEF WorkStep
  <2>5. ReservedStep
    BY <1>2, <2>1 DEF ReservedStep, ActiveOf
  <2>6. HandoffStep
    <3>1. SUFFICES ASSUME NEW d \in DOMAIN claims, claims[d].state = "handoff",
                          claims'[d].state = "released", NEW r \in ActiveOf(d)
                   PROVE  rows'[r].removed
      BY Zenon DEF HandoffStep
    <3>2. d = c
      BY <1>2, <3>1
    <3>3. r \in DOMAIN rows
      BY DEF ActiveOf
    <3> QED
      BY <2>1, <3>2, <3>3
  <2> QED
    BY <1>1, <2>2, <2>3, <2>4, <2>5, <2>6, Keep DEF Step
<1> QED
  BY <1>3, <1>4

LEMMA ReleaseStep == ASSUME Inv, NEW c \in DOMAIN claims, Release(c)  PROVE Inv' /\ Step
BY EndClaim DEF Release, Unreleased
LEMMA TaskDoneStep == ASSUME Inv, NEW c \in DOMAIN claims, TaskDone(c)  PROVE Inv' /\ Step
BY EndClaim DEF TaskDone
LEMMA ResolveHandoffStep == ASSUME Inv, NEW c \in DOMAIN claims, ResolveHandoff(c)  PROVE Inv' /\ Step
BY EndClaim DEF ResolveHandoff

(* Doctor takes away no checkout with unfinished work, whatever rows it got to. *)
LEMMA SweptSafe ==
  ASSUME Inv, NEW R \in SUBSET DOMAIN rows, disk' = Swept(R)
  PROVE  DiskGrows /\ WorkStep
<1>1. /\ disk' \in Seq(Checkout) /\ DOMAIN disk' = DOMAIN disk /\ Len(disk') = Len(disk)
      /\ \A p \in DOMAIN disk :
           disk'[p] = IF \/ \E r \in Removable(R) : rows[r].path = p
                         \/ disk[p].dir = "none" /\ \E r \in R : Missing(r)
                      THEN Gone ELSE disk[p]
  BY SweptFacts, Zenon DEF Inv, RecordsRefer
<1>2. \A r \in Removable(R) : disk[rows[r].path].dir # "dirty"
  BY DEF Removable, CanRemove
<1>3. DiskGrows
  BY <1>1 DEF DiskGrows, Inv, RecordsRefer, TypeOK
<1>4. ASSUME NEW p \in DOMAIN disk, disk[p].dir = "dirty"
      PROVE  disk'[p] = disk[p]
  BY <1>1, <1>2, <1>4
<1> QED
  BY <1>3, <1>4 DEF WorkStep

LEMMA DieRepairingStep == ASSUME Inv, DieRepairing  PROVE Inv' /\ Step
<1>1. PICK n \in DOMAIN rows : disk' = Swept(1..n)
  BY DEF DieRepairing
<1>2. 1..n \in SUBSET DOMAIN rows
  BY <1>1, LenProperties DEF Inv, RecordsRefer, TypeOK
<1>3. DiskGrows /\ WorkStep
  BY <1>1, <1>2, SweptSafe
<1> QED
  BY <1>3, Keep, Unchanged DEF DieRepairing, Step

LEMMA DoctorStep == ASSUME Inv, Doctor  PROVE Inv' /\ Step
<1> DEFINE R == {r \in DOMAIN rows : Missing(r)} \cup Removable(DOMAIN rows)
<1>1. DiskGrows /\ WorkStep
  BY SweptSafe DEF Doctor
<1>2. claims' = claims
  BY DEF Doctor
<1>3. /\ rows' \in Seq(Row) /\ DOMAIN rows' = DOMAIN rows
      /\ \A r \in DOMAIN rows :
           /\ rows'[r].claim = rows[r].claim /\ rows'[r].path = rows[r].path
           /\ rows'[r].branch = rows[r].branch
           /\ rows'[r].removed <=> rows[r].removed \/ r \in R
  <2>1. rows' = MarkRemoved(R) /\ TypeOK
    BY DEF Doctor, Inv, RecordsRefer
  <2> HIDE DEF R
  <2> QED
    BY <2>1, MarkRemovedFacts, Zenon
<1>4. RowsStay /\ AdoptionStep
  BY <1>3 DEF RowsStay, AdoptionStep
<1>5. ASSUME NEW r \in DOMAIN rows, Active(r), rows'[r].removed
      PROVE  /\ disk'[rows[r].path] = Gone
             /\ ~Present(r) \/ claims'[rows[r].claim].state = "released"
  <2>1. r \in R
    BY <1>3, <1>5 DEF Active
  <2>2. rows[r].path \in DOMAIN disk /\ rows[r].claim \in DOMAIN claims
    BY DEF Inv, RecordsRefer
  <2>3. disk'[rows[r].path] =
          IF \/ \E s \in Removable(DOMAIN rows) : rows[s].path = rows[r].path
             \/ disk[rows[r].path].dir = "none" /\ \E s \in DOMAIN rows : Missing(s)
          THEN Gone ELSE disk[rows[r].path]
    BY <2>2, SweptFacts, Zenon DEF Doctor, Inv, RecordsRefer
  <2>4. CASE Missing(r)
    BY <2>3, <2>4 DEF Missing, Present
  <2>5. CASE r \in Removable(DOMAIN rows)
    <3>1. ~Reserved(rows[r].claim)
      BY <1>5, <2>5 DEF Removable, Orphaned, Unexpected
    <3>2. claims[rows[r].claim] \in Claim
      BY <2>2, ElementOfSeq, LenProperties DEF Inv, RecordsRefer, TypeOK
    <3>3. claims[rows[r].claim].state = "released"
      BY <3>1, <3>2 DEF Reserved, Unreleased, Claim
    <3> QED
      BY <1>2, <2>3, <2>5, <3>3
  <2> QED
    BY <2>1, <2>4, <2>5
<1>6. ReservedStep /\ ClosedStep
  BY <1>5 DEF ReservedStep, ClosedStep
<1> QED
  BY <1>1, <1>2, <1>4, <1>6, Keep, Unchanged DEF Step

----------------------------------------------------------------------------
LEMMA InitInv == Init => Inv
<1> SUFFICES ASSUME Init  PROVE Inv
  OBVIOUS
<1>1. \A S : << >> \in Seq(S) /\ DOMAIN << >> = {} /\ Len(<< >>) = 0
  OBVIOUS
<1> QED
  BY <1>1, BoundsAssumption DEF Init, Inv, RecordsRefer, TypeOK

LEMMA NextStep ==
  ASSUME Inv, [Next]_vars
  PROVE  Inv' /\ (Step \/ UNCHANGED vars)
<1>1. CASE UNCHANGED vars
  BY <1>1, Keep, Unchanged DEF vars
<1>2. ASSUME Claiming  PROVE Inv' /\ Step
  BY <1>2, ClaimOnlyStep, CreateWorktreeStep, DieCreatingStep, ContinueWorktreeStep,
     ClaimRefusedStep, Zenon DEF Claiming
<1>3. ASSUME Resolving  PROVE Inv' /\ Step
  BY <1>3, ExpireStep, ReleaseStep, TaskDoneStep, CreateHandoffStep, AcceptHandoffStep,
     ResolveHandoffStep, DieRemovingStep, Zenon DEF Resolving
<1> QED
  BY <1>1, <1>2, <1>3, DoctorStep, DieRepairingStep, OutsideStep, Zenon DEF Next

THEOREM WorktreesInvariant == Spec => []Inv
<1>1. Inv /\ [Next]_vars => Inv'
  BY NextStep
<1> QED
  BY <1>1, InitInv, PTL DEF Spec

(* The tables and the checkouts have their types in every state, and each    *)
(* record is of a claim and of a checkout that were made, on that branch.    *)
THEOREM WorktreesTyped == Spec => [](TypeOK /\ RecordsRefer)
<1>1. Inv => TypeOK /\ RecordsRefer
  BY DEF Inv
<1> QED
  BY <1>1, WorktreesInvariant, PTL

(* A checkout is handed from claim to claim only within its task and branch, *)
(* from a claim that has ended, and verified unless a handoff passes it on.  *)
THEOREM AdoptionVerified == Spec => AdoptionIsVerified
<1>1. Inv /\ [Next]_vars => [AdoptionStep]_vars
  BY NextStep DEF Step
<1> QED
  BY <1>1, WorktreesInvariant, PTL DEF Spec, AdoptionIsVerified, AdoptionStep

(* No command and no repair closes the record of a checkout that a claim or  *)
(* an open handoff holds, unless the directory is gone already or the claim  *)
(* gives up the branch in that step.                                         *)
THEOREM ReservedKept == Spec => ReservedIsKept
<1>1. Inv /\ [Next]_vars => [ReservedStep]_vars
  BY NextStep DEF Step
<1> QED
  BY <1>1, WorktreesInvariant, PTL DEF Spec, ReservedIsKept, ReservedStep

(* An accepted handoff passes the checkout on, a resolved one closes it.     *)
THEOREM HandoffPasses == Spec => HandoffPassesCheckout
<1>1. Inv /\ [Next]_vars => [HandoffStep]_vars
  BY NextStep DEF Step
<1> QED
  BY <1>1, WorktreesInvariant, PTL DEF Spec, HandoffPassesCheckout, HandoffStep

(* No command and no repair takes away a checkout with uncommitted work,     *)
(* also not one that dies in between.  Of commits it says nothing.           *)
THEOREM WorkKept == Spec => WorkIsKept
<1>1. Inv /\ [Next]_vars => [WorkStep]_vars
  BY NextStep DEF Step
<1> QED
  BY <1>1, WorktreesInvariant, PTL DEF Spec, WorkIsKept, WorkStep

(* A record that is closed leaves no checkout and no registration behind.    *)
THEOREM ClosedGone == Spec => ClosedMeansGone
<1>1. Inv /\ [Next]_vars => [ClosedStep]_vars
  BY NextStep DEF Step
<1> QED
  BY <1>1, WorktreesInvariant, PTL DEF Spec, ClosedMeansGone, ClosedStep
=============================================================================
