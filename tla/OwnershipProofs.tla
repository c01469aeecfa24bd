-------------------------- MODULE OwnershipProofs --------------------------
(***************************************************************************)
(* Ownership for every set of tasks, agents, branches, scopes and rows and *)
(* every bound: types, the exclusivity of branches, recorded overlaps, the *)
(* agreement of the three tables, reservations, takeovers, and the         *)
(* refinement of TaskBoard.                                                *)
(***************************************************************************)
EXTENDS Ownership, TLAPS

(* An instant of a transaction is a time no earlier than its first read. *)
LEMMA InstantsAfterNow ==
  ASSUME now \in Nat, NEW later \in Instants
  PROVE  later \in Nat /\ later >= now
BY DEF Instants

(* Releasing a claim leaves a row of the table. *)
LEMMA EndedType ==
  ASSUME NEW c \in DOMAIN claims, claims[c] \in Claim, NEW why \in Released, NEW time
  PROVE  Ended(c, why, time) \in Claim
<1>1. Expired(c, time) \in BOOLEAN
  BY DEF Expired
<1>2. QED
  BY <1>1 DEF Ended, Claim

(* Inserting and ending rows keeps the claims table well formed. *)
LEMMA AcquireType ==
  ASSUME TypeOK, NEW t \in Tasks, NEW a \in Agents, NEW b \in Branches,
         NEW S \in (SUBSET Globs) \ {{}}, NEW secs \in Leases,
         NEW override \in BOOLEAN, NEW own, NEW takeover \in BOOLEAN,
         NEW read, NEW later \in Instants,
         Acquire(t, a, b, S, secs, override, own, takeover, read, later)
  PROVE  /\ now' \in Nat
         /\ status' \in [Tasks -> {"absent", "open", "claimed", "handoff", "done"}]
         /\ claims' \in [DOMAIN claims' -> Claim]
         /\ DOMAIN claims \subseteq DOMAIN claims'
         /\ DOMAIN claims' \subseteq ClaimIds
<1> DEFINE class == Classify(t, b, S, Lapsed(t, read) \cup Displaced(t, read, takeover), later)
<1>1. later \in Nat
  BY InstantsAfterNow DEF TypeOK
<1>2. PICK id \in ClaimIds \ DOMAIN claims :
        claims' = [x \in DOMAIN claims \cup {id} |->
            IF x = id
              THEN [task |-> t, agent |-> a, branch |-> b, scopes |-> S,
                    lease |-> later + secs, override |-> class = "OVERLAPPING",
                    released |-> "no", late |-> FALSE]
            ELSE IF x \in Lapsed(t, read) THEN Ended(x, "lease_expired", later)
            ELSE IF x \in Displaced(t, read, takeover) THEN Ended(x, "takeover", later)
            ELSE claims[x]]
  BY DEF Acquire
<1>3. ASSUME NEW c \in DOMAIN claims
      PROVE  /\ Ended(c, "lease_expired", later) \in Claim
             /\ Ended(c, "takeover", later) \in Claim
  BY EndedType DEF TypeOK, Released
<1>4. [task |-> t, agent |-> a, branch |-> b, scopes |-> S,
       lease |-> later + secs, override |-> class = "OVERLAPPING",
       released |-> "no", late |-> FALSE] \in Claim
  <2>1. later + secs \in Nat
    BY <1>1, LeasesAssumption
  <2>2. (class = "OVERLAPPING") \in BOOLEAN
    OBVIOUS
  <2> HIDE DEF class
  <2>3. QED
    BY <2>1, <2>2 DEF Claim
<1> HIDE DEF class
<1>5. DOMAIN claims' = DOMAIN claims \cup {id}
  BY <1>2
<1>6. ASSUME NEW x \in DOMAIN claims'
      PROVE  claims'[x] \in Claim
  BY <1>2, <1>3, <1>4, <1>5 DEF TypeOK
<1>7. claims' \in [DOMAIN claims' -> Claim]
  BY <1>2, <1>5, <1>6
<1>8. QED
  BY <1>1, <1>5, <1>7 DEF Acquire, TypeOK

(* Every row, task and approval always has a value of its kind. *)
THEOREM TypeCorrect == Spec => []TypeOK
<1>1. Init => TypeOK
  BY DEF Init, TypeOK
<1>2. TypeOK /\ [Next]_vars => TypeOK'
  <2> SUFFICES ASSUME TypeOK, [Next]_vars PROVE TypeOK'
    OBVIOUS
  <2>1. CASE Tick
    BY <2>1 DEF Tick, TypeOK
  <2>2. ASSUME NEW t \in Tasks, CreateTask(t) PROVE TypeOK'
    BY <2>2 DEF CreateTask, TypeOK
  <2>3. ASSUME NEW t \in Tasks, NEW b \in Branches, NEW S, NEW override,
               NEW read, NEW later \in Instants,
               RefuseAfterLapse(t, b, S, override, read, later)
        PROVE  TypeOK'
    <3>1. later \in Nat
      BY InstantsAfterNow DEF TypeOK
    <3>2. ASSUME NEW c \in DOMAIN claims PROVE Ended(c, "lease_expired", later) \in Claim
      BY EndedType DEF TypeOK, Released
    <3>3. claims' \in [DOMAIN claims' -> Claim] /\ DOMAIN claims' = DOMAIN claims
      BY <2>3, <3>2 DEF RefuseAfterLapse, TypeOK
    <3>4. QED
      BY <2>3, <3>1, <3>3 DEF RefuseAfterLapse, TypeOK
  <2>4. ASSUME NEW t \in Tasks, NEW a \in Agents, NEW b \in Branches,
               NEW S \in (SUBSET Globs) \ {{}}, ClaimTask(t, a, b, S)
        PROVE  TypeOK'
    <3>1. PICK secs \in Leases, override \in BOOLEAN, later \in Instants :
            \/ /\ Acquire(t, a, b, S, secs, override, {}, FALSE, now, later)
               /\ UNCHANGED <<handoffs, grants>>
            \/ RefuseAfterLapse(t, b, S, override, now, later)
      BY <2>4 DEF ClaimTask
    <3>2. CASE RefuseAfterLapse(t, b, S, override, now, later)
      BY <2>3, <3>2
    <3>3. CASE /\ Acquire(t, a, b, S, secs, override, {}, FALSE, now, later)
               /\ UNCHANGED <<handoffs, grants>>
      <4>1. /\ now' \in Nat
            /\ status' \in [Tasks -> {"absent", "open", "claimed", "handoff", "done"}]
            /\ claims' \in [DOMAIN claims' -> Claim]
            /\ DOMAIN claims \subseteq DOMAIN claims'
            /\ DOMAIN claims' \subseteq ClaimIds
        BY <3>3, AcquireType
      <4>2. QED
        BY <3>3, <4>1 DEF TypeOK
    <3>4. QED
      BY <3>1, <3>2, <3>3
  <2>5. ASSUME NEW t \in Tasks, NEW a \in Agents, NEW b \in Branches,
               NEW S \in (SUBSET Globs) \ {{}}, Takeover(t, a, b, S)
        PROVE  TypeOK'
    <3>1. PICK c \in HoldersOf(t), secs \in Leases, override \in BOOLEAN,
               later \in Instants : \E read \in {now, later} :
            \/ /\ Acquire(t, a, b, S, secs, override, {}, TRUE, read, later)
               /\ grants' = grants \ {<<c, a>>}
               /\ UNCHANGED handoffs
            \/ RefuseAfterLapse(t, b, S, override, read, later)
      BY <2>5 DEF Takeover
    <3>1a. PICK read \in {now, later} :
            \/ /\ Acquire(t, a, b, S, secs, override, {}, TRUE, read, later)
               /\ grants' = grants \ {<<c, a>>}
               /\ UNCHANGED handoffs
            \/ RefuseAfterLapse(t, b, S, override, read, later)
      BY <3>1
    <3>2. CASE RefuseAfterLapse(t, b, S, override, read, later)
      BY <2>3, <3>2
    <3>3. CASE /\ Acquire(t, a, b, S, secs, override, {}, TRUE, read, later)
               /\ grants' = grants \ {<<c, a>>}
               /\ UNCHANGED handoffs
      <4>1. /\ now' \in Nat
            /\ status' \in [Tasks -> {"absent", "open", "claimed", "handoff", "done"}]
            /\ claims' \in [DOMAIN claims' -> Claim]
            /\ DOMAIN claims \subseteq DOMAIN claims'
            /\ DOMAIN claims' \subseteq ClaimIds
        BY <3>3, AcquireType
      <4>2. QED
        BY <3>3, <4>1 DEF TypeOK
    <3>4. QED
      BY <3>1a, <3>2, <3>3
  <2>6. ASSUME NEW c \in DOMAIN claims, NEW why \in Released, NEW new,
               claims' = [claims EXCEPT ![c] = Ended(c, why, now)]
        PROVE  claims' \in [DOMAIN claims' -> Claim] /\ DOMAIN claims' = DOMAIN claims
    <3>1. Ended(c, why, now) \in Claim
      BY EndedType DEF TypeOK
    <3>2. QED
      BY <2>6, <3>1 DEF TypeOK
  <2>7. ASSUME NEW t \in Tasks, NEW a \in Agents, CompleteTask(t, a) PROVE TypeOK'
    BY <2>6, <2>7 DEF CompleteTask, HoldersOf, TypeOK, Released
  <2>8. ASSUME NEW t \in Tasks, NEW a \in Agents, ReopenTask(t, a) PROVE TypeOK'
    BY <2>8 DEF ReopenTask, TypeOK
  <2>9. ASSUME NEW c \in DOMAIN claims, NEW a \in Agents, ApproveTakeover(c, a)
        PROVE  TypeOK'
    BY <2>9 DEF ApproveTakeover, TypeOK
  <2>10. ASSUME NEW c \in DOMAIN claims, NEW a \in Agents, RenewClaim(c, a)
         PROVE  TypeOK'
    <3>1. PICK secs \in Leases : claims' = [claims EXCEPT ![c].lease = now + secs]
      BY <2>10 DEF RenewClaim
    <3>2. now + secs \in Nat
      BY LeasesAssumption DEF TypeOK
    <3>3. [claims[c] EXCEPT !.lease = now + secs] \in Claim
      BY <3>2 DEF TypeOK, Claim
    <3>4. QED
      BY <2>10, <3>1, <3>3 DEF RenewClaim, TypeOK
  <2>11. ASSUME NEW c \in DOMAIN claims, NEW a \in Agents, ReleaseClaim(c, a)
         PROVE  TypeOK'
    BY <2>6, <2>11 DEF ReleaseClaim, TypeOK, Released
  <2>12. ASSUME NEW c \in DOMAIN claims, NEW a \in Agents,
                NEW to \in Agents \cup {Nobody}, CreateHandoff(c, a, to)
         PROVE  TypeOK'
    <3>1. claims' \in [DOMAIN claims' -> Claim] /\ DOMAIN claims' = DOMAIN claims
      BY <2>6, <2>12 DEF CreateHandoff, Released
    <3>2. PICK h \in HandoffIds \ DOMAIN handoffs :
            handoffs' = Put(handoffs, h, [claim |-> c, to |-> to, status |-> "open"])
      BY <2>12 DEF CreateHandoff
    <3>3. [claim |-> c, to |-> to, status |-> "open"] \in Handoff
      BY DEF Handoff, TypeOK
    <3>4. /\ handoffs' \in [DOMAIN handoffs' -> Handoff]
          /\ DOMAIN handoffs' \subseteq HandoffIds
          /\ \A g \in DOMAIN handoffs' : handoffs'[g].claim \in DOMAIN claims
      BY <3>2, <3>3 DEF Put, TypeOK
    <3>5. QED
      BY <2>12, <3>1, <3>4 DEF CreateHandoff, TypeOK
  <2>13. ASSUME NEW h \in DOMAIN handoffs, NEW outcome \in {"declined", "cancelled"},
                Resolve(h, outcome)
         PROVE  TypeOK'
    <3>1. [handoffs[h] EXCEPT !.status = outcome] \in Handoff
      BY DEF TypeOK, Handoff
    <3>2. /\ handoffs' \in [DOMAIN handoffs' -> Handoff]
          /\ DOMAIN handoffs' = DOMAIN handoffs
          /\ \A g \in DOMAIN handoffs' : handoffs'[g].claim = handoffs[g].claim
      BY <2>13, <3>1 DEF Resolve, TypeOK, Handoff
    <3>3. status' \in [Tasks -> {"absent", "open", "claimed", "handoff", "done"}]
      BY <2>13 DEF Resolve, TypeOK
    <3>4. QED
      BY <2>13, <3>2, <3>3 DEF Resolve, TypeOK
  <2>14. ASSUME NEW h \in DOMAIN handoffs, NEW a \in Agents, AcceptHandoff(h, a)
         PROVE  TypeOK'
    <3> DEFINE c == handoffs[h].claim
    <3>1. PICK secs \in Leases, later \in Instants :
            /\ Acquire(HandoffTask(h), a, claims[c].branch, claims[c].scopes, secs,
                       TRUE, {h}, FALSE, now, later)
            /\ handoffs' = [handoffs EXCEPT ![h].status = "accepted", ![h].to = a]
            /\ UNCHANGED grants
      BY <2>14 DEF AcceptHandoff
    <3>2. /\ HandoffTask(h) \in Tasks /\ claims[c].branch \in Branches
          /\ claims[c].scopes \in (SUBSET Globs) \ {{}}
      BY DEF TypeOK, HandoffTask, Claim
    <3>3. /\ now' \in Nat
          /\ status' \in [Tasks -> {"absent", "open", "claimed", "handoff", "done"}]
          /\ claims' \in [DOMAIN claims' -> Claim]
          /\ DOMAIN claims \subseteq DOMAIN claims'
          /\ DOMAIN claims' \subseteq ClaimIds
      BY <3>1, <3>2, AcquireType
    <3>4. [handoffs[h] EXCEPT !.status = "accepted", !.to = a] \in Handoff
      BY DEF TypeOK, Handoff
    <3>5. /\ handoffs' \in [DOMAIN handoffs' -> Handoff]
          /\ DOMAIN handoffs' = DOMAIN handoffs
          /\ \A g \in DOMAIN handoffs' : handoffs'[g].claim = handoffs[g].claim
      BY <3>1, <3>4 DEF TypeOK, Handoff
    <3>6. QED
      BY <3>1, <3>3, <3>5 DEF TypeOK
  <2>15. CASE UNCHANGED vars
    BY <2>15 DEF vars, TypeOK
  <2>16. QED
    BY <2>1, <2>2, <2>4, <2>5, <2>7, <2>8, <2>9, <2>10, <2>11, <2>12, <2>13,
       <2>14, <2>15
    DEF Next, DeclineHandoff, CancelHandoff
<1>3. QED
  BY <1>1, <1>2, PTL DEF Spec

----------------------------------------------------------------------------
(* What a step does to live claims and to open handoffs.  A step grants a   *)
(* claim, or gives no claim away and revives none.                          *)
Unrevived ==
  /\ DOMAIN claims' = DOMAIN claims
  /\ \A c \in DOMAIN claims :
       /\ claims'[c].task = claims[c].task /\ claims'[c].branch = claims[c].branch
       /\ claims'[c].scopes = claims[c].scopes /\ claims'[c].override = claims[c].override
       /\ Live(c, now)' => Live(c, now)
       /\ ~Held(c) => claims'[c] = claims[c]

NothingOffered ==
  /\ DOMAIN handoffs' = DOMAIN handoffs
  /\ \A h \in DOMAIN handoffs : handoffs'[h].claim = handoffs[h].claim
  /\ OpenHandoffs' \subseteq OpenHandoffs

Granting ==
  \E t \in Tasks, a \in Agents, b \in Branches, S \in (SUBSET Globs) \ {{}} :
    \E secs \in Leases, override \in BOOLEAN, takeover \in BOOLEAN, later \in Instants,
       read \in Nat, own \in SUBSET OpenHandoffs :
      /\ Acquire(t, a, b, S, secs, override, own, takeover, read, later)
      /\ OpenHandoffs' = OpenHandoffs \ own

(* Ending one claim of the table. *)
LEMMA EndingRevivesNone ==
  ASSUME TypeOK, NEW c \in DOMAIN claims, Held(c), NEW why \in Released, now' = now,
         claims' = [claims EXCEPT ![c] = Ended(c, why, now)]
  PROVE  Unrevived
<1>1. DOMAIN claims' = DOMAIN claims
  OBVIOUS
<1>2. claims'[c] = Ended(c, why, now) /\ \A d \in DOMAIN claims \ {c} : claims'[d] = claims[d]
  OBVIOUS
<1>3. /\ Ended(c, why, now).task = claims[c].task /\ Ended(c, why, now).branch = claims[c].branch
      /\ Ended(c, why, now).scopes = claims[c].scopes
      /\ Ended(c, why, now).override = claims[c].override
      /\ Ended(c, why, now).released # "no"
  BY DEF Ended, TypeOK, Claim, Released
<1>4. ~Live(c, now)'
  BY <1>2, <1>3 DEF Live, Held
<1>5. \A d \in DOMAIN claims \ {c} : Live(d, now)' => Live(d, now)
  BY <1>2 DEF Live, Held, Expired
<1> QED
  BY <1>1, <1>2, <1>3, <1>4, <1>5 DEF Unrevived

LEMMA RefusalRevivesNone ==
  ASSUME TypeOK, NEW t \in Tasks, NEW b, NEW S, NEW override, NEW read, NEW later \in Instants,
         RefuseAfterLapse(t, b, S, override, read, later)
  PROVE  Unrevived
<1>1. claims' = [x \in DOMAIN claims |->
        IF x \in Lapsed(t, read) THEN Ended(x, "lease_expired", later) ELSE claims[x]]
  BY DEF RefuseAfterLapse
<1>2. now' = later /\ later \in Nat /\ later >= now
  BY InstantsAfterNow DEF RefuseAfterLapse, TypeOK
<1>3. ASSUME NEW c \in DOMAIN claims
      PROVE  /\ claims'[c].task = claims[c].task /\ claims'[c].branch = claims[c].branch
             /\ claims'[c].scopes = claims[c].scopes /\ claims'[c].override = claims[c].override
             /\ Live(c, now)' => Live(c, now)
             /\ ~Held(c) => claims'[c] = claims[c]
  <2>1. CASE c \in Lapsed(t, read)
    <3>1. Held(c)
      BY <2>1 DEF Lapsed, HoldersOf
    <3>2. claims'[c] = Ended(c, "lease_expired", later)
      BY <1>1, <2>1
    <3> QED
      BY <3>1, <3>2 DEF Ended, TypeOK, Claim, Live, Held
  <2>2. CASE c \notin Lapsed(t, read)
    BY <1>1, <1>2, <2>2 DEF Live, Held, Expired, TypeOK, Claim
  <2> QED
    BY <2>1, <2>2
<1> QED
  BY <1>1, <1>3 DEF Unrevived

LEMMA StepShape ==
  ASSUME TypeOK, [Next]_vars
  PROVE  \/ Granting /\ NothingOffered
         \/ Unrevived /\ NothingOffered
         \/ Unrevived /\ \E c \in DOMAIN claims, a \in Agents, to \in Agents \cup {Nobody} :
                           CreateHandoff(c, a, to)
<1>1. ASSUME handoffs' = handoffs
      PROVE  NothingOffered /\ OpenHandoffs' = OpenHandoffs
  BY <1>1 DEF NothingOffered, OpenHandoffs
<1>2. ASSUME claims' = claims, now' = now  PROVE Unrevived
  BY <1>2 DEF Unrevived, Live, Held, Expired
<1>3. CASE Tick
  <2>1. \A c \in DOMAIN claims : Live(c, now)' => Live(c, now)
    BY <1>3 DEF Tick, Live, Held, Expired, TypeOK, Claim
  <2> QED
    BY <1>1, <1>3, <2>1 DEF Tick, Unrevived
<1>4. ASSUME NEW t \in Tasks, NEW a \in Agents, NEW b \in Branches, NEW S \in (SUBSET Globs) \ {{}},
             ClaimTask(t, a, b, S) \/ Takeover(t, a, b, S)
      PROVE  NothingOffered /\ (Granting \/ Unrevived)
  <2>1. PICK secs \in Leases, override \in BOOLEAN, later \in Instants :
          \E takeover \in BOOLEAN, read \in {now, later} :
            \/ Acquire(t, a, b, S, secs, override, {}, takeover, read, later) /\ handoffs' = handoffs
            \/ RefuseAfterLapse(t, b, S, override, read, later)
    BY <1>4 DEF ClaimTask, Takeover
  <2>2. PICK takeover \in BOOLEAN, read \in {now, later} :
          \/ Acquire(t, a, b, S, secs, override, {}, takeover, read, later) /\ handoffs' = handoffs
          \/ RefuseAfterLapse(t, b, S, override, read, later)
    BY <2>1
  <2>3. read \in Nat
    BY InstantsAfterNow DEF TypeOK
  <2>4. CASE Acquire(t, a, b, S, secs, override, {}, takeover, read, later) /\ handoffs' = handoffs
    <3>1. OpenHandoffs' = OpenHandoffs \ {} /\ {} \in SUBSET OpenHandoffs
      BY <1>1, <2>4
    <3>2. Granting
      BY <2>3, <2>4, <3>1 DEF Granting
    <3> QED
      BY <1>1, <2>4, <3>2
  <2>5. CASE RefuseAfterLapse(t, b, S, override, read, later)
    BY <1>1, <2>5, RefusalRevivesNone DEF RefuseAfterLapse
  <2> QED
    BY <2>2, <2>4, <2>5
<1>5. ASSUME NEW t \in Tasks, NEW a \in Agents, CompleteTask(t, a)
      PROVE  Unrevived /\ NothingOffered
  BY <1>1, <1>5, EndingRevivesNone DEF CompleteTask, HoldersOf, Released
<1>6. ASSUME NEW c \in DOMAIN claims, NEW a \in Agents, RenewClaim(c, a)
      PROVE  Unrevived /\ NothingOffered
  <2>1. ASSUME NEW d \in DOMAIN claims
        PROVE  /\ claims'[d].task = claims[d].task /\ claims'[d].branch = claims[d].branch
               /\ claims'[d].scopes = claims[d].scopes /\ claims'[d].override = claims[d].override
               /\ Live(d, now)' => Live(d, now)
               /\ ~Held(d) => claims'[d] = claims[d]
    BY <1>6 DEF RenewClaim, TypeOK, Claim, Live, Held, Expired
  <2> QED
    BY <1>1, <1>6, <2>1 DEF RenewClaim, Unrevived
<1>7. ASSUME NEW c \in DOMAIN claims, NEW a \in Agents, ReleaseClaim(c, a)
      PROVE  Unrevived /\ NothingOffered
  BY <1>1, <1>7, EndingRevivesNone DEF ReleaseClaim, Released
<1>8. ASSUME NEW c \in DOMAIN claims, NEW a \in Agents, NEW to \in Agents \cup {Nobody},
             CreateHandoff(c, a, to)
      PROVE  Unrevived
  BY <1>8, EndingRevivesNone DEF CreateHandoff, Released
<1>9. ASSUME NEW h \in DOMAIN handoffs, NEW a \in Agents, AcceptHandoff(h, a)
      PROVE  Granting /\ NothingOffered
  <2> DEFINE c == handoffs[h].claim
  <2>1. PICK secs \in Leases, later \in Instants :
          Acquire(HandoffTask(h), a, claims[c].branch, claims[c].scopes, secs,
                  TRUE, {h}, FALSE, now, later)
    BY <1>9 DEF AcceptHandoff
  <2>2. /\ HandoffTask(h) \in Tasks /\ claims[c].branch \in Branches
        /\ claims[c].scopes \in (SUBSET Globs) \ {{}} /\ now \in Nat
    BY DEF TypeOK, HandoffTask, Claim
  <2>3. \A g \in DOMAIN handoffs : /\ handoffs'[g].claim = handoffs[g].claim
                                   /\ g # h => handoffs'[g] = handoffs[g]
                                   /\ g = h => handoffs'[g].status = "accepted"
    BY <1>9 DEF AcceptHandoff, TypeOK, Handoff
  <2>4. DOMAIN handoffs' = DOMAIN handoffs /\ h \in OpenHandoffs
    BY <1>9 DEF AcceptHandoff
  <2>5. OpenHandoffs' = OpenHandoffs \ {h}
    BY <2>3, <2>4 DEF OpenHandoffs
  <2>6. Granting
    BY <2>1, <2>2, <2>4, <2>5 DEF Granting
  <2> QED
    BY <2>3, <2>4, <2>5, <2>6 DEF NothingOffered
<1>10. ASSUME NEW h \in DOMAIN handoffs, NEW a \in Agents, DeclineHandoff(h, a) \/ CancelHandoff(h, a)
       PROVE  Unrevived /\ NothingOffered
  <2>1. PICK outcome \in {"declined", "cancelled"} : Resolve(h, outcome)
    BY <1>10 DEF DeclineHandoff, CancelHandoff
  <2>2. \A g \in DOMAIN handoffs : /\ handoffs'[g].claim = handoffs[g].claim
                                   /\ g # h => handoffs'[g] = handoffs[g]
                                   /\ g = h => handoffs'[g].status = outcome
    BY <2>1 DEF Resolve, TypeOK, Handoff
  <2>3. DOMAIN handoffs' = DOMAIN handoffs
    BY <2>1 DEF Resolve
  <2> QED
    BY <1>2, <2>1, <2>2, <2>3 DEF NothingOffered, OpenHandoffs, Resolve
<1>11. CASE UNCHANGED vars
  BY <1>1, <1>2, <1>11 DEF vars
<1>12. ASSUME NEW t \in Tasks, CreateTask(t) \/ \E a \in Agents : ReopenTask(t, a)
       PROVE  Unrevived /\ NothingOffered
  BY <1>1, <1>2, <1>12 DEF CreateTask, ReopenTask
<1>13. ASSUME NEW c \in DOMAIN claims, NEW a \in Agents, ApproveTakeover(c, a)
       PROVE  Unrevived /\ NothingOffered
  BY <1>1, <1>2, <1>13 DEF ApproveTakeover
<1> QED
  BY <1>3, <1>4, <1>5, <1>6, <1>7, <1>8, <1>9, <1>10, <1>11, <1>12, <1>13, Zenon DEF Next

(* The claim that is granted, and the others that are live after it. *)
GrantedRow(id, t, b, S) ==
  /\ DOMAIN claims' = DOMAIN claims \cup {id} /\ id \notin DOMAIN claims
  /\ claims'[id].task = t /\ claims'[id].branch = b /\ claims'[id].scopes = S

Grants(id, t, b, S) ==
  /\ GrantedRow(id, t, b, S)
  /\ \A c \in DOMAIN claims : ~Held(c) => claims'[c] = claims[c]
  /\ \A c \in DOMAIN claims : Live(c, now)' =>
       /\ claims'[c] = claims[c] /\ Live(c, now)
       /\ RepoOf[claims[c].task] = RepoOf[t] =>
            /\ claims[c].task # t /\ claims[c].branch # b
            /\ ScopesOverlap(claims[c].scopes, S) => claims'[id].override

LEMMA AcquireShape ==
  ASSUME TypeOK,
         NEW t \in Tasks, NEW a \in Agents, NEW b \in Branches,
         NEW S \in (SUBSET Globs) \ {{}}, NEW secs \in Leases,
         NEW override \in BOOLEAN, NEW own, NEW takeover \in BOOLEAN,
         NEW read, NEW later \in Instants,
         Acquire(t, a, b, S, secs, override, own, takeover, read, later)
  PROVE  \E id \in ClaimIds : Grants(id, t, b, S)
<1> DEFINE gone == Lapsed(t, read) \cup Displaced(t, read, takeover)
           class == Classify(t, b, S, gone, later)
<1>1. PICK id \in ClaimIds \ DOMAIN claims :
        claims' = [x \in DOMAIN claims \cup {id} |->
            IF x = id
              THEN [task |-> t, agent |-> a, branch |-> b, scopes |-> S,
                    lease |-> later + secs, override |-> class = "OVERLAPPING",
                    released |-> "no", late |-> FALSE]
            ELSE IF x \in Lapsed(t, read) THEN Ended(x, "lease_expired", later)
            ELSE IF x \in Displaced(t, read, takeover) THEN Ended(x, "takeover", later)
            ELSE claims[x]]
  BY DEF Acquire
<1>2. class \in {"CLEAR", "RELATED", "OVERLAPPING"}
  BY DEF Acquire, Permitted
<1>3. ASSUME NEW c \in LiveOthers(t, later)
      PROVE  /\ claims[c].branch # b
             /\ ScopesOverlap(claims[c].scopes, S) => class = "OVERLAPPING"
  BY <1>2, <1>3 DEF Classify
<1>4. HoldersOf(t) \subseteq gone /\ gone \subseteq HoldersOf(t)
  BY DEF Acquire, OneActivePerTask, Lapsed, Displaced
<1> HIDE DEF class
<1>5. GrantedRow(id, t, b, S) /\ claims'[id].override = (class = "OVERLAPPING")
  BY <1>1 DEF Grants, GrantedRow
<1>6. ASSUME NEW c \in DOMAIN claims, c \notin gone  PROVE claims'[c] = claims[c]
  BY <1>1, <1>6
<1>7. \A c \in DOMAIN claims : ~Held(c) => claims'[c] = claims[c]
  BY <1>4, <1>6 DEF HoldersOf
<1>8. ASSUME NEW c \in DOMAIN claims, Live(c, now)'
      PROVE  /\ claims'[c] = claims[c] /\ Live(c, now)
             /\ RepoOf[claims[c].task] = RepoOf[t] =>
                  /\ claims[c].task # t /\ claims[c].branch # b
                  /\ ScopesOverlap(claims[c].scopes, S) => claims'[id].override
  <2>1. c \notin gone
    BY <1>1, <1>8 DEF Live, Held, Ended, TypeOK, Claim
  <2>2. claims'[c] = claims[c]
    BY <1>6, <2>1
  <2>3. Live(c, later)
    BY <1>8, <2>2 DEF Live, Held, Expired, Acquire
  <2>4. Live(c, now)
    BY <2>3, InstantsAfterNow DEF Live, Expired, Held, TypeOK, Claim
  <2>5. claims[c].task # t
    BY <1>4, <2>1, <2>4 DEF HoldersOf, Live
  <2>6. RepoOf[claims[c].task] = RepoOf[t] => c \in LiveOthers(t, later)
    BY <2>3, <2>5 DEF LiveOthers
  <2> QED
    BY <1>3, <1>5, <2>2, <2>4, <2>5, <2>6
<1> QED
  BY <1>5, <1>7, <1>8 DEF Grants

LEMMA GrantingShape ==
  ASSUME TypeOK, Granting
  PROVE  \E t \in Tasks, b \in Branches, S \in (SUBSET Globs) \ {{}}, id \in ClaimIds :
           /\ Grants(id, t, b, S)
           /\ \E own \in SUBSET OpenHandoffs :
                ~Reserved(t, b, S, own) /\ OpenHandoffs' = OpenHandoffs \ own
<1>1. PICK t \in Tasks, a \in Agents, b \in Branches, S \in (SUBSET Globs) \ {{}} :
        \E secs \in Leases, override \in BOOLEAN, takeover \in BOOLEAN, later \in Instants,
           read \in Nat, own \in SUBSET OpenHandoffs :
          /\ Acquire(t, a, b, S, secs, override, own, takeover, read, later)
          /\ OpenHandoffs' = OpenHandoffs \ own
  BY Zenon DEF Granting
<1>2. PICK secs \in Leases, override \in BOOLEAN, takeover \in BOOLEAN, later \in Instants,
           read \in Nat, own \in SUBSET OpenHandoffs :
          /\ Acquire(t, a, b, S, secs, override, own, takeover, read, later)
          /\ OpenHandoffs' = OpenHandoffs \ own
  BY <1>1, Zenon
<1>3. PICK id \in ClaimIds : Grants(id, t, b, S)
  BY <1>2, AcquireShape, Zenon
<1>4. ~Reserved(t, b, S, own)
  BY <1>2 DEF Acquire, Claimable
<1> QED
  BY <1>2, <1>3, <1>4, Zenon

(* No transaction gives away a branch another live claim holds: a claim is *)
(* granted only after every live one was looked at, and time only makes    *)
(* live claims fewer.                                                      *)
THEOREM BranchesExclusive == Spec => []BranchExclusive
<1>1. Init => BranchExclusive
  BY DEF Init, BranchExclusive
<1>2. TypeOK /\ BranchExclusive /\ [Next]_vars => BranchExclusive'
  <2> SUFFICES ASSUME TypeOK, BranchExclusive, [Next]_vars PROVE BranchExclusive'
    OBVIOUS
  <2>1. CASE Unrevived
    BY <2>1 DEF Unrevived, BranchExclusive
  <2>2. CASE Granting
    <3>1. PICK t \in Tasks, b \in Branches, S \in (SUBSET Globs) \ {{}}, id \in ClaimIds :
            Grants(id, t, b, S)
      BY <2>2, GrantingShape, Zenon
    <3>2. ASSUME NEW c \in DOMAIN claims', NEW d \in DOMAIN claims',
                 Live(c, now)', Live(d, now)', c # d,
                 RepoOf[claims'[c].task] = RepoOf[claims'[d].task]
          PROVE  claims'[c].branch # claims'[d].branch
      BY <3>1, <3>2 DEF Grants, GrantedRow, BranchExclusive
    <3> QED
      BY <3>2 DEF BranchExclusive
  <2> QED
    BY <2>1, <2>2, StepShape
<1> QED
  BY <1>1, <1>2, TypeCorrect, PTL DEF Spec

(* Live claims of different tasks overlap only where the later one was      *)
(* granted as an override.                                                  *)
THEOREM OverlapsRecorded == Spec => []OverlapIsRecorded
<1>1. Init => OverlapIsRecorded
  BY DEF Init, OverlapIsRecorded
<1>2. TypeOK /\ OverlapIsRecorded /\ [Next]_vars => OverlapIsRecorded'
  <2> SUFFICES ASSUME TypeOK, OverlapIsRecorded, [Next]_vars PROVE OverlapIsRecorded'
    OBVIOUS
  <2>1. CASE Unrevived
    BY <2>1 DEF Unrevived, OverlapIsRecorded
  <2>2. CASE Granting
    <3>1. PICK t \in Tasks, b \in Branches, S \in (SUBSET Globs) \ {{}}, id \in ClaimIds :
            Grants(id, t, b, S)
      BY <2>2, GrantingShape, Zenon
    <3>2. \A T, U \in SUBSET Globs : ScopesOverlap(T, U) <=> ScopesOverlap(U, T)
      BY OverlapAssumption DEF ScopesOverlap
    <3>3. ASSUME NEW c \in DOMAIN claims, Live(c, now)', RepoOf[claims[c].task] = RepoOf[t],
                 ScopesOverlap(claims[c].scopes, S) \/ ScopesOverlap(S, claims[c].scopes)
          PROVE  claims'[id].override
      <4>1. claims[c].scopes \in SUBSET Globs /\ S \in SUBSET Globs
        BY DEF TypeOK, Claim
      <4> QED
        BY <3>1, <3>2, <3>3, <4>1 DEF Grants
    <3>4. ASSUME NEW c \in DOMAIN claims', NEW d \in DOMAIN claims',
                 Live(c, now)', Live(d, now)', claims'[c].task # claims'[d].task,
                 RepoOf[claims'[c].task] = RepoOf[claims'[d].task],
                 ScopesOverlap(claims'[c].scopes, claims'[d].scopes)
          PROVE  claims'[c].override \/ claims'[d].override
      <4>1. CASE c = id
        BY <3>1, <3>3, <3>4, <4>1 DEF Grants, GrantedRow
      <4>2. CASE d = id
        BY <3>1, <3>3, <3>4, <4>2 DEF Grants, GrantedRow
      <4>3. CASE c # id /\ d # id
        BY <3>1, <3>4, <4>3 DEF Grants, GrantedRow, OverlapIsRecorded
      <4> QED
        BY <4>1, <4>2, <4>3
    <3> QED
      BY <3>4 DEF OverlapIsRecorded, ScopesOverlap
  <2> QED
    BY <2>1, <2>2, StepShape
<1> QED
  BY <1>1, <1>2, TypeCorrect, PTL DEF Spec

----------------------------------------------------------------------------
(* A task whose holders, open handoffs and status a step leaves alone keeps
   its one owner. *)
LEMMA UntouchedTask ==
  ASSUME NEW t \in Tasks, OneOwnerOf(t), status'[t] = status[t],
         HoldersOf(t)' = HoldersOf(t), OpenFor(t)' = OpenFor(t)
  PROVE  OneOwnerOf(t)'
BY DEF OneOwnerOf

(* Acquiring a claim makes it the only one of its task, provided no other
   handoff of the task stays open. *)
LEMMA AcquireKeepsOneOwner ==
  ASSUME TypeOK, OneOwner,
         NEW t \in Tasks, NEW a \in Agents, NEW b \in Branches,
         NEW S \in (SUBSET Globs) \ {{}}, NEW secs \in Leases,
         NEW override \in BOOLEAN, NEW own, NEW takeover \in BOOLEAN,
         NEW read, NEW later \in Instants,
         Acquire(t, a, b, S, secs, override, own, takeover, read, later),
         DOMAIN handoffs' = DOMAIN handoffs,
         \A h \in DOMAIN handoffs : handoffs'[h].claim = handoffs[h].claim,
         \A h \in DOMAIN handoffs :
           HandoffTask(h) # t => handoffs'[h].status = handoffs[h].status,
         \A h \in DOMAIN handoffs :
           HandoffTask(h) = t => handoffs'[h].status # "open"
  PROVE  OneOwner'
<1> DEFINE gone == Lapsed(t, read) \cup Displaced(t, read, takeover)
           class == Classify(t, b, S, gone, later)
<1>1. PICK id \in ClaimIds \ DOMAIN claims :
        claims' = [x \in DOMAIN claims \cup {id} |->
            IF x = id
              THEN [task |-> t, agent |-> a, branch |-> b, scopes |-> S,
                    lease |-> later + secs, override |-> class = "OVERLAPPING",
                    released |-> "no", late |-> FALSE]
            ELSE IF x \in Lapsed(t, read) THEN Ended(x, "lease_expired", later)
            ELSE IF x \in Displaced(t, read, takeover) THEN Ended(x, "takeover", later)
            ELSE claims[x]]
  BY DEF Acquire
<1>2. gone = HoldersOf(t)
  BY DEF Acquire, OneActivePerTask, Lapsed, Displaced
<1> HIDE DEF class
<1>3. /\ DOMAIN claims' = DOMAIN claims \cup {id} /\ id \notin DOMAIN claims
      /\ claims'[id].task = t /\ claims'[id].released = "no"
  BY <1>1
<1>4. ASSUME NEW c \in DOMAIN claims
      PROVE  /\ claims'[c].task = claims[c].task
             /\ c \in gone => claims'[c].released # "no"
             /\ c \notin gone => claims'[c] = claims[c]
  <2>1. c # id /\ c \in DOMAIN claims \cup {id}
    BY <1>3
  <2>2. claims'[c] = IF c \in Lapsed(t, read) THEN Ended(c, "lease_expired", later)
                     ELSE IF c \in Displaced(t, read, takeover) THEN Ended(c, "takeover", later)
                     ELSE claims[c]
    BY <1>1, <2>1
  <2>3. ASSUME NEW r
        PROVE  /\ Ended(c, r, later).task = claims[c].task
               /\ Ended(c, r, later).agent = claims[c].agent
               /\ Ended(c, r, later).released = r
    BY DEF Ended, TypeOK, Claim
  <2> QED
    BY <2>2, <2>3
<1>5. HoldersOf(t)' = {id}
  BY <1>2, <1>3, <1>4 DEF HoldersOf, Held
<1>6. \A h \in DOMAIN handoffs : HandoffTask(h)' = HandoffTask(h)
  BY <1>4 DEF HandoffTask, TypeOK
<1>7. OpenFor(t)' = {}
  BY <1>6 DEF OpenFor, OpenHandoffs
<1>8. status' = [status EXCEPT ![t] = "claimed"]
  BY DEF Acquire
<1>9. OneOwnerOf(t)'
  BY <1>5, <1>7, <1>8 DEF OneOwnerOf, TypeOK
<1>10. ASSUME NEW u \in Tasks, u # t
       PROVE  OneOwnerOf(u)'
  <2>1. HoldersOf(u)' = HoldersOf(u)
    BY <1>2, <1>3, <1>4, <1>10 DEF HoldersOf, Held
  <2>2. OpenFor(u)' = OpenFor(u)
    BY <1>6, <1>10 DEF OpenFor, OpenHandoffs
  <2>3. status'[u] = status[u]
    BY <1>8, <1>10 DEF TypeOK
  <2>4. QED
    BY <2>1, <2>2, <2>3, UntouchedTask DEF OneOwner
<1>11. QED
  BY <1>9, <1>10 DEF OneOwner

(* Releasing the holder of a task, in one of the states that have no holder. *)
LEMMA EndKeepsOneOwner ==
  ASSUME TypeOK, OneOwner, NEW c \in DOMAIN claims, Held(c),
         NEW why \in Released, NEW time, NEW st \in {"open", "done"},
         claims' = [claims EXCEPT ![c] = Ended(c, why, time)],
         status' = [status EXCEPT ![claims[c].task] = st],
         handoffs' = handoffs
  PROVE  OneOwner'
<1>1. PICK t \in Tasks : t = claims[c].task
  BY DEF TypeOK, Claim
<1>2. ASSUME NEW d \in DOMAIN claims
      PROVE  /\ claims'[d].task = claims[d].task
             /\ d # c => claims'[d] = claims[d]
             /\ d = c => claims'[d].released # "no"
  BY DEF Ended, TypeOK, Claim, Released
<1>3. DOMAIN claims' = DOMAIN claims
  OBVIOUS
<1>4. c \in HoldersOf(t) /\ status[t] = "claimed" /\ OpenFor(t) = {}
  BY <1>1 DEF HoldersOf, OneOwner, OneOwnerOf
<1>5. \A u \in Tasks : OpenFor(u)' = OpenFor(u)
  BY <1>2 DEF OpenFor, OpenHandoffs, HandoffTask, TypeOK
<1>6. HoldersOf(t)' = {}
  BY <1>1, <1>2, <1>3, <1>4 DEF HoldersOf, Held, OneOwner, OneOwnerOf
<1>7. OneOwnerOf(t)'
  BY <1>1, <1>4, <1>5, <1>6 DEF OneOwnerOf, TypeOK
<1>8. ASSUME NEW u \in Tasks, u # t
      PROVE  OneOwnerOf(u)'
  <2>1. HoldersOf(u)' = HoldersOf(u)
    BY <1>1, <1>2, <1>3, <1>8 DEF HoldersOf, Held
  <2>2. status'[u] = status[u]
    BY <1>1, <1>8 DEF TypeOK
  <2>3. QED
    BY <1>5, <2>1, <2>2, UntouchedTask DEF OneOwner
<1>9. QED
  BY <1>7, <1>8 DEF OneOwner

(* The tables agree about the owner of every task, and there is one at most:
   the conjuncts of OneOwner are inductive together with TypeOK. *)
THEOREM AtMostOneOwner == Spec => []OneOwner
<1>1. Init => OneOwner
  BY DEF Init, OneOwner, OneOwnerOf, HoldersOf, OpenFor, OpenHandoffs
<1>2. TypeOK /\ OneOwner /\ [Next]_vars => OneOwner'
  <2> SUFFICES ASSUME TypeOK, OneOwner, [Next]_vars PROVE OneOwner'
    OBVIOUS
  <2>1. CASE UNCHANGED <<status, claims, handoffs>>
    BY <2>1 DEF OneOwner, OneOwnerOf, HoldersOf, Held, OpenFor, OpenHandoffs, HandoffTask
  <2>2. ASSUME NEW t \in Tasks, CreateTask(t) \/ \E a \in Agents : ReopenTask(t, a)
        PROVE  OneOwner'
    <3>1. /\ status[t] \in {"absent", "done"}
          /\ status' = [status EXCEPT ![t] = "open"]
          /\ UNCHANGED <<claims, handoffs>>
      BY <2>2 DEF CreateTask, ReopenTask
    <3>2. \A u \in Tasks : HoldersOf(u)' = HoldersOf(u) /\ OpenFor(u)' = OpenFor(u)
      BY <3>1 DEF HoldersOf, Held, OpenFor, OpenHandoffs, HandoffTask
    <3>3. QED
      BY <3>1, <3>2 DEF OneOwner, OneOwnerOf, TypeOK
  <2>3. ASSUME NEW t \in Tasks, NEW b, NEW S, NEW override,
               NEW read, NEW later,
               RefuseAfterLapse(t, b, S, override, read, later)
        PROVE  OneOwner'
    <3>1. PICK c \in DOMAIN claims : c \in Lapsed(t, read)
      BY <2>3 DEF RefuseAfterLapse, Lapsed, HoldersOf
    <3>2. Lapsed(t, read) = {c} /\ Held(c) /\ claims[c].task = t
      BY <3>1 DEF Lapsed, HoldersOf, OneOwner, OneOwnerOf
    <3>3. claims' = [claims EXCEPT ![c] = Ended(c, "lease_expired", later)]
      BY <2>3, <3>2 DEF RefuseAfterLapse, TypeOK
    <3>4. QED
      BY <2>3, <3>2, <3>3, EndKeepsOneOwner DEF RefuseAfterLapse, Released
  <2>4. ASSUME NEW t \in Tasks, NEW a \in Agents, NEW b \in Branches,
               NEW S \in (SUBSET Globs) \ {{}},
               ClaimTask(t, a, b, S) \/ Takeover(t, a, b, S)
        PROVE  OneOwner'
    <3>1. \E secs \in Leases, override \in BOOLEAN, later \in Instants :
            \E takeover \in BOOLEAN, read \in {now, later} :
              \/ /\ Acquire(t, a, b, S, secs, override, {}, takeover, read, later)
                 /\ UNCHANGED handoffs
              \/ RefuseAfterLapse(t, b, S, override, read, later)
      BY <2>4 DEF ClaimTask, Takeover
    <3>2. PICK secs \in Leases, override \in BOOLEAN, later \in Instants,
               takeover \in BOOLEAN : \E read \in {now, later} :
              \/ /\ Acquire(t, a, b, S, secs, override, {}, takeover, read, later)
                 /\ UNCHANGED handoffs
              \/ RefuseAfterLapse(t, b, S, override, read, later)
      BY <3>1
    <3>3. PICK read \in {now, later} :
              \/ /\ Acquire(t, a, b, S, secs, override, {}, takeover, read, later)
                 /\ UNCHANGED handoffs
              \/ RefuseAfterLapse(t, b, S, override, read, later)
      BY <3>2
    <3>4. CASE RefuseAfterLapse(t, b, S, override, read, later)
      BY <2>3, <3>4
    <3>5. CASE /\ Acquire(t, a, b, S, secs, override, {}, takeover, read, later)
               /\ UNCHANGED handoffs
      <4>1. \A h \in DOMAIN handoffs :
              HandoffTask(h) = t => handoffs[h].status # "open"
        BY <3>5 DEF Acquire, Claimable, OpenFor, OpenHandoffs
      <4>2. QED
        BY <3>5, <4>1, AcquireKeepsOneOwner
    <3>6. QED
      BY <3>3, <3>4, <3>5
  <2>5. ASSUME NEW t \in Tasks, NEW a \in Agents, CompleteTask(t, a)
        PROVE  OneOwner'
    <3>1. PICK c \in HoldersOf(t) :
            /\ claims' = [claims EXCEPT ![c] = Ended(c, "done", now)]
            /\ status' = [status EXCEPT ![t] = "done"]
            /\ handoffs' = handoffs
      BY <2>5 DEF CompleteTask
    <3>2. c \in DOMAIN claims /\ Held(c) /\ claims[c].task = t
      BY DEF HoldersOf
    <3>3. QED
      BY <3>1, <3>2, EndKeepsOneOwner DEF Released
  <2>6. ASSUME NEW c \in DOMAIN claims, NEW a \in Agents, RenewClaim(c, a)
        PROVE  OneOwner'
    <3>1. \A d \in DOMAIN claims :
            claims'[d].task = claims[d].task /\ claims'[d].released = claims[d].released
      BY <2>6 DEF RenewClaim, TypeOK, Claim
    <3>2. DOMAIN claims' = DOMAIN claims /\ UNCHANGED <<status, handoffs>>
      BY <2>6 DEF RenewClaim
    <3>3. \A t \in Tasks : HoldersOf(t)' = HoldersOf(t) /\ OpenFor(t)' = OpenFor(t)
      BY <3>1, <3>2 DEF HoldersOf, Held, OpenFor, OpenHandoffs, HandoffTask, TypeOK
    <3>4. QED
      BY <3>2, <3>3, UntouchedTask DEF OneOwner
  <2>7. ASSUME NEW c \in DOMAIN claims, NEW a \in Agents, ReleaseClaim(c, a)
        PROVE  OneOwner'
    BY <2>7, EndKeepsOneOwner DEF ReleaseClaim, Released
  <2>8. ASSUME NEW c \in DOMAIN claims, NEW a \in Agents,
               NEW to \in Agents \cup {Nobody}, CreateHandoff(c, a, to)
        PROVE  OneOwner'
    <3>1. PICK h \in HandoffIds \ DOMAIN handoffs :
            handoffs' = Put(handoffs, h, [claim |-> c, to |-> to, status |-> "open"])
      BY <2>8 DEF CreateHandoff
    <3>2. PICK t \in Tasks : t = claims[c].task
      BY DEF TypeOK, Claim
    <3>3. /\ c \in HoldersOf(t) /\ OpenFor(t) = {}
          /\ \A d \in HoldersOf(t) : d = c
      BY <2>8, <3>2 DEF CreateHandoff, HoldersOf, OneOwner, OneOwnerOf
    <3>4. \A d \in DOMAIN claims :
            /\ claims'[d].task = claims[d].task
            /\ d # c => claims'[d] = claims[d]
            /\ d = c => claims'[d].released # "no"
      BY <2>8 DEF CreateHandoff, Ended, TypeOK, Claim
    <3>5. /\ DOMAIN claims' = DOMAIN claims
          /\ status' = [status EXCEPT ![t] = "handoff"]
      BY <2>8, <3>2 DEF CreateHandoff
    <3>6. /\ DOMAIN handoffs' = DOMAIN handoffs \cup {h}
          /\ handoffs'[h].claim = c /\ handoffs'[h].status = "open"
          /\ \A g \in DOMAIN handoffs : handoffs'[g] = handoffs[g]
      BY <3>1 DEF Put
    <3>7. /\ HandoffTask(h)' = t
          /\ \A g \in DOMAIN handoffs : HandoffTask(g)' = HandoffTask(g)
      BY <3>2, <3>4, <3>6 DEF HandoffTask, TypeOK
    <3>8. HoldersOf(t)' = {} /\ OpenFor(t)' = {h}
      <4>1. HoldersOf(t)' = {}
        BY <3>2, <3>3, <3>4, <3>5 DEF HoldersOf, Held
      <4>2. OpenFor(t)' = {h}
        BY <3>3, <3>6, <3>7 DEF OpenFor, OpenHandoffs
      <4>3. QED
        BY <4>1, <4>2
    <3>9. OneOwnerOf(t)'
      BY <3>5, <3>8 DEF OneOwnerOf, TypeOK
    <3>10. ASSUME NEW u \in Tasks, u # t
           PROVE  OneOwnerOf(u)'
      <4>1. HoldersOf(u)' = HoldersOf(u)
        BY <3>2, <3>4, <3>5, <3>10 DEF HoldersOf, Held
      <4>2. OpenFor(u)' = OpenFor(u)
        BY <3>6, <3>7, <3>10 DEF OpenFor, OpenHandoffs
      <4>3. status'[u] = status[u]
        BY <3>5, <3>10 DEF TypeOK
      <4>4. QED
        BY <4>1, <4>2, <4>3, UntouchedTask DEF OneOwner
    <3>11. QED
      BY <3>9, <3>10 DEF OneOwner
  <2>9. ASSUME NEW h \in DOMAIN handoffs, NEW a \in Agents, AcceptHandoff(h, a)
        PROVE  OneOwner'
    <3>1. PICK t \in Tasks : t = HandoffTask(h)
      BY DEF TypeOK, HandoffTask, Claim
    <3>2. PICK c \in DOMAIN claims : c = handoffs[h].claim
      BY DEF TypeOK
    <3>3. PICK secs \in Leases, later \in Instants :
            Acquire(t, a, claims[c].branch, claims[c].scopes, secs,
                    TRUE, {h}, FALSE, now, later)
      BY <2>9, <3>1, <3>2 DEF AcceptHandoff
    <3>4. /\ claims[c].branch \in Branches
          /\ claims[c].scopes \in (SUBSET Globs) \ {{}}
      BY DEF TypeOK, Claim
    <3>5. /\ handoffs' = [handoffs EXCEPT ![h].status = "accepted", ![h].to = a]
          /\ h \in OpenHandoffs
      BY <2>9 DEF AcceptHandoff
    <3>6. \A g \in DOMAIN handoffs :
            /\ handoffs'[g].claim = handoffs[g].claim
            /\ g # h => handoffs'[g] = handoffs[g]
            /\ g = h => handoffs'[g].status = "accepted"
      BY <3>5 DEF TypeOK, Handoff
    <3>7. \A g \in OpenFor(t) : g = h
      BY <3>1, <3>5 DEF OpenFor, OneOwner, OneOwnerOf
    <3>8. \A g \in DOMAIN handoffs :
            /\ HandoffTask(g) # t => handoffs'[g].status = handoffs[g].status
            /\ HandoffTask(g) = t => handoffs'[g].status # "open"
      BY <3>1, <3>6, <3>7 DEF OpenFor, OpenHandoffs
    <3>9. DOMAIN handoffs' = DOMAIN handoffs
      BY <3>5
    <3>10. QED
      BY <3>3, <3>4, <3>6, <3>8, <3>9, AcquireKeepsOneOwner
  <2>10. ASSUME NEW h \in OpenHandoffs, NEW outcome \in {"declined", "cancelled"},
                Resolve(h, outcome)
         PROVE  OneOwner'
    <3>1. PICK t \in Tasks : t = HandoffTask(h)
      BY DEF TypeOK, HandoffTask, Claim, OpenHandoffs
    <3>2. /\ status' = [status EXCEPT ![t] = "open"]
          /\ claims' = claims /\ DOMAIN handoffs' = DOMAIN handoffs
      BY <2>10, <3>1 DEF Resolve
    <3>3. \A g \in DOMAIN handoffs :
            /\ handoffs'[g].claim = handoffs[g].claim
            /\ g # h => handoffs'[g] = handoffs[g]
            /\ g = h => handoffs'[g].status # "open"
      BY <2>10 DEF Resolve, TypeOK, Handoff
    <3>4. h \in OpenFor(t) /\ OpenFor(t) = {h} /\ HoldersOf(t) = {}
      BY <3>1 DEF OpenFor, OneOwner, OneOwnerOf
    <3>5. \A u \in Tasks : HoldersOf(u)' = HoldersOf(u)
      BY <3>2 DEF HoldersOf, Held
    <3>6. \A g \in DOMAIN handoffs : HandoffTask(g)' = HandoffTask(g)
      BY <3>2, <3>3 DEF HandoffTask
    <3>7. OpenFor(t)' = {} /\ \A u \in Tasks \ {t} : OpenFor(u)' = OpenFor(u)
      BY <3>1, <3>2, <3>3, <3>4, <3>6 DEF OpenFor, OpenHandoffs
    <3>8. QED
      BY <3>2, <3>4, <3>5, <3>7, UntouchedTask DEF OneOwner, OneOwnerOf, TypeOK
  <2>11. QED
    BY <2>1, <2>2, <2>4, <2>5, <2>6, <2>7, <2>8, <2>9, <2>10
    DEF Next, vars, Tick, ApproveTakeover, DeclineHandoff, CancelHandoff
<1>3. QED
  BY <1>1, <1>2, TypeCorrect, PTL DEF Spec

----------------------------------------------------------------------------
(* The claim behind an open handoff is released and never changes again.    *)
LEMMA OfferedAreReleased ==
  ASSUME TypeOK, OneOwner, NEW h \in OpenHandoffs
  PROVE  /\ handoffs[h].claim \in DOMAIN claims
         /\ ~Held(handoffs[h].claim)
<1> DEFINE c == handoffs[h].claim
           t == HandoffTask(h)
<1>1. h \in DOMAIN handoffs /\ c \in DOMAIN claims /\ t \in Tasks
  BY DEF OpenHandoffs, TypeOK, HandoffTask, Claim
<1>2. h \in OpenFor(t)
  BY DEF OpenFor
<1>3. HoldersOf(t) = {}
  <2>1. status[t] = "handoff"
    BY <1>1, <1>2 DEF OneOwner, OneOwnerOf
  <2> QED
    BY <1>1, <2>1 DEF OneOwner, OneOwnerOf
<1> QED
  BY <1>1, <1>3 DEF HoldersOf, HandoffTask

(* What an open handoff reserves. *)
SameBranchAs(c, d) ==
  RepoOf[claims[d].task] = RepoOf[claims[c].task] /\ claims[d].branch = claims[c].branch

ReservationsHold ==
  \A h \in OpenHandoffs :
    LET c == handoffs[h].claim
    IN /\ \A d \in DOMAIN claims : Live(d, now) /\ SameBranchAs(c, d) => claims[c].late
       /\ \A g \in OpenHandoffs \ {h} :
            SameBranchAs(c, handoffs[g].claim) => claims[c].late \/ claims[handoffs[g].claim].late

(* An open handoff that was there before keeps its claim's row. *)
LEMMA OfferKept ==
  ASSUME TypeOK, OneOwner, \A c \in DOMAIN claims : ~Held(c) => claims'[c] = claims[c],
         \A h \in DOMAIN handoffs : handoffs'[h].claim = handoffs[h].claim,
         NEW h \in OpenHandoffs
  PROVE  LET c == handoffs[h].claim
         IN handoffs'[h].claim = c /\ c \in DOMAIN claims /\ claims'[c] = claims[c]
BY OfferedAreReleased DEF OpenHandoffs

(* A branch reserved by an open handoff has another holder, or another      *)
(* reservation, only if one of the handoffs was made after its lease ended. *)
THEOREM ReservationsKept == Spec => []ReservationsCollideOnlyAfterExpiry
<1>1. ReservationsHold <=> ReservationsCollideOnlyAfterExpiry
  BY DEF ReservationsHold, ReservationsCollideOnlyAfterExpiry, SameBranchAs
<1>2. Init => ReservationsHold
  BY DEF Init, ReservationsHold, OpenHandoffs
<1>3. TypeOK /\ OneOwner /\ BranchExclusive /\ ReservationsHold /\ [Next]_vars => ReservationsHold'
  <2> SUFFICES ASSUME TypeOK, OneOwner, BranchExclusive, ReservationsHold, [Next]_vars
               PROVE  ReservationsHold'
    OBVIOUS
  <2>1. CASE Unrevived /\ NothingOffered
    <3>1. ASSUME NEW h \in OpenHandoffs'
          PROVE  /\ h \in OpenHandoffs /\ handoffs'[h].claim = handoffs[h].claim
                 /\ handoffs[h].claim \in DOMAIN claims
                 /\ claims'[handoffs[h].claim] = claims[handoffs[h].claim]
      BY <2>1, <3>1, OfferKept DEF Unrevived, NothingOffered
    <3>2. \A d \in DOMAIN claims' :
            /\ claims'[d].task = claims[d].task /\ claims'[d].branch = claims[d].branch
            /\ d \in DOMAIN claims /\ (Live(d, now)' => Live(d, now))
      BY <2>1 DEF Unrevived
    <3> QED
      BY <3>1, <3>2 DEF ReservationsHold, SameBranchAs
  <2>2. CASE Granting /\ NothingOffered
    <3>1. PICK t \in Tasks, b \in Branches, S \in (SUBSET Globs) \ {{}}, id \in ClaimIds :
            /\ Grants(id, t, b, S)
            /\ \E own \in SUBSET OpenHandoffs :
                 ~Reserved(t, b, S, own) /\ OpenHandoffs' = OpenHandoffs \ own
      BY <2>2, GrantingShape, Zenon
    <3>2. PICK own \in SUBSET OpenHandoffs :
            ~Reserved(t, b, S, own) /\ OpenHandoffs' = OpenHandoffs \ own
      BY <3>1
    <3>3. ASSUME NEW h \in OpenHandoffs'
          PROVE  /\ h \in OpenHandoffs /\ handoffs'[h].claim = handoffs[h].claim
                 /\ handoffs[h].claim \in DOMAIN claims
                 /\ claims'[handoffs[h].claim] = claims[handoffs[h].claim]
                 /\ RepoOf[claims[handoffs[h].claim].task] = RepoOf[t]
                      => claims[handoffs[h].claim].branch # b
      <4>1. h \in OpenHandoffs \ own
        BY <3>2, <3>3
      <4>2. RepoOf[claims[handoffs[h].claim].task] = RepoOf[t]
              => claims[handoffs[h].claim].branch # b
        BY <3>2, <4>1 DEF Reserved
      <4> QED
        BY <2>2, <3>1, <4>1, <4>2, OfferKept DEF Grants, NothingOffered
    <3>4. ASSUME NEW h \in OpenHandoffs', NEW d \in DOMAIN claims',
                 Live(d, now)', SameBranchAs(handoffs[h].claim, d)'
          PROVE  claims'[handoffs'[h].claim].late
      <4> DEFINE c == handoffs[h].claim
      <4>1. /\ handoffs'[h].claim = c /\ h \in OpenHandoffs /\ claims'[c] = claims[c]
            /\ RepoOf[claims[c].task] = RepoOf[t] => claims[c].branch # b
        BY <3>3
      <4>2. RepoOf[claims'[d].task] = RepoOf[claims[c].task] /\ claims'[d].branch = claims[c].branch
        BY <3>4, <4>1 DEF SameBranchAs
      <4>3. d # id
        BY <3>1, <4>1, <4>2 DEF Grants, GrantedRow
      <4>4. d \in DOMAIN claims /\ claims'[d] = claims[d] /\ Live(d, now)
        BY <3>1, <3>4, <4>3 DEF Grants, GrantedRow
      <4>5. claims[c].late
        BY <4>1, <4>2, <4>4 DEF ReservationsHold, SameBranchAs
      <4> QED
        BY <4>1, <4>5
    <3>5. ASSUME NEW h \in OpenHandoffs', NEW g \in OpenHandoffs' \ {h},
                 SameBranchAs(handoffs[h].claim, handoffs[g].claim)'
          PROVE  claims'[handoffs'[h].claim].late \/ claims'[handoffs'[g].claim].late
      BY <3>3, <3>5 DEF ReservationsHold, SameBranchAs
    <3> QED
      BY <3>4, <3>5 DEF ReservationsHold
  <2>3. ASSUME Unrevived, NEW c \in DOMAIN claims, NEW a \in Agents,
               NEW to \in Agents \cup {Nobody}, CreateHandoff(c, a, to)
        PROVE  ReservationsHold'
    <3>1. PICK new \in HandoffIds \ DOMAIN handoffs :
            handoffs' = Put(handoffs, new, [claim |-> c, to |-> to, status |-> "open"])
      BY <2>3 DEF CreateHandoff
    <3>2. /\ handoffs'[new].claim = c /\ new \in OpenHandoffs' /\ new \notin DOMAIN handoffs
          /\ OpenHandoffs' \subseteq OpenHandoffs \cup {new}
          /\ \A h \in DOMAIN handoffs : handoffs'[h] = handoffs[h]
      BY <3>1 DEF Put, OpenHandoffs
    <3>3. ASSUME NEW h \in OpenHandoffs', h # new
          PROVE  /\ h \in OpenHandoffs /\ handoffs'[h].claim = handoffs[h].claim
                 /\ handoffs[h].claim \in DOMAIN claims
                 /\ claims'[handoffs[h].claim] = claims[handoffs[h].claim]
      BY <2>3, <3>2, <3>3, OfferKept DEF Unrevived
    <3>4. /\ claims'[c].late = Expired(c, now) /\ claims'[c].task = claims[c].task
          /\ claims'[c].branch = claims[c].branch /\ Held(c) /\ now' = now
          /\ ~Live(c, now)'
      BY <2>3 DEF CreateHandoff, Ended, TypeOK, Claim, Live, Held
    <3>5. \A d \in DOMAIN claims' :
            /\ claims'[d].task = claims[d].task /\ claims'[d].branch = claims[d].branch
            /\ d \in DOMAIN claims /\ (Live(d, now)' => Live(d, now))
      BY <2>3 DEF Unrevived
    <3>6. ASSUME NEW d \in DOMAIN claims', Live(d, now)', SameBranchAs(c, d)'
          PROVE  claims'[c].late
      <4>1. d # c /\ Live(d, now) /\ SameBranchAs(c, d)
        BY <3>4, <3>5, <3>6 DEF SameBranchAs
      <4>2. ~Live(c, now)
        BY <4>1, <3>5 DEF BranchExclusive, SameBranchAs
      <4> QED
        BY <3>4, <4>2 DEF Live
    <3>7. ASSUME NEW h \in OpenHandoffs', h # new,
                 SameBranchAs(c, handoffs[h].claim)' \/ SameBranchAs(handoffs[h].claim, c)'
          PROVE  claims'[c].late \/ claims'[handoffs[h].claim].late
      <4>1. SameBranchAs(handoffs[h].claim, c)
        BY <2>3, <3>3, <3>4, <3>5, <3>7 DEF SameBranchAs, CreateHandoff
      <4>2. Live(c, now) => claims[handoffs[h].claim].late
        BY <3>3, <3>7, <4>1 DEF ReservationsHold
      <4> QED
        BY <3>3, <3>4, <3>7, <4>2 DEF Live
    <3>8. ASSUME NEW h \in OpenHandoffs', h # new, NEW d \in DOMAIN claims',
                 Live(d, now)', SameBranchAs(handoffs[h].claim, d)'
          PROVE  claims'[handoffs'[h].claim].late
      BY <3>3, <3>5, <3>8 DEF ReservationsHold, SameBranchAs
    <3>9. ASSUME NEW h \in OpenHandoffs', NEW g \in OpenHandoffs' \ {h}, h # new, g # new,
                 SameBranchAs(handoffs[h].claim, handoffs[g].claim)'
          PROVE  claims'[handoffs'[h].claim].late \/ claims'[handoffs'[g].claim].late
      BY <3>3, <3>9 DEF ReservationsHold, SameBranchAs
    <3>10. ASSUME NEW h \in OpenHandoffs', NEW g \in OpenHandoffs' \ {h},
                  SameBranchAs(handoffs[h].claim, handoffs[g].claim)'
           PROVE  claims'[handoffs'[h].claim].late \/ claims'[handoffs'[g].claim].late
      <4>1. CASE h = new
        <5>1. g # new /\ handoffs'[g].claim = handoffs[g].claim /\ handoffs'[h].claim = c
          BY <3>2, <3>3, <3>10, <4>1
        <5>2. SameBranchAs(c, handoffs[g].claim)'
          BY <3>10, <5>1 DEF SameBranchAs
        <5> QED
          BY <3>7, <5>1, <5>2
      <4>2. CASE g = new
        <5>1. h # new /\ handoffs'[h].claim = handoffs[h].claim /\ handoffs'[g].claim = c
          BY <3>2, <3>3, <3>10, <4>2
        <5>2. SameBranchAs(handoffs[h].claim, c)'
          BY <3>10, <5>1 DEF SameBranchAs
        <5> QED
          BY <3>7, <5>1, <5>2
      <4>3. CASE h # new /\ g # new
        BY <3>9, <3>10, <4>3
      <4> QED
        BY <4>1, <4>2, <4>3
    <3>11. ASSUME NEW h \in OpenHandoffs', NEW d \in DOMAIN claims',
                  Live(d, now)', SameBranchAs(handoffs[h].claim, d)'
           PROVE  claims'[handoffs'[h].claim].late
      <4>1. CASE h = new
        <5>1. SameBranchAs(c, d)'
          BY <3>2, <3>11, <4>1 DEF SameBranchAs
        <5> QED
          BY <3>2, <3>6, <3>11, <4>1, <5>1
      <4> QED
        BY <3>8, <3>11, <4>1
    <3> QED
      BY <3>10, <3>11 DEF ReservationsHold
  <2> QED
    BY <2>1, <2>2, <2>3, StepShape
<1> QED
  BY <1>1, <1>2, <1>3, TypeCorrect, AtMostOneOwner, BranchesExclusive, PTL DEF Spec

----------------------------------------------------------------------------
(* A claim that is ended for another reason is no takeover. *)
LEMMA EndedWhy ==
  ASSUME TypeOK, NEW c \in DOMAIN claims, NEW why \in Released, why # "takeover", NEW time,
         claims' = [claims EXCEPT ![c] = Ended(c, why, time)]
  PROVE  \A d \in DOMAIN claims : Held(d) => claims'[d].released # "takeover"
BY DEF Ended, TypeOK, Claim, Held

(* A takeover of the claim of a task by an agent. *)
Displacing(t, a, c) ==
  /\ c \in HoldersOf(t)
  /\ grants' = grants \ {<<c, a>>} /\ <<c, a>> \in grants
  /\ \E d \in DOMAIN claims' \ DOMAIN claims : claims'[d].task = t /\ claims'[d].agent = a
  /\ claims'[c].released # "no"
  /\ \A d \in DOMAIN claims : Held(d) /\ claims'[d].released = "takeover" => d = c

(* Acquiring ends every holder of the task, for a takeover only under one.   *)
LEMMA AcquireEnds ==
  ASSUME TypeOK, NEW t \in Tasks, NEW a \in Agents, NEW b, NEW S, NEW secs, NEW override, NEW own,
         NEW takeover \in BOOLEAN, NEW read, NEW later,
         Acquire(t, a, b, S, secs, override, own, takeover, read, later)
  PROVE  /\ \A d \in DOMAIN claims : Held(d) /\ claims'[d].released = "takeover" =>
                                       takeover /\ d \in HoldersOf(t)
         /\ \A d \in HoldersOf(t) : claims'[d].released # "no"
         /\ \E d \in DOMAIN claims' \ DOMAIN claims : claims'[d].task = t /\ claims'[d].agent = a
<1> DEFINE class == Classify(t, b, S, Lapsed(t, read) \cup Displaced(t, read, takeover), later)
<1>1. PICK id \in ClaimIds \ DOMAIN claims :
        claims' = [x \in DOMAIN claims \cup {id} |->
            IF x = id
              THEN [task |-> t, agent |-> a, branch |-> b, scopes |-> S,
                    lease |-> later + secs, override |-> class = "OVERLAPPING",
                    released |-> "no", late |-> FALSE]
            ELSE IF x \in Lapsed(t, read) THEN Ended(x, "lease_expired", later)
            ELSE IF x \in Displaced(t, read, takeover) THEN Ended(x, "takeover", later)
            ELSE claims[x]]
  BY DEF Acquire
<1> HIDE DEF class
<1>2. \A d \in DOMAIN claims :
        /\ d \in Lapsed(t, read) => claims'[d].released = "lease_expired"
        /\ d \notin Lapsed(t, read) /\ d \in Displaced(t, read, takeover)
             => claims'[d].released = "takeover"
        /\ d \notin Lapsed(t, read) /\ d \notin Displaced(t, read, takeover)
             => claims'[d] = claims[d]
  BY <1>1 DEF Ended, TypeOK, Claim
<1>3. id \in DOMAIN claims' \ DOMAIN claims /\ claims'[id].task = t /\ claims'[id].agent = a
  BY <1>1
<1>4. \A d \in HoldersOf(t) : d \in DOMAIN claims /\ claims'[d].released # "no"
  BY <1>2 DEF Acquire, OneActivePerTask, HoldersOf
<1>5. \A d \in DOMAIN claims : Held(d) /\ claims'[d].released = "takeover" =>
        takeover /\ d \in HoldersOf(t)
  BY <1>2 DEF Displaced, Held
<1> QED
  BY <1>3, <1>4, <1>5

(* The displaced claim, its approval and its successor change together.      *)
THEOREM TakeoversAtomic == Spec => TakeoverIsAtomic
<1> DEFINE Atomic ==
      /\ \A c \in DOMAIN claims :
           Held(c) /\ claims'[c].released = "takeover" => \E a \in Agents : <<c, a>> \in grants \ grants'
      /\ \A c \in DOMAIN claims, a \in Agents :
           <<c, a>> \in grants \ grants'
             => \E d \in DOMAIN claims' \ DOMAIN claims :
                  /\ Held(c) /\ claims'[c].released # "no"
                  /\ claims'[d].task = claims[c].task
                  /\ claims'[d].agent = a
<1>1. TypeOK /\ OneOwner /\ [Next]_vars => [Atomic]_vars
  <2> SUFFICES ASSUME TypeOK, OneOwner, Next  PROVE Atomic
    OBVIOUS
  <2>1. ASSUME grants \subseteq grants',
               \A d \in DOMAIN claims : Held(d) => claims'[d].released # "takeover"
        PROVE  Atomic
    BY <2>1
  <2>2. ASSUME grants' = grants, claims' = claims
        PROVE  Atomic
    BY <2>1, <2>2 DEF Held
  <2>3. ASSUME grants' = grants, NEW c \in DOMAIN claims, NEW why \in Released,
               why # "takeover", claims' = [claims EXCEPT ![c] = Ended(c, why, now)]
        PROVE  Atomic
    BY <2>1, <2>3, EndedWhy
  <2>4. ASSUME NEW t, NEW b, NEW S, NEW override, NEW read, NEW later,
               RefuseAfterLapse(t, b, S, override, read, later)
        PROVE  Atomic
    <3>1. grants' = grants
      BY <2>4 DEF RefuseAfterLapse
    <3>2. \A d \in DOMAIN claims : Held(d) => claims'[d].released # "takeover"
      BY <2>4 DEF RefuseAfterLapse, Ended, TypeOK, Claim, Held
    <3> QED
      BY <2>1, <3>1, <3>2
  <2>5. ASSUME NEW t \in Tasks, NEW a \in Agents, NEW b, NEW S, NEW secs, NEW override, NEW own,
               NEW read, NEW later, grants' = grants,
               Acquire(t, a, b, S, secs, override, own, FALSE, read, later)
        PROVE  Atomic
    BY <2>1, <2>5, AcquireEnds
  <2>6. ASSUME NEW t \in Tasks, NEW a \in Agents, NEW c, Displacing(t, a, c)
        PROVE  Atomic
    BY <2>6 DEF Displacing, HoldersOf
  <2>7. ASSUME NEW t \in Tasks, NEW a \in Agents, NEW b \in Branches,
               NEW S \in (SUBSET Globs) \ {{}}, ClaimTask(t, a, b, S)
        PROVE  Atomic
    <3>1. PICK secs \in Leases, override \in BOOLEAN, later \in Instants :
            \/ /\ Acquire(t, a, b, S, secs, override, {}, FALSE, now, later)
               /\ UNCHANGED <<handoffs, grants>>
            \/ RefuseAfterLapse(t, b, S, override, now, later)
      BY <2>7 DEF ClaimTask
    <3> QED
      BY <2>4, <2>5, <3>1
  <2>8. ASSUME NEW t \in Tasks, NEW a \in Agents, NEW b \in Branches,
               NEW S \in (SUBSET Globs) \ {{}}, Takeover(t, a, b, S)
        PROVE  Atomic
    <3>1. PICK c \in HoldersOf(t), secs \in Leases, override \in BOOLEAN, later \in Instants :
            \E read \in {now, later} :
              /\ Live(c, now)
              /\ <<c, a>> \in grants
              /\ \/ /\ Acquire(t, a, b, S, secs, override, {}, TRUE, read, later)
                    /\ grants' = grants \ {<<c, a>>}
                    /\ UNCHANGED handoffs
                 \/ RefuseAfterLapse(t, b, S, override, read, later)
      BY <2>8, Zenon DEF Takeover
    <3>2. PICK read \in {now, later} :
              /\ Live(c, now)
              /\ <<c, a>> \in grants
              /\ \/ /\ Acquire(t, a, b, S, secs, override, {}, TRUE, read, later)
                    /\ grants' = grants \ {<<c, a>>}
                    /\ UNCHANGED handoffs
                 \/ RefuseAfterLapse(t, b, S, override, read, later)
      BY <3>1
    <3>3. CASE /\ Acquire(t, a, b, S, secs, override, {}, TRUE, read, later)
               /\ grants' = grants \ {<<c, a>>}
      <4>1. \A d \in HoldersOf(t) : d = c
        BY DEF OneOwner, OneOwnerOf
      <4>2. Displacing(t, a, c)
        BY <3>2, <3>3, <4>1, AcquireEnds DEF Displacing
      <4> QED
        BY <2>6, <4>2
    <3> QED
      BY <2>4, <3>2, <3>3
  <2>9. ASSUME NEW t \in Tasks, NEW a \in Agents, CompleteTask(t, a) \/ ReopenTask(t, a)
        PROVE  Atomic
    BY <2>2, <2>3, <2>9 DEF CompleteTask, ReopenTask, HoldersOf, Released
  <2>10. ASSUME NEW c \in DOMAIN claims, NEW a \in Agents, ReleaseClaim(c, a)
         PROVE  Atomic
    BY <2>3, <2>10 DEF ReleaseClaim, Released
  <2>11. ASSUME NEW c \in DOMAIN claims, NEW a \in Agents, NEW to \in Agents \cup {Nobody},
                CreateHandoff(c, a, to)
         PROVE  Atomic
    BY <2>3, <2>11 DEF CreateHandoff, Released
  <2>12. ASSUME NEW c \in DOMAIN claims, NEW a \in Agents, RenewClaim(c, a)
         PROVE  Atomic
    <3>1. \A d \in DOMAIN claims : claims'[d].released = claims[d].released
      BY <2>12 DEF RenewClaim, TypeOK, Claim
    <3> QED
      BY <2>1, <2>12, <3>1 DEF RenewClaim, Held
  <2>13. ASSUME NEW c \in DOMAIN claims, NEW a \in Agents, ApproveTakeover(c, a)
         PROVE  Atomic
    BY <2>1, <2>13 DEF ApproveTakeover, Held
  <2>14. ASSUME NEW h \in DOMAIN handoffs, NEW a \in Agents, AcceptHandoff(h, a)
         PROVE  Atomic
    <3>1. HandoffTask(h) \in Tasks
      BY DEF TypeOK, HandoffTask, Claim
    <3> QED
      BY <2>5, <2>14, <3>1 DEF AcceptHandoff
  <2>15. ASSUME NEW h \in DOMAIN handoffs, NEW a \in Agents, DeclineHandoff(h, a) \/ CancelHandoff(h, a)
         PROVE  Atomic
    BY <2>2, <2>15 DEF DeclineHandoff, CancelHandoff, Resolve
  <2>16. CASE Tick \/ \E t \in Tasks : CreateTask(t)
    BY <2>2, <2>16 DEF Tick, CreateTask
  <2> HIDE DEF Atomic
  <2> QED
    BY <2>7, <2>8, <2>9, <2>10, <2>11, <2>12, <2>13, <2>14, <2>15, <2>16, Zenon DEF Next
<1> QED
  BY <1>1, TypeCorrect, AtMostOneOwner, PTL DEF Spec, TakeoverIsAtomic

-----------------------------------------------------------------------------
(* Ownership implements TaskBoard. *)

(* A step that concerns no task but t. *)
OnlyTask(t) ==
  /\ DOMAIN claims \subseteq DOMAIN claims'
  /\ \A c \in DOMAIN claims :
       /\ claims'[c].task = claims[c].task /\ claims'[c].agent = claims[c].agent
       /\ claims[c].task # t => claims'[c] = claims[c]
  /\ \A c \in DOMAIN claims' \ DOMAIN claims : claims'[c].task = t
  /\ DOMAIN handoffs \subseteq DOMAIN handoffs'
  /\ \A h \in DOMAIN handoffs :
       /\ handoffs'[h].claim = handoffs[h].claim
       /\ HandoffTask(h) # t => handoffs'[h] = handoffs[h]
  /\ \A h \in DOMAIN handoffs' \ DOMAIN handoffs :
       handoffs'[h].claim \in DOMAIN claims /\ claims[handoffs'[h].claim].task = t
  /\ \A u \in Tasks \ {t} : status'[u] = status[u]

Owners(t) == {claims[c].agent : c \in HoldersOf(t)}
Offered(h) == <<claims[handoffs[h].claim].agent, handoffs[h].to>>
Offers(t) == {Offered(h) : h \in OpenFor(t)}

LEMMA BoardIs ==
  ASSUME NEW t \in Tasks
  PROVE  Board[t].st = status[t] /\ Board[t].owners = Owners(t) /\ Board[t].offers = Offers(t)
BY DEF Board, Owners, Offers, Offered

(* The other tasks look as before. *)
LEMMA OthersLookSame ==
  ASSUME TypeOK, NEW t, OnlyTask(t), NEW u \in Tasks \ {t}
  PROVE  status'[u] = status[u] /\ Owners(u)' = Owners(u) /\ Offers(u)' = Offers(u)
<1>1. HoldersOf(u)' = HoldersOf(u) /\ \A c \in HoldersOf(u) : claims'[c] = claims[c]
  BY DEF OnlyTask, HoldersOf, Held
<1>2. \A h \in DOMAIN handoffs : HandoffTask(h)' = HandoffTask(h) /\ handoffs[h].claim \in DOMAIN claims
  BY DEF OnlyTask, HandoffTask, TypeOK
<1>3. \A h \in DOMAIN handoffs' \ DOMAIN handoffs : HandoffTask(h)' = t
  BY DEF OnlyTask, HandoffTask
<1>4. OpenFor(u)' = OpenFor(u) /\ \A h \in OpenFor(u) : handoffs'[h] = handoffs[h]
  BY <1>2, <1>3 DEF OnlyTask, OpenFor, OpenHandoffs
<1>5. \A h \in OpenFor(u) : claims'[handoffs'[h].claim].agent = claims[handoffs[h].claim].agent
  BY <1>2, <1>4 DEF OnlyTask, OpenFor, OpenHandoffs
<1>6. Owners(u)' = Owners(u)
  BY <1>1 DEF Owners
<1>7. Offers(u)' = Offers(u)
  BY <1>4, <1>5 DEF Offers, Offered
<1> QED
  BY <1>6, <1>7 DEF OnlyTask

LEMMA Becomes ==
  ASSUME TypeOK, NEW t \in Tasks, OnlyTask(t)
  PROVE  TB!Become(t, status'[t], Owners(t)', Offers(t)')
<1>1. Board' = [u \in Tasks |-> [st |-> status'[u], owners |-> Owners(u)', offers |-> Offers(u)']]
  BY DEF Board, Owners, Offers, Offered, HoldersOf, Held, OpenFor, OpenHandoffs, HandoffTask
<1>2. Board = [u \in Tasks |-> [st |-> status[u], owners |-> Owners(u), offers |-> Offers(u)]]
  BY DEF Board, Owners, Offers, Offered, HoldersOf, Held, OpenFor, OpenHandoffs, HandoffTask
<1>3. \A u \in Tasks \ {t} :
        status'[u] = status[u] /\ Owners(u)' = Owners(u) /\ Offers(u)' = Offers(u)
  BY OthersLookSame
<1>4. Board' = [Board EXCEPT ![t] =
                 [st |-> status'[t], owners |-> Owners(t)', offers |-> Offers(t)']]
  BY <1>1, <1>2, <1>3
<1> QED
  BY <1>4 DEF TB!Become

(* Without holders there are no owners, without open handoffs no offers. *)
LEMMA NothingShown ==
  ASSUME NEW t
  PROVE  /\ HoldersOf(t) = {} => Owners(t) = {}
         /\ OpenFor(t) = {} => Offers(t) = {}
BY DEF Owners, Offers

LEMMA NothingShownNext ==
  ASSUME NEW t
  PROVE  /\ HoldersOf(t)' = {} => Owners(t)' = {}
         /\ OpenFor(t)' = {} => Offers(t)' = {}
BY DEF Owners, Offers

----------------------------------------------------------------------------
(* Granting a claim *)

LEMMA AcquireBoard ==
  ASSUME TypeOK, OneOwner,
         NEW t \in Tasks, NEW a \in Agents, NEW b, NEW S, NEW secs, NEW override, NEW own,
         NEW takeover \in BOOLEAN, NEW read, NEW later,
         Acquire(t, a, b, S, secs, override, own, takeover, read, later),
         DOMAIN handoffs' = DOMAIN handoffs,
         \A h \in DOMAIN handoffs : handoffs'[h].claim = handoffs[h].claim,
         \A h \in DOMAIN handoffs : HandoffTask(h) # t => handoffs'[h] = handoffs[h],
         \A h \in DOMAIN handoffs : HandoffTask(h) = t => handoffs'[h].status # "open"
  PROVE  TB!Become(t, "claimed", {a}, {})
<1> DEFINE gone == Lapsed(t, read) \cup Displaced(t, read, takeover)
           class == Classify(t, b, S, gone, later)
<1>1. PICK id \in ClaimIds \ DOMAIN claims :
        claims' = [x \in DOMAIN claims \cup {id} |->
            IF x = id
              THEN [task |-> t, agent |-> a, branch |-> b, scopes |-> S,
                    lease |-> later + secs, override |-> class = "OVERLAPPING",
                    released |-> "no", late |-> FALSE]
            ELSE IF x \in Lapsed(t, read) THEN Ended(x, "lease_expired", later)
            ELSE IF x \in Displaced(t, read, takeover) THEN Ended(x, "takeover", later)
            ELSE claims[x]]
  BY DEF Acquire
<1>2. gone = HoldersOf(t)
  BY DEF Acquire, OneActivePerTask, Lapsed, Displaced
<1> HIDE DEF class
<1>3. /\ DOMAIN claims' = DOMAIN claims \cup {id} /\ id \notin DOMAIN claims
      /\ claims'[id].task = t /\ claims'[id].released = "no" /\ claims'[id].agent = a
  BY <1>1
<1>4. ASSUME NEW c \in DOMAIN claims
      PROVE  /\ claims'[c].task = claims[c].task /\ claims'[c].agent = claims[c].agent
             /\ c \in gone => claims'[c].released # "no"
             /\ c \notin gone => claims'[c] = claims[c]
  <2>1. c # id /\ c \in DOMAIN claims \cup {id}
    BY <1>3
  <2>2. claims'[c] = IF c \in Lapsed(t, read) THEN Ended(c, "lease_expired", later)
                     ELSE IF c \in Displaced(t, read, takeover) THEN Ended(c, "takeover", later)
                     ELSE claims[c]
    BY <1>1, <2>1
  <2>3. ASSUME NEW r
        PROVE  /\ Ended(c, r, later).task = claims[c].task
               /\ Ended(c, r, later).agent = claims[c].agent
               /\ Ended(c, r, later).released = r
    BY DEF Ended, TypeOK, Claim
  <2> QED
    BY <2>2, <2>3
<1>5. HoldersOf(t)' = {id}
  BY <1>2, <1>3, <1>4 DEF HoldersOf, Held
<1>6. \A h \in DOMAIN handoffs : HandoffTask(h)' = HandoffTask(h)
  BY <1>4 DEF HandoffTask, TypeOK
<1>7. OpenFor(t)' = {}
  BY <1>6 DEF OpenFor, OpenHandoffs
<1>8. status'[t] = "claimed" /\ \A u \in Tasks \ {t} : status'[u] = status[u]
  BY DEF Acquire, TypeOK
<1>9. \A c \in DOMAIN claims : claims[c].task # t => claims'[c] = claims[c]
  BY <1>2, <1>4 DEF HoldersOf
<1>10. OnlyTask(t)
  BY <1>3, <1>4, <1>8, <1>9 DEF OnlyTask
<1>11. Owners(t)' = {a}
  BY <1>3, <1>5 DEF Owners
<1>12. Offers(t)' = {}
  BY <1>7, NothingShownNext
<1> QED
  BY <1>8, <1>10, <1>11, <1>12, Becomes

LEMMA ClaimBoard ==
  ASSUME TypeOK, OneOwner, NEW t \in Tasks, NEW a \in Agents, NEW b, NEW S, NEW secs, NEW override,
         NEW takeover \in BOOLEAN, NEW read, NEW later,
         Acquire(t, a, b, S, secs, override, {}, takeover, read, later), handoffs' = handoffs
  PROVE  TB!Take(t, a)
<1>1. \A h \in DOMAIN handoffs : HandoffTask(h) = t => handoffs[h].status # "open"
  BY DEF Acquire, Claimable, OpenFor, OpenHandoffs
<1>2. TB!Become(t, "claimed", {a}, {})
  BY <1>1, AcquireBoard
<1>3. status[t] \in {"open", "claimed"}
  BY DEF Acquire, Claimable, OneOwner, OneOwnerOf, TypeOK
<1>4. Board[t].st = status[t]
  BY BoardIs
<1> QED
  BY <1>2, <1>3, <1>4 DEF TB!Take

LEMMA AcceptBoard ==
  ASSUME TypeOK, OneOwner, NEW h \in DOMAIN handoffs, NEW a \in Agents, AcceptHandoff(h, a)
  PROVE  TB!Take(HandoffTask(h), a)
<1>0. PICK t \in Tasks : t = HandoffTask(h)
  BY DEF TypeOK, HandoffTask, Claim
<1> DEFINE c == handoffs[h].claim
<1>1. PICK secs \in Leases, later \in Instants :
        Acquire(t, a, claims[c].branch, claims[c].scopes, secs, TRUE, {h}, FALSE, now, later)
  BY <1>0 DEF AcceptHandoff
<1>2. c \in DOMAIN claims /\ claims[c].agent \in Agents
  BY DEF TypeOK, HandoffTask, Claim
<1>3. /\ handoffs' = [handoffs EXCEPT ![h].status = "accepted", ![h].to = a]
      /\ h \in OpenHandoffs /\ handoffs[h].to \in {Nobody, a}
  BY DEF AcceptHandoff
<1>4. \A g \in DOMAIN handoffs : /\ handoffs'[g].claim = handoffs[g].claim
                                 /\ g # h => handoffs'[g] = handoffs[g]
                                 /\ g = h => handoffs'[g].status = "accepted"
  BY <1>3 DEF TypeOK, Handoff
<1>5. OpenFor(t) = {h}
  BY <1>0, <1>3 DEF OpenFor, OneOwner, OneOwnerOf
<1>6. \A g \in DOMAIN handoffs :
        /\ HandoffTask(g) # t => handoffs'[g] = handoffs[g]
        /\ HandoffTask(g) = t => handoffs'[g].status # "open"
  BY <1>4, <1>5 DEF OpenFor, OpenHandoffs
<1>7. TB!Become(t, "claimed", {a}, {})
  <2>1. DOMAIN handoffs' = DOMAIN handoffs
    BY <1>3
  <2> QED
    BY <1>1, <1>2, <1>4, <1>6, <2>1, AcquireBoard
<1>8. status[t] = "handoff"
  BY <1>2, <1>5 DEF OneOwner, OneOwnerOf
<1>9. Offers(t) = {<<claims[c].agent, handoffs[h].to>>}
  BY <1>5 DEF Offers, Offered
<1>10. \E from \in Agents : Board[t].offers \in {{<<from, a>>}, {<<from, Nobody>>}}
  BY <1>2, <1>3, <1>9, BoardIs
<1>11. Board[t].st = "handoff"
  BY <1>8, BoardIs
<1> QED
  BY <1>0, <1>7, <1>10, <1>11 DEF TB!Take

----------------------------------------------------------------------------
(* Ending a claim, and the rest *)

(* The one claim of a task ends and the task is open, offered or done. *)
LEMMA EndBoard ==
  ASSUME TypeOK, OneOwner, NEW t \in Tasks, NEW c \in HoldersOf(t), NEW why \in Released, NEW time,
         claims' = [claims EXCEPT ![c] = Ended(c, why, time)]
  PROVE  /\ HoldersOf(t)' = {} /\ Owners(t)' = {}
         /\ Board[t].st = "claimed" /\ Board[t].owners = {claims[c].agent}
         /\ DOMAIN claims' = DOMAIN claims
         /\ \A d \in DOMAIN claims :
              /\ claims'[d].task = claims[d].task /\ claims'[d].agent = claims[d].agent
              /\ claims[d].task # t => claims'[d] = claims[d]
<1>1. c \in DOMAIN claims /\ claims[c].task = t
  BY DEF HoldersOf
<1>2. \A d \in DOMAIN claims :
        /\ claims'[d].task = claims[d].task /\ claims'[d].agent = claims[d].agent
        /\ d # c => claims'[d] = claims[d]
        /\ d = c => claims'[d].released # "no"
  BY <1>1 DEF Ended, TypeOK, Claim, Released
<1>3. DOMAIN claims' = DOMAIN claims
  OBVIOUS
<1>4. HoldersOf(t) = {c} /\ status[t] = "claimed"
  BY DEF OneOwner, OneOwnerOf
<1>5. HoldersOf(t)' = {}
  BY <1>2, <1>3, <1>4 DEF HoldersOf, Held
<1>6. Owners(t) = {claims[c].agent}
  BY <1>4 DEF Owners
<1>7. Owners(t)' = {}
  BY <1>5, NothingShownNext
<1>8. Board[t].st = "claimed" /\ Board[t].owners = {claims[c].agent}
  BY <1>4, <1>6, BoardIs
<1> QED
  BY <1>1, <1>2, <1>3, <1>5, <1>7, <1>8

LEMMA EndedBoard ==
  ASSUME TypeOK, OneOwner, NEW t \in Tasks, NEW c \in HoldersOf(t), NEW why \in Released, NEW time,
         NEW st \in {"open", "done"},
         claims' = [claims EXCEPT ![c] = Ended(c, why, time)],
         status' = [status EXCEPT ![t] = st], handoffs' = handoffs
  PROVE  Board[t].st = "claimed" /\ TB!Become(t, st, {}, {})
<1>1. status'[t] = st /\ \A u \in Tasks \ {t} : status'[u] = status[u]
  BY DEF TypeOK
<1>2. OnlyTask(t)
  BY <1>1, EndBoard DEF OnlyTask
<1>3. OpenFor(t)' = {}
  <2>1. OpenFor(t) = {}
    BY DEF OneOwner, OneOwnerOf
  <2>2. \A h \in DOMAIN handoffs : HandoffTask(h)' = HandoffTask(h)
    BY <1>2 DEF OnlyTask, HandoffTask, TypeOK
  <2> QED
    BY <2>1, <2>2 DEF OpenFor, OpenHandoffs
<1>4. Owners(t)' = {} /\ Offers(t)' = {}
  BY <1>3, EndBoard, NothingShownNext
<1> QED
  BY <1>1, <1>2, <1>4, EndBoard, Becomes

LEMMA RefuseBoard ==
  ASSUME TypeOK, OneOwner, NEW t \in Tasks, NEW b, NEW S, NEW override, NEW read, NEW later,
         RefuseAfterLapse(t, b, S, override, read, later)
  PROVE  TB!Drop(t)
<1>1. PICK c \in HoldersOf(t) : c \in Lapsed(t, read)
  BY DEF RefuseAfterLapse, Lapsed
<1>2. Lapsed(t, read) = {c} /\ c \in DOMAIN claims
  BY <1>1 DEF Lapsed, HoldersOf, OneOwner, OneOwnerOf
<1>3. claims' = [claims EXCEPT ![c] = Ended(c, "lease_expired", later)]
  BY <1>2 DEF RefuseAfterLapse, TypeOK
<1> QED
  BY <1>3, EndedBoard DEF RefuseAfterLapse, Released, TB!Drop

LEMMA OfferBoard ==
  ASSUME TypeOK, OneOwner, NEW c \in DOMAIN claims, NEW a \in Agents,
         NEW to \in Agents \cup {Nobody}, CreateHandoff(c, a, to)
  PROVE  TB!Offer(claims[c].task, a, to)
<1>0. PICK t \in Tasks : t = claims[c].task
  BY DEF TypeOK, Claim
<1>1. c \in HoldersOf(t) /\ claims[c].agent = a
  BY <1>0 DEF CreateHandoff, HoldersOf
<1>2. PICK h \in HandoffIds \ DOMAIN handoffs :
        handoffs' = Put(handoffs, h, [claim |-> c, to |-> to, status |-> "open"])
  BY DEF CreateHandoff
<1>3. claims' = [claims EXCEPT ![c] = Ended(c, "handoff", now)]
  BY DEF CreateHandoff
<1>4. status'[t] = "handoff" /\ \A u \in Tasks \ {t} : status'[u] = status[u]
  BY <1>0 DEF CreateHandoff, TypeOK
<1>5. /\ DOMAIN handoffs' = DOMAIN handoffs \cup {h}
      /\ handoffs'[h] = [claim |-> c, to |-> to, status |-> "open"]
      /\ \A g \in DOMAIN handoffs : handoffs'[g] = handoffs[g]
  BY <1>2 DEF Put
<1>6. /\ HoldersOf(t)' = {} /\ Owners(t)' = {}
      /\ Board[t].st = "claimed" /\ Board[t].owners = {a}
      /\ DOMAIN claims' = DOMAIN claims
      /\ \A d \in DOMAIN claims :
           /\ claims'[d].task = claims[d].task /\ claims'[d].agent = claims[d].agent
           /\ claims[d].task # t => claims'[d] = claims[d]
  BY <1>1, <1>3, EndBoard DEF Released
<1>7. OnlyTask(t)
  BY <1>0, <1>4, <1>5, <1>6 DEF OnlyTask
<1>8. OpenFor(t)' = {h}
  <2>1. OpenFor(t) = {}
    BY <1>1 DEF OneOwner, OneOwnerOf
  <2>2. /\ HandoffTask(h)' = t
        /\ \A g \in DOMAIN handoffs : HandoffTask(g)' = HandoffTask(g)
    BY <1>0, <1>5, <1>6 DEF HandoffTask, TypeOK
  <2> QED
    BY <1>5, <2>1, <2>2 DEF OpenFor, OpenHandoffs
<1>9. Offers(t)' = {<<a, to>>}
  <2>1. claims'[handoffs'[h].claim].agent = a /\ handoffs'[h].to = to
    BY <1>1, <1>5, <1>6
  <2> QED
    BY <1>8, <2>1 DEF Offers, Offered
<1>10. TB!Become(t, "handoff", {}, {<<a, to>>})
  <2>1. TB!Become(t, status'[t], Owners(t)', Offers(t)')
    BY <1>7, Becomes
  <2> QED
    BY <1>4, <1>6, <1>9, <2>1
<1> QED
  BY <1>0, <1>6, <1>10 DEF TB!Offer

LEMMA WithdrawBoard ==
  ASSUME TypeOK, OneOwner, NEW h \in OpenHandoffs, NEW outcome \in {"declined", "cancelled"},
         Resolve(h, outcome)
  PROVE  TB!Withdraw(HandoffTask(h))
<1>0. PICK t \in Tasks : t = HandoffTask(h)
  BY DEF TypeOK, HandoffTask, Claim, OpenHandoffs
<1>1. h \in DOMAIN handoffs /\ h \in OpenFor(t)
  BY <1>0 DEF OpenHandoffs, OpenFor
<1>2. OpenFor(t) = {h} /\ status[t] = "handoff" /\ HoldersOf(t) = {}
  BY <1>1 DEF OneOwner, OneOwnerOf
<1>3. /\ status'[t] = "open" /\ \A u \in Tasks \ {t} : status'[u] = status[u]
      /\ claims' = claims /\ DOMAIN handoffs' = DOMAIN handoffs
  BY <1>0 DEF Resolve, TypeOK
<1>4. \A g \in DOMAIN handoffs : /\ handoffs'[g].claim = handoffs[g].claim
                                 /\ g # h => handoffs'[g] = handoffs[g]
                                 /\ g = h => handoffs'[g].status # "open"
  BY DEF Resolve, TypeOK, Handoff
<1>5. OnlyTask(t)
  BY <1>0, <1>3, <1>4 DEF OnlyTask, HandoffTask
<1>6. HoldersOf(t)' = {}
  BY <1>2, <1>3 DEF HoldersOf, Held
<1>7. OpenFor(t)' = {}
  <2>1. \A g \in DOMAIN handoffs : HandoffTask(g)' = HandoffTask(g)
    BY <1>3, <1>4 DEF HandoffTask
  <2> QED
    BY <1>2, <1>3, <1>4, <2>1 DEF OpenFor, OpenHandoffs
<1>8. TB!Become(t, "open", {}, {})
  <2>1. TB!Become(t, status'[t], Owners(t)', Offers(t)')
    BY <1>5, Becomes
  <2>2. Owners(t)' = {} /\ Offers(t)' = {}
    BY <1>6, <1>7, NothingShownNext
  <2> QED
    BY <1>3, <2>1, <2>2
<1>9. Board[t].st = "handoff"
  BY <1>2, BoardIs
<1> QED
  BY <1>0, <1>8, <1>9 DEF TB!Withdraw

(* Opening a task that has neither claim nor handoff. *)
LEMMA OpenBoard ==
  ASSUME TypeOK, OneOwner, NEW t \in Tasks, status[t] \in {"absent", "done"},
         status' = [status EXCEPT ![t] = "open"], UNCHANGED <<claims, handoffs>>
  PROVE  Board[t].st = status[t] /\ TB!Become(t, "open", {}, {})
<1>1. HoldersOf(t) = {} /\ OpenFor(t) = {}
  BY DEF OneOwner, OneOwnerOf
<1>2. HoldersOf(t)' = {} /\ OpenFor(t)' = {}
  BY <1>1 DEF HoldersOf, Held, OpenFor, OpenHandoffs, HandoffTask
<1>3. status'[t] = "open" /\ OnlyTask(t)
  BY DEF TypeOK, OnlyTask
<1>4. Owners(t)' = {} /\ Offers(t)' = {}
  BY <1>2, NothingShownNext
<1>5. TB!Become(t, status'[t], Owners(t)', Offers(t)')
  BY <1>3, Becomes
<1> QED
  BY <1>3, <1>4, <1>5, BoardIs

LEMMA SameBoard ==
  ASSUME TypeOK, UNCHANGED <<status, handoffs>>, DOMAIN claims' = DOMAIN claims,
         \A c \in DOMAIN claims : /\ claims'[c].task = claims[c].task
                                  /\ claims'[c].agent = claims[c].agent
                                  /\ claims'[c].released = claims[c].released
  PROVE  Board' = Board
<1>1. ASSUME NEW t \in Tasks  PROVE Owners(t)' = Owners(t) /\ Offers(t)' = Offers(t)
  <2>1. HoldersOf(t)' = HoldersOf(t) /\ \A c \in HoldersOf(t) : claims'[c].agent = claims[c].agent
    BY DEF HoldersOf, Held
  <2>2. \A h \in DOMAIN handoffs :
          HandoffTask(h)' = HandoffTask(h)
            /\ claims'[handoffs'[h].claim].agent = claims[handoffs[h].claim].agent
    BY DEF HandoffTask, TypeOK
  <2>3. OpenFor(t)' = OpenFor(t) /\ OpenFor(t) \subseteq DOMAIN handoffs
    BY <2>2 DEF OpenFor, OpenHandoffs
  <2>4. Owners(t)' = Owners(t)
    BY <2>1 DEF Owners
  <2>5. Offers(t)' = Offers(t)
    BY <2>2, <2>3 DEF Offers, Offered
  <2> QED
    BY <2>4, <2>5
<1>2. Board' = [u \in Tasks |-> [st |-> status'[u], owners |-> Owners(u)', offers |-> Offers(u)']]
  BY DEF Board, Owners, Offers, Offered, HoldersOf, Held, OpenFor, OpenHandoffs, HandoffTask
<1>3. Board = [u \in Tasks |-> [st |-> status[u], owners |-> Owners(u), offers |-> Offers(u)]]
  BY DEF Board, Owners, Offers, Offered, HoldersOf, Held, OpenFor, OpenHandoffs, HandoffTask
<1> QED
  BY <1>1, <1>2, <1>3

----------------------------------------------------------------------------
LEMMA BoardStep == TypeOK /\ OneOwner /\ [Next]_vars => [TB!BoardNext]_Board
<1> SUFFICES ASSUME TypeOK, OneOwner, [Next]_vars  PROVE TB!BoardNext \/ Board' = Board
  OBVIOUS
<1>1. CASE UNCHANGED vars
  BY <1>1, SameBoard DEF vars
<1>2. CASE Tick
  BY <1>2, SameBoard DEF Tick
<1>3. ASSUME NEW t \in Tasks, CreateTask(t)  PROVE TB!BoardNext
  BY <1>3, OpenBoard DEF CreateTask, TB!Create, TB!BoardNext
<1>4. ASSUME NEW t \in Tasks, NEW a \in Agents, ReopenTask(t, a)  PROVE TB!BoardNext
  BY <1>4, OpenBoard DEF ReopenTask, TB!Reopen, TB!BoardNext
<1>5. ASSUME NEW t \in Tasks, NEW a \in Agents, NEW b \in Branches, NEW S \in (SUBSET Globs) \ {{}},
             ClaimTask(t, a, b, S) \/ Takeover(t, a, b, S)
      PROVE  TB!BoardNext
  <2>1. PICK secs \in Leases, override \in BOOLEAN, later \in Instants :
          \E takeover \in BOOLEAN, read \in {now, later} :
            \/ Acquire(t, a, b, S, secs, override, {}, takeover, read, later) /\ handoffs' = handoffs
            \/ RefuseAfterLapse(t, b, S, override, read, later)
    BY <1>5 DEF ClaimTask, Takeover
  <2>2. PICK takeover \in BOOLEAN, read \in {now, later} :
          \/ Acquire(t, a, b, S, secs, override, {}, takeover, read, later) /\ handoffs' = handoffs
          \/ RefuseAfterLapse(t, b, S, override, read, later)
    BY <2>1
  <2>3. TB!Take(t, a) \/ TB!Drop(t)
    BY <2>2, ClaimBoard, RefuseBoard
  <2> QED
    BY <2>3 DEF TB!BoardNext
<1>6. ASSUME NEW t \in Tasks, NEW a \in Agents, CompleteTask(t, a)  PROVE TB!BoardNext
  <2>1. PICK c \in HoldersOf(t) :
          /\ claims' = [claims EXCEPT ![c] = Ended(c, "done", now)]
          /\ status' = [status EXCEPT ![t] = "done"]
          /\ handoffs' = handoffs
    BY <1>6 DEF CompleteTask
  <2>2. TB!Finish(t)
    BY <2>1, EndedBoard DEF Released, TB!Finish
  <2> QED
    BY <2>2 DEF TB!BoardNext
<1>7. ASSUME NEW c \in DOMAIN claims, NEW a \in Agents, ReleaseClaim(c, a)  PROVE TB!BoardNext
  <2>1. claims[c].task \in Tasks /\ c \in HoldersOf(claims[c].task)
    BY <1>7 DEF ReleaseClaim, HoldersOf, TypeOK, Claim
  <2>2. TB!Drop(claims[c].task)
    BY <1>7, <2>1, EndedBoard DEF ReleaseClaim, Released, TB!Drop
  <2> QED
    BY <2>1, <2>2 DEF TB!BoardNext
<1>8. ASSUME NEW c \in DOMAIN claims, NEW a \in Agents, RenewClaim(c, a)  PROVE Board' = Board
  <2>1. \A d \in DOMAIN claims : /\ claims'[d].task = claims[d].task
                                 /\ claims'[d].agent = claims[d].agent
                                 /\ claims'[d].released = claims[d].released
    BY <1>8 DEF RenewClaim, TypeOK, Claim
  <2> QED
    BY <1>8, <2>1, SameBoard DEF RenewClaim
<1>9. ASSUME NEW c \in DOMAIN claims, NEW a \in Agents, ApproveTakeover(c, a)  PROVE Board' = Board
  BY <1>9, SameBoard DEF ApproveTakeover
<1>10. ASSUME NEW c \in DOMAIN claims, NEW a \in Agents, NEW to \in Agents \cup {Nobody},
              CreateHandoff(c, a, to)
       PROVE  TB!BoardNext
  <2>1. claims[c].task \in Tasks
    BY DEF TypeOK, Claim
  <2> QED
    BY <1>10, <2>1, OfferBoard DEF TB!BoardNext
<1>11. ASSUME NEW h \in DOMAIN handoffs, NEW a \in Agents,
              AcceptHandoff(h, a) \/ DeclineHandoff(h, a) \/ CancelHandoff(h, a)
       PROVE  TB!BoardNext
  <2>1. HandoffTask(h) \in Tasks
    BY DEF TypeOK, HandoffTask, Claim
  <2>2. TB!Take(HandoffTask(h), a) \/ TB!Withdraw(HandoffTask(h))
    BY <1>11, AcceptBoard, WithdrawBoard DEF DeclineHandoff, CancelHandoff
  <2> QED
    BY <2>1, <2>2 DEF TB!BoardNext
<1> QED
  BY <1>1, <1>2, <1>3, <1>4, <1>5, <1>6, <1>7, <1>8, <1>9, <1>10, <1>11, Zenon DEF Next

(* Tasks, claims and handoffs together are a task board: one owner at most, *)
(* an offer excludes owners, and only an owner finishes a task.             *)
THEOREM TaskBoardImplemented == Spec => ImplementsTaskBoard
<1>1. Init => TB!BoardInit
  <2> SUFFICES ASSUME Init  PROVE TB!BoardInit
    OBVIOUS
  <2>1. \A t \in Tasks : HoldersOf(t) = {} /\ OpenFor(t) = {}
    BY DEF Init, HoldersOf, OpenFor, OpenHandoffs
  <2>2. \A t \in Tasks : Owners(t) = {} /\ Offers(t) = {}
    BY <2>1, NothingShown
  <2> QED
    BY <2>2 DEF Init, TB!BoardInit, Board, Owners, Offers, Offered, HoldersOf, Held, OpenFor, OpenHandoffs, HandoffTask
<1> QED
  BY <1>1, BoardStep, TypeCorrect, AtMostOneOwner, PTL DEF Spec, ImplementsTaskBoard, TB!BoardSpec
=============================================================================
