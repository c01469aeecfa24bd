----------------------------- MODULE Ownership -----------------------------
(***************************************************************************)
(* Who owns which task, branch and scope: src/quorumgit/work.py (tasks,    *)
(* claims, leases, classification) and src/quorumgit/handoff.py.           *)
(*                                                                         *)
(* Every operation runs under BEGIN IMMEDIATE (store.py begin_immediate),  *)
(* so an action below is one committed transaction.  The clock is not      *)
(* frozen by a transaction: unixepoch() is read anew by each statement,    *)
(* and an action that reads it twice lets it advance in between.           *)
(***************************************************************************)
EXTENDS Integers, FiniteSets

CONSTANTS
  Tasks, Agents, Branches, Globs,
  ClaimIds, HandoffIds,   \* row ids: fresh when a row is inserted, never reused
  Operators,              \* agents whose role is operator
  RepoOf,                 \* the repository of each task
  Overlap,                \* pairs of globs that work.scopes_overlap relates
  Leases,                 \* lease durations an agent asks for
  Nobody,                 \* to_agent_id IS NULL
  MaxNow,                 \* bound on the clock
  MaxGrants               \* bound on the takeover approvals outstanding

ASSUME OverlapAssumption ==
  /\ Overlap \in SUBSET (Globs \X Globs)
  /\ \A f, g \in Globs : <<f, g>> \in Overlap => <<g, f>> \in Overlap
  /\ \A g \in Globs : <<g, g>> \in Overlap
ASSUME LeasesAssumption == Leases \subseteq Nat \ {0}
ASSUME BoundsAssumption == MaxNow \in Nat /\ MaxGrants \in Nat
ASSUME AgentsAssumption == Nobody \notin Agents /\ Operators \subseteq Agents

VARIABLES
  now,        \* unixepoch()
  status,     \* tasks.status
  claims,     \* the claims table with its scopes, by id
  handoffs,   \* the handoffs table, by id
  grants      \* approved, unconsumed lease_takeover operations <<claim, to_agent>>

vars == <<now, status, claims, handoffs, grants>>

(* release_reason; "no" stands for released_at IS NULL *)
Released == {"released", "handoff", "lease_expired", "takeover", "done"}

Claim ==
  [task : Tasks, agent : Agents, branch : Branches,
   scopes : (SUBSET Globs) \ {{}}, lease : Nat, override : BOOLEAN,
   released : Released \cup {"no"},
   late : BOOLEAN]        \* released_at > lease_expires_at
Handoff ==
  [claim : ClaimIds, to : Agents \cup {Nobody},
   status : {"open", "accepted", "declined", "cancelled"}]

TypeOK ==
  /\ now \in Nat
  /\ status \in [Tasks -> {"absent", "open", "claimed", "handoff", "done"}]
  /\ claims \in [DOMAIN claims -> Claim] /\ DOMAIN claims \subseteq ClaimIds
  /\ handoffs \in [DOMAIN handoffs -> Handoff] /\ DOMAIN handoffs \subseteq HandoffIds
  /\ \A h \in DOMAIN handoffs : handoffs[h].claim \in DOMAIN claims
  /\ grants \subseteq (DOMAIN claims) \X Agents

----------------------------------------------------------------------------
(* What the queries of work.py return. *)

Put(table, id, row) ==
  [x \in DOMAIN table \cup {id} |-> IF x = id THEN row ELSE table[x]]

Held(c) == c \in DOMAIN claims /\ claims[c].released = "no"
Expired(c, time) == claims[c].lease < time
Live(c, time) == Held(c) /\ ~Expired(c, time)
HoldersOf(t) == {c \in DOMAIN claims : Held(c) /\ claims[c].task = t}

OpenHandoffs == {h \in DOMAIN handoffs : handoffs[h].status = "open"}
HandoffTask(h) == claims[handoffs[h].claim].task
OpenFor(t) == {h \in OpenHandoffs : HandoffTask(h) = t}
ScopesOverlap(S, T) == \E s \in S, u \in T : <<s, u>> \in Overlap

(* Seeded bug: a reservation lapses with the lease of the claim behind it. *)
BugReservedLapses(t, b, S, own) ==
  \E h \in OpenHandoffs \ own :
    LET c == handoffs[h].claim
    IN /\ RepoOf[claims[c].task] = RepoOf[t]
       /\ ~Expired(c, now)
       /\ claims[c].branch = b \/ ScopesOverlap(claims[c].scopes, S)

(* An open handoff of the repository keeps its branch and its scopes. *)
Reserved(t, b, S, own) ==
  \E h \in OpenHandoffs \ own :
    LET c == handoffs[h].claim
    IN /\ RepoOf[claims[c].task] = RepoOf[t]
       /\ claims[c].branch = b \/ ScopesOverlap(claims[c].scopes, S)

(* Seeded bug: a lease counts as over in its last second. *)
BugLiveOthersStrict(t, time) ==
  {c \in DOMAIN claims : /\ Held(c) /\ claims[c].lease > time
                         /\ claims[c].task # t
                         /\ RepoOf[claims[c].task] = RepoOf[t]}

LiveOthers(t, time) ==
  {c \in DOMAIN claims : /\ Live(c, time)
                         /\ claims[c].task # t
                         /\ RepoOf[claims[c].task] = RepoOf[t]}

(* classify(): excluded holds the claims the caller releases in the same
   transaction. *)
Classify(t, b, S, excluded, time) ==
  LET others == LiveOthers(t, time)
  IN IF \E c \in HoldersOf(t) \ excluded : ~Expired(c, time) THEN "BLOCKED"
     ELSE IF others = {} THEN "CLEAR"
     ELSE IF \E c \in others : claims[c].branch = b THEN "CONFLICTING"
     ELSE IF \E c \in others : ScopesOverlap(claims[c].scopes, S) THEN "OVERLAPPING"
     ELSE "RELATED"

(* The instants at which the later statements of a transaction can run. *)
Instants == {time \in {now, now + 1} : time <= MaxNow}

Ended(c, why, time) ==
  [claims[c] EXCEPT !.released = why, !.late = Expired(c, time)]

----------------------------------------------------------------------------
(* claim_task(): a holder whose lease ran out by `read' is released, an
   approved takeover displaces the other one, and the rest of the
   transaction runs at `later'. *)
Lapsed(t, read) == {c \in HoldersOf(t) : Expired(c, read)}
(* Seeded bug: the holder is displaced without an approved takeover. *)
BugDisplacedAlways(t, read, takeover) == HoldersOf(t) \ Lapsed(t, read)
Displaced(t, read, takeover) == IF takeover THEN HoldersOf(t) \ Lapsed(t, read) ELSE {}

Claimable(t, b, S, own) ==
  /\ status[t] \notin {"absent", "done"}
  /\ own = {} => OpenFor(t) = {}
  /\ ~Reserved(t, b, S, own)

Permitted(class, override) ==
  class \in {"CLEAR", "RELATED"} \/ (class = "OVERLAPPING" /\ override)

(* Seeded bug: the schema lacks the unique index. *)
BugNoIndex(t, gone) == TRUE

(* The unique index claims_one_active_per_task refuses the INSERT, and the
   transaction rolls back, unless every holder is released by then. *)
OneActivePerTask(t, gone) == HoldersOf(t) \subseteq gone

Acquire(t, a, b, S, secs, override, own, takeover, read, later) ==
  LET lapsed == Lapsed(t, read)
      displaced == Displaced(t, read, takeover)
      class == Classify(t, b, S, lapsed \cup displaced, later)
  IN /\ Claimable(t, b, S, own)
     /\ Permitted(class, override)
     /\ OneActivePerTask(t, lapsed \cup displaced)
     /\ \E id \in ClaimIds \ DOMAIN claims :
          claims' = [x \in DOMAIN claims \cup {id} |->
            IF x = id
              THEN [task |-> t, agent |-> a, branch |-> b, scopes |-> S,
                    lease |-> later + secs, override |-> class = "OVERLAPPING",
                    released |-> "no", late |-> FALSE]
            ELSE IF x \in lapsed THEN Ended(x, "lease_expired", later)
            ELSE IF x \in displaced THEN Ended(x, "takeover", later)
            ELSE claims[x]]
     /\ status' = [status EXCEPT ![t] = "claimed"]
     /\ now' = later

(* cmd_claim() commits a refused claim; what it commits besides the conflict
   event is the release of a lapsed holder. *)
RefuseAfterLapse(t, b, S, override, read, later) ==
  LET lapsed == Lapsed(t, read)
  IN /\ lapsed # {}
     /\ Claimable(t, b, S, {})
     /\ Classify(t, b, S, lapsed, later) \in {"CONFLICTING", "OVERLAPPING"}
     /\ ~Permitted(Classify(t, b, S, lapsed, later), override)
     /\ claims' = [x \in DOMAIN claims |->
          IF x \in lapsed THEN Ended(x, "lease_expired", later) ELSE claims[x]]
     /\ status' = [status EXCEPT ![t] = "open"]
     /\ now' = later
     /\ UNCHANGED <<handoffs, grants>>

----------------------------------------------------------------------------
Init ==
  /\ now = 0
  /\ status = [t \in Tasks |-> "absent"]
  /\ claims = << >>
  /\ handoffs = << >>
  /\ grants = {}

Tick ==
  /\ now < MaxNow
  /\ now' = now + 1
  /\ UNCHANGED <<status, claims, handoffs, grants>>

CreateTask(t) ==
  /\ status[t] = "absent"
  /\ status' = [status EXCEPT ![t] = "open"]
  /\ UNCHANGED <<now, claims, handoffs, grants>>

ClaimTask(t, a, b, S) ==
  \E secs \in Leases, override \in BOOLEAN, later \in Instants :
    \/ /\ Acquire(t, a, b, S, secs, override, {}, FALSE, now, later)
       /\ UNCHANGED <<handoffs, grants>>
    \/ RefuseAfterLapse(t, b, S, override, now, later)

(* `claim --takeover': cmd_claim reads the live incumbent and its approval,
   claim_task replaces it, consume_approval spends the approval. *)
Takeover(t, a, b, S) ==
  \E c \in HoldersOf(t), secs \in Leases, override \in BOOLEAN,
     later \in Instants :
    \E read \in {now, later} :
      /\ Live(c, now)
      /\ <<c, a>> \in grants
      /\ \/ /\ Acquire(t, a, b, S, secs, override, {}, TRUE, read, later)
            /\ grants' = grants \ {<<c, a>>}
            /\ UNCHANGED handoffs
         \/ RefuseAfterLapse(t, b, S, override, read, later)

(* A lease_takeover operation is requested and voted through (gate.py);
   _validate_takeover_operation ties it to the live incumbent. *)
ApproveTakeover(c, a) ==
  /\ Live(c, now)
  /\ Cardinality(grants) < MaxGrants
  /\ grants' = grants \cup {<<c, a>>}
  /\ UNCHANGED <<now, status, claims, handoffs>>

(* Seeded bug: an expired lease can be renewed. *)
BugRenewExpired(c, a) ==
  \E secs \in Leases :
    /\ Held(c) /\ claims[c].agent = a
    /\ claims' = [claims EXCEPT ![c].lease = now + secs]
    /\ UNCHANGED <<now, status, handoffs, grants>>

(* Seeded bug: the new lease is counted backwards. *)
BugRenewBackwards(c, a) ==
  \E secs \in Leases :
    /\ Held(c) /\ claims[c].agent = a /\ ~Expired(c, now)
    /\ claims' = [claims EXCEPT ![c].lease = now - secs]
    /\ UNCHANGED <<now, status, handoffs, grants>>

RenewClaim(c, a) ==
  \E secs \in Leases :
    /\ Held(c)
    /\ claims[c].agent = a
    /\ ~Expired(c, now)
    /\ claims' = [claims EXCEPT ![c].lease = now + secs]
    /\ UNCHANGED <<now, status, handoffs, grants>>

ReleaseClaim(c, a) ==
  /\ Held(c)
  /\ claims[c].agent = a
  /\ claims' = [claims EXCEPT ![c] = Ended(c, "released", now)]
  /\ status' = [status EXCEPT ![claims[c].task] = "open"]
  /\ UNCHANGED <<now, handoffs, grants>>

CompleteTask(t, a) ==
  \E c \in HoldersOf(t) :
    /\ status[t] # "done"
    /\ claims[c].agent = a
    /\ ~Expired(c, now)
    /\ claims' = [claims EXCEPT ![c] = Ended(c, "done", now)]
    /\ status' = [status EXCEPT ![t] = "done"]
    /\ UNCHANGED <<now, handoffs, grants>>

ReopenTask(t, a) ==
  /\ Operators = {} \/ a \in Operators
  /\ status[t] = "done"
  /\ status' = [status EXCEPT ![t] = "open"]
  /\ UNCHANGED <<now, claims, handoffs, grants>>

(* create_handoff() checks that the claim is unreleased and owned, not that
   its lease still runs. *)
CreateHandoff(c, a, to) ==
  /\ Held(c)
  /\ claims[c].agent = a
  /\ \E h \in HandoffIds \ DOMAIN handoffs :
       handoffs' = Put(handoffs, h, [claim |-> c, to |-> to, status |-> "open"])
  /\ claims' = [claims EXCEPT ![c] = Ended(c, "handoff", now)]
  /\ status' = [status EXCEPT ![claims[c].task] = "handoff"]
  /\ UNCHANGED <<now, grants>>

(* accept_handoff(): the new claim keeps the branch and the scopes; a refused
   claim rolls the whole acceptance back. *)
AcceptHandoff(h, a) ==
  \E secs \in Leases, later \in Instants :
    LET c == handoffs[h].claim
    IN /\ h \in OpenHandoffs
       /\ handoffs[h].to \in {Nobody, a}
       /\ Acquire(HandoffTask(h), a, claims[c].branch, claims[c].scopes, secs,
                  TRUE, {h}, FALSE, now, later)
       /\ handoffs' = [handoffs EXCEPT ![h].status = "accepted", ![h].to = a]
       /\ UNCHANGED grants

(* Seeded bug: the task stays reserved after the handoff is resolved. *)
BugResolveKeepsStatus(h, outcome) ==
  /\ handoffs' = [handoffs EXCEPT ![h].status = outcome]
  /\ UNCHANGED <<now, status, claims, grants>>

Resolve(h, outcome) ==
  /\ handoffs' = [handoffs EXCEPT ![h].status = outcome]
  /\ status' = [status EXCEPT ![HandoffTask(h)] = "open"]
  /\ UNCHANGED <<now, claims, grants>>

DeclineHandoff(h, a) ==
  /\ h \in OpenHandoffs
  /\ handoffs[h].to = a
  /\ Resolve(h, "declined")

CancelHandoff(h, a) ==
  /\ h \in OpenHandoffs
  /\ claims[handoffs[h].claim].agent = a
  /\ Resolve(h, "cancelled")

Next ==
  \/ Tick
  \/ \E t \in Tasks : CreateTask(t)
  \/ \E t \in Tasks, a \in Agents, b \in Branches, S \in (SUBSET Globs) \ {{}} :
       ClaimTask(t, a, b, S) \/ Takeover(t, a, b, S)
  \/ \E t \in Tasks, a \in Agents : CompleteTask(t, a) \/ ReopenTask(t, a)
  \/ \E c \in DOMAIN claims, a \in Agents :
       ApproveTakeover(c, a) \/ RenewClaim(c, a) \/ ReleaseClaim(c, a)
  \/ \E c \in DOMAIN claims, a \in Agents, to \in Agents \cup {Nobody} :
       CreateHandoff(c, a, to)
  \/ \E h \in DOMAIN handoffs, a \in Agents :
       AcceptHandoff(h, a) \/ DeclineHandoff(h, a) \/ CancelHandoff(h, a)

Spec == Init /\ [][Next]_vars

----------------------------------------------------------------------------
(* Properties. *)

(* The commands implement the task board: every transaction of work.py and
   handoff.py is one of its steps or changes nothing it shows. *)
Board ==
  [t \in Tasks |->
    [st |-> status[t],
     owners |-> {claims[c].agent : c \in HoldersOf(t)},
     offers |-> {<<claims[handoffs[h].claim].agent, handoffs[h].to>> :
                  h \in OpenFor(t)}]]
TB == INSTANCE TaskBoard WITH board <- Board
ImplementsTaskBoard == TB!BoardSpec

(* The three tables never disagree about a task: exactly the claimed tasks
   have an unreleased claim, and just one; exactly the tasks in handoff have
   an open handoff, and just one; done and open tasks have neither. *)
OneOwnerOf(t) ==
  /\ (status[t] = "claimed") <=> (HoldersOf(t) # {})
  /\ (status[t] = "handoff") <=> (OpenFor(t) # {})
  /\ \A c, d \in HoldersOf(t) : c = d
  /\ \A g, h \in OpenFor(t) : g = h
OneOwner == \A t \in Tasks : OneOwnerOf(t)

(* Two claims whose leases both run never share a branch of a repository,
   whatever expired claims, handoffs and takeovers came before. *)
BranchExclusive ==
  \A c, d \in DOMAIN claims :
    /\ Live(c, now) /\ Live(d, now) /\ c # d
    /\ RepoOf[claims[c].task] = RepoOf[claims[d].task]
    => claims[c].branch # claims[d].branch

(* Two live claims of different tasks overlap in scope only if one of them
   was recorded as a governance override. *)
OverlapIsRecorded ==
  \A c, d \in DOMAIN claims :
    /\ Live(c, now) /\ Live(d, now)
    /\ claims[c].task # claims[d].task
    /\ RepoOf[claims[c].task] = RepoOf[claims[d].task]
    /\ ScopesOverlap(claims[c].scopes, claims[d].scopes)
    => claims[c].override \/ claims[d].override

(* A branch reserved by an open handoff is also held by another task, or
   reserved twice, only if a handoff was made from a claim whose lease had
   already run out. *)
ReservationsCollideOnlyAfterExpiry ==
  \A h \in OpenHandoffs :
    LET c == handoffs[h].claim
        SameBranch(d) == /\ RepoOf[claims[d].task] = RepoOf[claims[c].task]
                         /\ claims[d].branch = claims[c].branch
    IN /\ \A d \in DOMAIN claims : Live(d, now) /\ SameBranch(d) => claims[c].late
       /\ \A g \in OpenHandoffs \ {h} :
            SameBranch(handoffs[g].claim)
              => claims[c].late \/ claims[handoffs[g].claim].late

(* A takeover is all or nothing: the displaced claim, the approval that names
   it and the replacement by the approved agent change in one step. *)
TakeoverIsAtomic ==
  [][/\ \A c \in DOMAIN claims :
          Held(c) /\ claims'[c].released = "takeover"
            => \E a \in Agents : <<c, a>> \in grants \ grants'
     /\ \A c \in DOMAIN claims, a \in Agents :
          <<c, a>> \in grants \ grants'
            => \E d \in DOMAIN claims' \ DOMAIN claims :
                 /\ Held(c) /\ claims'[c].released # "no"
                 /\ claims'[d].task = claims[c].task
                 /\ claims'[d].agent = a]_vars

=============================================================================
