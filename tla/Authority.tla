----------------------------- MODULE Authority -----------------------------
(***************************************************************************)
(* Who may authorize an operation (src/quorumgit/gate.py, registry.py and  *)
(* the triggers of migrations/): agents and their roles, a repository's    *)
(* approval policy with its override for one operation type, and the       *)
(* approval instances of one operation of that type.                       *)
(*                                                                         *)
(* Every action is one command: one transaction under the writer lock.     *)
(* Roles and policy may change between any two of them.                    *)
(***************************************************************************)
EXTENDS Integers, Sequences, FiniteSets

CONSTANTS
  Agents,        \* names an agent may be registered under
  Nobody,        \* no agent; the actor of a command run without --agent
  Inherit,       \* a field an override, or a command, leaves alone
  Defaults,      \* what a command may change in the repository's policy
  Overrides,     \* what a command may change in the override
  MaxInstances   \* bound on the approvals of the operation

Roles == {"worker", "reviewer", "operator"}
Unregistered == "unregistered"

Policy ==
  [threshold : Nat \ {0}, roles : (SUBSET Roles) \ {{}},
   requesterMayVote : BOOLEAN, quorum : BOOLEAN]
Override ==
  [threshold : (Nat \ {0}) \cup {Inherit}, roles : SUBSET Roles,
   requesterMayVote : BOOLEAN \cup {Inherit}, quorum : BOOLEAN \cup {Inherit}]

(* A new repository's policy, and no override. *)
DefaultPolicy ==
  [threshold |-> 1, roles |-> {"operator"}, requesterMayVote |-> FALSE, quorum |-> FALSE]
NoOverride ==
  [threshold |-> Inherit, roles |-> {}, requesterMayVote |-> Inherit, quorum |-> Inherit]

(* `over' where it says something, `under' where it does not *)
Laid(over, under) ==
  LET Pick(o, u) == IF o = Inherit THEN u ELSE o
  IN [threshold |-> Pick(over.threshold, under.threshold),
      roles |-> IF over.roles = {} THEN under.roles ELSE over.roles,
      requesterMayVote |-> Pick(over.requesterMayVote, under.requesterMayVote),
      quorum |-> Pick(over.quorum, under.quorum)]

ASSUME AgentsAssumption == IsFiniteSet(Agents) /\ Nobody \notin Agents
ASSUME PolicyAssumption ==
  Defaults \subseteq Override /\ Overrides \subseteq Override
ASSUME InheritAssumption == Inherit \notin Nat /\ Inherit \notin BOOLEAN
ASSUME InstancesAssumption == MaxInstances \in Nat

VARIABLES
  role,       \* agents.role
  default,    \* the repository's policy
  override,   \* what operation_approval_policies says of the operation's type
  toAgent,    \* whom the operation, if a lease_takeover, would hand a claim to
  approvals   \* the instances of the operation, with their votes

vars == <<role, default, override, toAgent, approvals>>

Approval ==
  [requester : Agents,
   status : {"pending", "approved", "denied", "consumed"},
   vote : [Agents -> {"none", "yes", "no"}],
   consumer : Agents \cup {Nobody}]

TypeOK ==
  /\ role \in [Agents -> Roles \cup {Unregistered}]
  /\ default \in Policy
  /\ override \in Override
  /\ toAgent \in Agents \cup {Nobody}
  /\ approvals \in Seq(Approval) /\ Len(approvals) <= MaxInstances

Registered == {a \in Agents : role[a] # Unregistered}
Operators == {a \in Agents : role[a] = "operator"}

----------------------------------------------------------------------------
(* The rule as the program applies it *)

(* approval_policy() lays the override over the default. *)
policy == Laid(override, default)

(* _vote_refusal() is None. *)
MayVote(i, a) ==
  /\ role[a] \in policy.roles
  /\ policy.requesterMayVote \/ approvals[i].requester # a
  /\ a # toAgent

Yes(i) == {a \in Agents : approvals[i].vote[a] = "yes"}
Eligible(i) == {a \in Agents : MayVote(i, a)}

quorum_threshold(n) == (2 * n) \div 3 + 1

(* _eligible_approvals() and required_approvals(), `excluded' left out *)
Counted(i, excluded) == Cardinality((Eligible(i) \cap Yes(i)) \ excluded)
Required(i, excluded) ==
  LET quorum == quorum_threshold(Cardinality(Eligible(i) \ excluded))
  IN IF policy.quorum /\ quorum > policy.threshold THEN quorum ELSE policy.threshold

Meets(i, excluded) == Counted(i, excluded) >= Required(i, excluded)

(* Seeded bugs: the status alone is trusted; a consumer's vote is left out of
   the count but not of the quorum's denominator. *)
BugAuthorizesOnce(i, c) == TRUE
BugAuthorizesHalf(i, c) == Counted(i, {c}) >= Required(i, {})

(* A consumer's own yes vote is left out, and refused under a fixed threshold. *)
OwnVote(i, c) == {c} \cap Yes(i)
Authorizes(i, c) ==
  /\ OwnVote(i, c) = {} \/ policy.quorum
  /\ Meets(i, OwnVote(i, c))

(* vote(): an approval that no longer meets the policy is reopened. *)
OpenForVotes(i) ==
  \/ approvals[i].status = "pending"
  \/ approvals[i].status = "approved" /\ ~Meets(i, {})

Newest(i) == i = Len(approvals)
Live(i) == approvals[i].status \in {"pending", "approved"}

----------------------------------------------------------------------------
(* The rule as the database applies it: views approval_effective_policy and
   approval_eligible_agents, trigger approvals_consumer_is_not_approver. *)

EngineEligible(i, a) ==
  /\ a \in Registered
  /\ \/ override.requesterMayVote # Inherit /\ override.requesterMayVote
     \/ override.requesterMayVote = Inherit /\ default.requesterMayVote
     \/ approvals[i].requester # a
  /\ a # toAgent
  /\ \/ override.roles # {} /\ role[a] \in override.roles
     \/ override.roles = {} /\ role[a] \in default.roles

EngineQuorum ==
  \/ override.quorum # Inherit /\ override.quorum
  \/ override.quorum = Inherit /\ default.quorum

EngineAuthorizes(i, c) ==
  LET others == {a \in Agents : EngineEligible(i, a)} \ {c}
      yes == Cardinality(others \cap Yes(i))
  IN \/ c \notin Yes(i)
     \/ /\ EngineQuorum
        /\ yes >= (IF override.threshold = Inherit THEN default.threshold
                                                   ELSE override.threshold)
        /\ yes >= (2 * Cardinality(others)) \div 3 + 1

(* Triggers votes_require_eligible_voter: the beneficiary is not looked at. *)
EngineMayVote(i, a) ==
  /\ a \in Registered
  /\ \/ override.requesterMayVote # Inherit /\ override.requesterMayVote
     \/ override.requesterMayVote = Inherit /\ default.requesterMayVote
     \/ approvals[i].requester # a
  /\ \/ override.roles # {} /\ role[a] \in override.roles
     \/ override.roles = {} /\ role[a] \in default.roles

----------------------------------------------------------------------------
Init ==
  /\ role = [a \in Agents |-> Unregistered]
  /\ default = DefaultPolicy
  /\ override = NoOverride
  /\ toAgent \in Agents \cup {Nobody}
  /\ approvals = << >>

(* require_operator(): until the first operator exists anyone may. *)
MayAdminister(actor) ==
  \/ Operators = {}
  \/ actor \in Operators

add_agent(actor, a, r) ==
  /\ role[a] = Unregistered
  /\ r = "worker" \/ MayAdminister(actor)
  /\ role' = [role EXCEPT ![a] = r]
  /\ UNCHANGED <<default, override, toAgent, approvals>>

(* Seeded bug: the last operator can be demoted. *)
Bugset_agent_role(actor, a, r) ==
  /\ a \in Registered
  /\ MayAdminister(actor)
  /\ role' = [role EXCEPT ![a] = r]
  /\ UNCHANGED <<default, override, toAgent, approvals>>

set_agent_role(actor, a, r) ==
  /\ a \in Registered
  /\ MayAdminister(actor)
  /\ role[a] # r
  /\ Operators # {a}
  /\ role' = [role EXCEPT ![a] = r]
  /\ UNCHANGED <<default, override, toAgent, approvals>>

(* Seeded bug: options left out are stored as NULL. *)
Bugset_default_policy(actor, change) ==
  /\ MayAdminister(actor)
  /\ default' = change
  /\ UNCHANGED <<role, override, toAgent, approvals>>

(* set_approval_policy() without an operation type *)
set_default_policy(actor, change) ==
  /\ MayAdminister(actor)
  /\ default' = Laid(change, default)
  /\ UNCHANGED <<role, override, toAgent, approvals>>

(* ... for the operation's type, and with --inherit *)
set_operation_override(actor, change) ==
  /\ MayAdminister(actor)
  /\ override' = Laid(change, override)
  /\ UNCHANGED <<role, default, toAgent, approvals>>

inherit_default(actor) ==
  /\ MayAdminister(actor)
  /\ override' = NoOverride
  /\ UNCHANGED <<role, default, toAgent, approvals>>

request_approval(a) ==
  /\ a \in Registered
  /\ Len(approvals) < MaxInstances
  /\ \A i \in DOMAIN approvals : ~Live(i)
  /\ approvals' = Append(approvals, [requester |-> a, status |-> "pending",
                                     vote |-> [v \in Agents |-> "none"],
                                     consumer |-> Nobody])
  /\ UNCHANGED <<role, default, override, toAgent>>

(* Seeded bug: the majority outvotes a denial. *)
BugDecided(i, votes) ==
  LET yes == {a \in Eligible(i) : votes[a] = "yes"}
  IN IF Cardinality(yes) >= Required(i, {}) THEN "approved"
     ELSE IF \E a \in Agents : votes[a] = "no" THEN "denied" ELSE "pending"

(* The status after one more vote; denials count whoever cast them. *)
Decided(i, votes) ==
  LET yes == {a \in Eligible(i) : votes[a] = "yes"}
  IN IF \E a \in Agents : votes[a] = "no" THEN "denied"
     ELSE IF Cardinality(yes) >= Required(i, {}) THEN "approved" ELSE "pending"

vote(i, a, v) ==
  LET votes == [approvals[i].vote EXCEPT ![a] = v]
  IN /\ OpenForVotes(i)
     /\ MayVote(i, a) /\ EngineMayVote(i, a)
     /\ approvals' = [approvals EXCEPT ![i] =
          [@ EXCEPT !.vote = votes, !.status = Decided(i, votes)]]
     /\ UNCHANGED <<role, default, override, toAgent>>

(* Seeded bug: a use only asks for an approved instance. *)
Bugconsume_approval(i, c) ==
  /\ Newest(i)
  /\ approvals[i].status = "approved"
  /\ c \in Registered
  /\ approvals' = [approvals EXCEPT ![i] =
       [@ EXCEPT !.status = "consumed", !.consumer = c]]
  /\ UNCHANGED <<role, default, override, toAgent>>

(* approved_instance(), then consume_approval() and the trigger *)
consume_approval(i, c) ==
  /\ Newest(i)
  /\ approvals[i].status = "approved"
  /\ c \in Registered
  /\ Authorizes(i, c) /\ EngineAuthorizes(i, c)
  /\ approvals' = [approvals EXCEPT ![i] =
       [@ EXCEPT !.status = "consumed", !.consumer = c]]
  /\ UNCHANGED <<role, default, override, toAgent>>

(* An aborted update gives its approval back (module PushGate). *)
restore_approval(i) ==
  /\ approvals[i].status = "consumed"
  /\ \A j \in DOMAIN approvals : ~Live(j)
  /\ approvals' = [approvals EXCEPT ![i] =
       [@ EXCEPT !.status = "approved", !.consumer = Nobody]]
  /\ UNCHANGED <<role, default, override, toAgent>>

Next ==
  \/ \E actor \in Agents \cup {Nobody} :
       \/ \E a \in Agents, r \in Roles : add_agent(actor, a, r) \/ set_agent_role(actor, a, r)
       \/ \E change \in Defaults : set_default_policy(actor, change)
       \/ \E change \in Overrides : set_operation_override(actor, change)
       \/ inherit_default(actor)
  \/ \E a \in Agents :
       \/ request_approval(a)
       \/ \E i \in DOMAIN approvals :
            \/ vote(i, a, "yes") \/ vote(i, a, "no")
            \/ consume_approval(i, a)
  \/ \E i \in DOMAIN approvals : restore_approval(i)

Spec == Init /\ [][Next]_vars

----------------------------------------------------------------------------
(* Properties. *)

(* Nobody's own vote authorizes their own action (README.md), even after
   roles and policy changed: someone else said yes to whatever was consumed. *)
TwoPersonRule ==
  \A i \in DOMAIN approvals : approvals[i].status = "consumed" =>
    Yes(i) \ {approvals[i].consumer} # {}

(* One denial is terminal: no instance that anyone ever denied is usable, and
   only the aborted update of a consumed one makes it live again. *)
DenialWins ==
  \A i \in DOMAIN approvals :
    (\E a \in Agents : approvals[i].vote[a] = "no") <=> approvals[i].status = "denied"

(* When an approval is used, the voters other than its user who may vote at
   that moment reach the threshold and, under quorum policy, are more than two
   thirds of the others who may vote. *)
OthersSuffice ==
  [][\A i \in DOMAIN approvals :
       approvals[i].status = "approved" /\ approvals'[i].status = "consumed" =>
         LET others == Eligible(i) \ {approvals'[i].consumer}
             yes == Cardinality(others \cap Yes(i))
         IN /\ yes >= policy.threshold
            /\ policy.quorum => 3 * yes > 2 * Cardinality(others)]_vars

(* The trigger and the program agree: the trigger never aborts a use the
   program allows, and of a voter's use it allows no more than the program. *)
EngineAgrees ==
  \A i \in DOMAIN approvals, c \in Registered :
    /\ Authorizes(i, c) => EngineAuthorizes(i, c)
    /\ c \in Yes(i) /\ EngineAuthorizes(i, c) => Authorizes(i, c)

(* Once there is an operator there always is one: the store never falls back
   into bootstrap mode, where anyone may change the rules. *)
BootstrapEndsForGood ==
  [][Operators # {} => Operators' # {}]_vars

(* "Eligible agents can vote on approval ... to reach it" (the refusal of
   _authorization_refusal()): an approval that is short of votes for its
   consumer is open for votes while somebody eligible has not voted. *)
ShortApprovalIsOpen ==
  \A i \in DOMAIN approvals, c \in Registered :
    (/\ Newest(i)
     /\ approvals[i].status = "approved"
     /\ OwnVote(i, c) = {} \/ policy.quorum
     /\ ~Meets(i, OwnVote(i, c))
     /\ Eligible(i) \ Yes(i) # {})
      => OpenForVotes(i)

=============================================================================
