-------------------------- MODULE AuthorityProofs --------------------------
(* Theorems about Authority. *)
EXTENDS Authority, FiniteSetTheorems, SequenceTheorems, TLAPS

(* Resolving an override against a policy gives a policy, and changing an
   override gives an override. *)
LEMMA LaidIsPolicy ==
  ASSUME NEW over \in Override, NEW under \in Policy
  PROVE  Laid(over, under) \in Policy
<1>1. over.threshold # Inherit => over.threshold \in Nat \ {0}
  BY DEF Override
<1>2. /\ over.requesterMayVote # Inherit => over.requesterMayVote \in BOOLEAN
      /\ over.quorum # Inherit => over.quorum \in BOOLEAN
  BY Zenon DEF Override
<1>3. over.roles # {} => over.roles \in (SUBSET Roles) \ {{}}
  BY DEF Override
<1>4. /\ under.threshold \in Nat \ {0}
      /\ under.roles \in (SUBSET Roles) \ {{}}
  BY DEF Policy
<1>5. under.requesterMayVote \in BOOLEAN /\ under.quorum \in BOOLEAN
  BY Zenon DEF Policy
<1> DEFINE Pick(o, u) == IF o = Inherit THEN u ELSE o
<1>6. /\ Pick(over.threshold, under.threshold) \in Nat \ {0}
      /\ (IF over.roles = {} THEN under.roles ELSE over.roles) \in (SUBSET Roles) \ {{}}
  BY <1>1, <1>3, <1>4
<1>7. /\ Pick(over.requesterMayVote, under.requesterMayVote) \in BOOLEAN
      /\ Pick(over.quorum, under.quorum) \in BOOLEAN
  BY <1>2, <1>5, Zenon
<1> QED
  BY <1>6, <1>7, Zenon DEF Policy, Laid

LEMMA LaidIsOverride ==
  ASSUME NEW over \in Override, NEW under \in Override
  PROVE  Laid(over, under) \in Override
BY Zenon DEF Override, Laid

LEMMA PolicyTyped ==
  ASSUME TypeOK
  PROVE  policy \in Policy
BY LaidIsPolicy DEF TypeOK, policy

(* Replacing fields of one row of the table *)
LEMMA RowReplaced ==
  ASSUME approvals \in Seq(Approval), NEW i \in DOMAIN approvals,
         NEW row \in Approval,
         approvals' = [approvals EXCEPT ![i] = row]
  PROVE  /\ approvals' \in Seq(Approval)
         /\ Len(approvals') = Len(approvals)
         /\ DOMAIN approvals' = DOMAIN approvals
         /\ approvals'[i] = row
         /\ \A j \in DOMAIN approvals \ {i} : approvals'[j] = approvals[j]
BY ExceptSeq DEF Approval

LEMMA RowAdded ==
  ASSUME approvals \in Seq(Approval), NEW row \in Approval,
         approvals' = Append(approvals, row)
  PROVE  /\ approvals' \in Seq(Approval)
         /\ Len(approvals') = Len(approvals) + 1
         /\ DOMAIN approvals' = DOMAIN approvals \cup {Len(approvals) + 1}
         /\ approvals'[Len(approvals) + 1] = row
         /\ \A j \in DOMAIN approvals : approvals'[j] = approvals[j]
BY AppendProperties, LenProperties

(* Sets of agents are finite, and larger ones have larger counts. *)
LEMMA AgentsCount ==
  ASSUME NEW S, S \subseteq Agents
  PROVE  IsFiniteSet(S) /\ Cardinality(S) \in Nat
BY AgentsAssumption, FS_Subset, FS_CardinalityType

-----------------------------------------------------------------------------
(* The program and the database resolve policy and eligibility alike. *)
LEMMA SamePolicy ==
  ASSUME TypeOK
  PROVE  /\ policy.quorum <=> EngineQuorum
         /\ policy.threshold =
              IF override.threshold = Inherit THEN default.threshold ELSE override.threshold
         /\ \A i \in DOMAIN approvals, a \in Agents : MayVote(i, a) <=> EngineEligible(i, a)
<1>1. /\ override.quorum \in BOOLEAN \cup {Inherit} /\ default.quorum \in BOOLEAN
      /\ override.requesterMayVote \in BOOLEAN \cup {Inherit}
      /\ default.requesterMayVote \in BOOLEAN
  BY Zenon DEF TypeOK, Override, Policy
<1>2. policy.quorum = IF override.quorum = Inherit THEN default.quorum ELSE override.quorum
  BY Zenon DEF policy, Laid
<1>3. policy.quorum <=> EngineQuorum
  BY <1>1, <1>2, InheritAssumption, Zenon DEF EngineQuorum
<1>4. policy.requesterMayVote =
        IF override.requesterMayVote = Inherit THEN default.requesterMayVote
                                               ELSE override.requesterMayVote
  BY Zenon DEF policy, Laid
<1>5. policy.roles = IF override.roles = {} THEN default.roles ELSE override.roles
  BY Zenon DEF policy, Laid
<1>6. policy.roles \subseteq Roles /\ Unregistered \notin Roles
  BY PolicyTyped DEF Policy, Roles, Unregistered
<1>7. ASSUME NEW i \in DOMAIN approvals, NEW a \in Agents
      PROVE  MayVote(i, a) <=> EngineEligible(i, a)
  <2>1. \/ override.requesterMayVote # Inherit /\ override.requesterMayVote
        \/ override.requesterMayVote = Inherit /\ default.requesterMayVote
        <=> policy.requesterMayVote
    BY <1>1, <1>4, InheritAssumption, Zenon
  <2>2. role[a] \in policy.roles => a \in Registered
    BY <1>6 DEF Registered
  <2> QED
    BY <1>5, <2>1, <2>2, Zenon DEF MayVote, EngineEligible
<1>8. policy.threshold =
        IF override.threshold = Inherit THEN default.threshold ELSE override.threshold
  BY Zenon DEF policy, Laid
<1> QED
  BY <1>3, <1>7, <1>8, Zenon

(* What the votes of the others amount to when a use is authorized. *)
LEMMA OthersAuthorize ==
  ASSUME TypeOK, NEW i \in DOMAIN approvals, NEW c \in Agents, Authorizes(i, c)
  PROVE  LET others == Eligible(i) \ {c}
             yes == Cardinality(others \cap Yes(i))
         IN /\ yes \in Nat
            /\ yes >= policy.threshold
            /\ policy.quorum => 3 * yes > 2 * Cardinality(others)
<1> DEFINE others == Eligible(i) \ {c}
           yes == Cardinality(others \cap Yes(i))
           excluded == OwnVote(i, c)
           seats == Cardinality(Eligible(i) \ excluded)
<1>1. others \subseteq Agents /\ Eligible(i) \ excluded \subseteq Agents
  BY DEF Eligible
<1>2. yes \in Nat /\ Cardinality(others) \in Nat /\ seats \in Nat
  BY <1>1, AgentsCount
<1>3. (Eligible(i) \cap Yes(i)) \ excluded = others \cap Yes(i)
  BY DEF OwnVote
<1>4. yes >= Required(i, excluded)
  BY <1>3, Zenon DEF Authorizes, Meets, Counted
<1>5. policy.threshold \in Nat
  BY PolicyTyped DEF Policy
<1>6. Cardinality(others) <= seats
  <2>1. others \subseteq Eligible(i) \ excluded
    BY DEF OwnVote
  <2> QED
    BY <1>1, <2>1, AgentsCount, FS_Subset
<1>7. quorum_threshold(seats) \in Nat /\ 3 * quorum_threshold(seats) > 2 * seats
  BY <1>2 DEF quorum_threshold
<1>8. /\ Required(i, excluded) >= policy.threshold
      /\ policy.quorum => Required(i, excluded) >= quorum_threshold(seats)
      /\ Required(i, excluded) \in Nat
  <2>1. CASE policy.quorum /\ quorum_threshold(seats) > policy.threshold
    <3>1. Required(i, excluded) = quorum_threshold(seats)
      BY <2>1, Zenon DEF Required
    <3> QED
      BY <2>1, <3>1, <1>5, <1>7
  <2>2. CASE ~(policy.quorum /\ quorum_threshold(seats) > policy.threshold)
    <3>1. Required(i, excluded) = policy.threshold
      BY <2>2, Zenon DEF Required
    <3>2. policy.quorum => ~(quorum_threshold(seats) > policy.threshold)
      BY <2>2, Zenon
    <3> QED
      BY <3>1, <3>2, <1>5, <1>7
  <2> QED
    BY <2>1, <2>2, Zenon
<1>9. yes >= policy.threshold
  BY <1>2, <1>4, <1>5, <1>8
<1>10. policy.quorum => 3 * yes > 2 * Cardinality(others)
  BY <1>2, <1>4, <1>6, <1>7, <1>8
<1> QED
  BY <1>2, <1>9, <1>10, Zenon

(* EngineAgrees (trigger approvals_consumer_is_not_approver and
   _authorization_refusal()) holds in every typed state: it is a fact about the
   two rules, not about how the tables came about. *)
LEMMA RulesAgree ==
  ASSUME TypeOK
  PROVE  EngineAgrees
<1> SUFFICES ASSUME NEW i \in DOMAIN approvals, NEW c \in Registered
             PROVE  /\ Authorizes(i, c) => EngineAuthorizes(i, c)
                    /\ c \in Yes(i) /\ EngineAuthorizes(i, c) => Authorizes(i, c)
  BY DEF EngineAgrees
<1> DEFINE others == Eligible(i) \ {c}
           yes == Cardinality(others \cap Yes(i))
           engine == {a \in Agents : EngineEligible(i, a)} \ {c}
<1>1. c \in Agents
  BY DEF Registered
<1>2. CASE c \notin Yes(i)
  BY <1>2, Zenon DEF EngineAuthorizes
<1>3. CASE c \in Yes(i)
  <2>1. engine = others
    BY SamePolicy, Zenon DEF Eligible
  <2>2. OwnVote(i, c) = {c}
    BY <1>3 DEF OwnVote
  <2>3. yes \in Nat /\ Cardinality(others) \in Nat
    BY AgentsCount DEF Eligible
  <2>4. policy.threshold \in Nat
    BY PolicyTyped DEF Policy
  <2>5. EngineAuthorizes(i, c) <=>
          /\ policy.quorum
          /\ yes >= policy.threshold
          /\ yes >= quorum_threshold(Cardinality(others))
    BY <1>3, <2>1, SamePolicy, Zenon DEF EngineAuthorizes, quorum_threshold
  <2>6. ASSUME Authorizes(i, c)
        PROVE  EngineAuthorizes(i, c)
    <3>1. policy.quorum
      BY <2>2, <2>6, Zenon DEF Authorizes
    <3>2. yes >= policy.threshold /\ 3 * yes > 2 * Cardinality(others)
      BY <1>1, <2>6, <3>1, OthersAuthorize
    <3>3. yes >= quorum_threshold(Cardinality(others))
      BY <2>3, <3>2 DEF quorum_threshold
    <3> QED
      BY <2>5, <3>1, <3>2, <3>3, Zenon
  <2>7. ASSUME EngineAuthorizes(i, c)
        PROVE  Authorizes(i, c)
    <3>1. Counted(i, {c}) = yes
      <4>1. (Eligible(i) \cap Yes(i)) \ {c} = others \cap Yes(i)
        OBVIOUS
      <4> QED
        BY <4>1, Zenon DEF Counted
    <3>2. Required(i, {c}) \in {policy.threshold, quorum_threshold(Cardinality(others))}
      BY Zenon DEF Required
    <3>3. Counted(i, {c}) >= Required(i, {c})
      BY <2>5, <2>7, <3>1, <3>2
    <3> QED
      BY <2>2, <2>5, <2>7, <3>3, Zenon DEF Authorizes, Meets
  <2> QED
    BY <2>6, <2>7, Zenon
<1> QED
  BY <1>2, <1>3, Zenon

-----------------------------------------------------------------------------
IInv == TypeOK /\ TwoPersonRule /\ DenialWins

LEMMA InitInv ==
  Init => IInv
<1> SUFFICES ASSUME Init PROVE IInv
  OBVIOUS
<1>1. approvals \in Seq(Approval) /\ Len(approvals) = 0 /\ DOMAIN approvals = {}
  BY DEF Init
<1>2. default \in Policy
  BY DEF Init, DefaultPolicy, Policy, Roles
<1>3. override \in Override
  BY DEF Init, NoOverride, Override
<1>4. TypeOK
  BY <1>1, <1>2, <1>3, InstancesAssumption DEF Init, TypeOK
<1> QED
  BY <1>1, <1>4 DEF IInv, TwoPersonRule, DenialWins

(* The three actions that rewrite one approval *)
LEMMA RowRewritten ==
  ASSUME IInv, NEW i \in DOMAIN approvals, NEW row \in Approval,
         approvals' = [approvals EXCEPT ![i] = row],
         UNCHANGED <<role, default, override, toAgent>>,
         row.status = "consumed" =>
           {a \in Agents : row.vote[a] = "yes"} \ {row.consumer} # {},
         (\E a \in Agents : row.vote[a] = "no") <=> row.status = "denied"
  PROVE  IInv'
<1>1. /\ approvals' \in Seq(Approval)
      /\ Len(approvals') = Len(approvals)
      /\ DOMAIN approvals' = DOMAIN approvals
      /\ approvals'[i] = row
      /\ \A j \in DOMAIN approvals \ {i} : approvals'[j] = approvals[j]
  BY RowReplaced, Zenon DEF IInv, TypeOK
<1>2. TypeOK'
  BY <1>1, Zenon DEF IInv, TypeOK
<1>3. TwoPersonRule'
  BY <1>1, Zenon DEF IInv, TwoPersonRule, Yes
<1>4. DenialWins'
  BY <1>1, Zenon DEF IInv, DenialWins
<1> QED
  BY <1>2, <1>3, <1>4, Zenon DEF IInv

(* The actions that only change who may do what *)
LEMMA ApprovalsKept ==
  ASSUME IInv, TypeOK', approvals' = approvals
  PROVE  IInv'
BY Zenon DEF IInv, TwoPersonRule, DenialWins, Yes

LEMMA RequestInv ==
  ASSUME IInv, NEW a \in Agents, request_approval(a)
  PROVE  IInv'
<1> DEFINE row == [requester |-> a, status |-> "pending",
                   vote |-> [v \in Agents |-> "none"], consumer |-> Nobody]
<1>1. row \in Approval
  BY DEF Approval
<1>2. approvals' = Append(approvals, row)
  BY Zenon DEF request_approval
<1>3. /\ approvals' \in Seq(Approval)
      /\ Len(approvals') = Len(approvals) + 1
      /\ DOMAIN approvals' = DOMAIN approvals \cup {Len(approvals) + 1}
      /\ approvals'[Len(approvals) + 1] = row
      /\ \A j \in DOMAIN approvals : approvals'[j] = approvals[j]
  BY <1>1, <1>2, RowAdded, Zenon DEF IInv, TypeOK
<1>4. Len(approvals') <= MaxInstances
  BY <1>3, LenProperties, InstancesAssumption DEF request_approval, IInv, TypeOK
<1>5. TypeOK'
  BY <1>3, <1>4, Zenon DEF IInv, TypeOK, request_approval
<1>6. TwoPersonRule'
  <2>1. ASSUME NEW j \in DOMAIN approvals', approvals'[j].status = "consumed"
        PROVE  {v \in Agents : approvals'[j].vote[v] = "yes"}
                 \ {approvals'[j].consumer} # {}
    <3>1. CASE j \in DOMAIN approvals
      BY <1>3, <2>1, <3>1, Zenon DEF IInv, TwoPersonRule, Yes
    <3>2. CASE j = Len(approvals) + 1
      BY <1>3, <2>1, <3>2
    <3> QED
      BY <1>3, <2>1, <3>1, <3>2, Zenon
  <2> QED
    BY <2>1, Zenon DEF TwoPersonRule, Yes
<1>7. DenialWins'
  <2>1. ASSUME NEW j \in DOMAIN approvals'
        PROVE  (\E v \in Agents : approvals'[j].vote[v] = "no")
                 <=> approvals'[j].status = "denied"
    <3>1. CASE j \in DOMAIN approvals
      BY <1>3, <3>1, Zenon DEF IInv, DenialWins
    <3>2. CASE j = Len(approvals) + 1
      BY <1>3, <3>2
    <3> QED
      BY <1>3, <3>1, <3>2, Zenon
  <2> QED
    BY <2>1, Zenon DEF DenialWins
<1> QED
  BY <1>5, <1>6, <1>7, Zenon DEF IInv

LEMMA VoteInv ==
  ASSUME IInv, NEW i \in DOMAIN approvals, NEW a \in Agents, NEW v \in {"yes", "no"},
         vote(i, a, v)
  PROVE  IInv'
<1> DEFINE votes == [approvals[i].vote EXCEPT ![a] = v]
           row == [approvals[i] EXCEPT !.vote = votes, !.status = Decided(i, votes)]
<1>1. approvals[i] \in Approval
  BY LenProperties DEF IInv, TypeOK
<1>2. votes \in [Agents -> {"none", "yes", "no"}]
  BY <1>1 DEF Approval
<1>3. /\ Decided(i, votes) \in {"pending", "approved", "denied"}
      /\ Decided(i, votes) = "denied" <=> \E b \in Agents : votes[b] = "no"
  BY DEF Decided
<1>4. row \in Approval /\ row.vote = votes /\ row.status = Decided(i, votes)
  BY <1>1, <1>2, <1>3 DEF Approval
<1>5. approvals' = [approvals EXCEPT ![i] = row] /\ UNCHANGED <<role, default, override, toAgent>>
  BY Zenon DEF vote
<1>6. row.status # "consumed"
  BY <1>3, <1>4
<1>7. (\E b \in Agents : row.vote[b] = "no") <=> row.status = "denied"
  BY <1>3, <1>4, Zenon
<1> HIDE DEF row
<1> QED
  BY <1>4, <1>5, <1>6, <1>7, RowRewritten, Zenon

(* Somebody other than the consumer said yes, or the votes of the others would
   be none and reach no threshold. *)
LEMMA ConsumeInv ==
  ASSUME IInv, NEW i \in DOMAIN approvals, NEW c \in Agents, consume_approval(i, c)
  PROVE  IInv'
<1> DEFINE row == [approvals[i] EXCEPT !.status = "consumed", !.consumer = c]
           others == (Eligible(i) \ {c}) \cap Yes(i)
<1>1. approvals[i] \in Approval /\ TypeOK
  BY LenProperties DEF IInv, TypeOK
<1>2. row \in Approval /\ row.vote = approvals[i].vote /\ row.status = "consumed"
        /\ row.consumer = c
  BY <1>1 DEF Approval
<1>3. approvals' = [approvals EXCEPT ![i] = row] /\ UNCHANGED <<role, default, override, toAgent>>
  BY Zenon DEF consume_approval
<1>4. others # {}
  <2>1. Cardinality(others) \in Nat /\ Cardinality(others) >= policy.threshold
    BY <1>1, OthersAuthorize DEF consume_approval
  <2>2. policy.threshold \in Nat \ {0}
    BY <1>1, PolicyTyped DEF Policy
  <2>3. Cardinality(others) # 0
    BY <2>1, <2>2
  <2> QED
    BY <2>3, FS_EmptySet, Zenon
<1>5. {a \in Agents : row.vote[a] = "yes"} \ {row.consumer} # {}
  BY <1>2, <1>4, Zenon DEF Yes
<1>6. (\E a \in Agents : row.vote[a] = "no") <=> row.status = "denied"
  <2>1. approvals[i].status = "approved"
    BY Zenon DEF consume_approval
  <2> QED
    BY <1>2, <2>1, Zenon DEF IInv, DenialWins
<1> HIDE DEF row
<1> QED
  BY <1>2, <1>3, <1>5, <1>6, RowRewritten, Zenon

LEMMA RestoreInv ==
  ASSUME IInv, NEW i \in DOMAIN approvals, restore_approval(i)
  PROVE  IInv'
<1> DEFINE row == [approvals[i] EXCEPT !.status = "approved", !.consumer = Nobody]
<1>1. approvals[i] \in Approval
  BY LenProperties DEF IInv, TypeOK
<1>2. row \in Approval /\ row.vote = approvals[i].vote /\ row.status = "approved"
  BY <1>1 DEF Approval
<1>3. approvals' = [approvals EXCEPT ![i] = row] /\ UNCHANGED <<role, default, override, toAgent>>
  BY Zenon DEF restore_approval
<1>4. (\E a \in Agents : row.vote[a] = "no") <=> row.status = "denied"
  <2>1. approvals[i].status = "consumed"
    BY Zenon DEF restore_approval
  <2> QED
    BY <1>2, <2>1, Zenon DEF IInv, DenialWins
<1> HIDE DEF row
<1> QED
  BY <1>2, <1>3, <1>4, RowRewritten, Zenon

(* Changes of roles and of policy *)
LEMMA RulesInv ==
  ASSUME IInv, NEW actor \in Agents \cup {Nobody},
         \/ \E a \in Agents, r \in Roles :
              add_agent(actor, a, r) \/ set_agent_role(actor, a, r)
         \/ \E change \in Defaults : set_default_policy(actor, change)
         \/ \E change \in Overrides : set_operation_override(actor, change)
         \/ inherit_default(actor)
  PROVE  IInv'
<1> USE DEF IInv
<1>1. approvals' = approvals /\ UNCHANGED toAgent
  BY Zenon DEF add_agent, set_agent_role, set_default_policy, set_operation_override,
               inherit_default
<1>2. ASSUME NEW a \in Agents, NEW r \in Roles,
             add_agent(actor, a, r) \/ set_agent_role(actor, a, r)
      PROVE  TypeOK'
  <2>1. role' = [role EXCEPT ![a] = r] /\ UNCHANGED <<default, override>>
    BY <1>2, Zenon DEF add_agent, set_agent_role
  <2>2. role' \in [Agents -> Roles \cup {Unregistered}]
    BY <2>1 DEF TypeOK
  <2> QED
    BY <1>1, <2>1, <2>2, Zenon DEF TypeOK
<1>3. ASSUME NEW change \in Defaults, set_default_policy(actor, change)
      PROVE  TypeOK'
  <2>1. change \in Override /\ default \in Policy
    BY PolicyAssumption DEF TypeOK
  <2>2. default' \in Policy /\ UNCHANGED <<role, override>>
    BY <1>3, <2>1, LaidIsPolicy DEF set_default_policy
  <2> QED
    BY <1>1, <2>2, Zenon DEF TypeOK
<1>4. ASSUME NEW change \in Overrides, set_operation_override(actor, change)
      PROVE  TypeOK'
  <2>1. change \in Override /\ override \in Override
    BY PolicyAssumption DEF TypeOK
  <2>2. override' \in Override /\ UNCHANGED <<role, default>>
    BY <1>4, <2>1, LaidIsOverride DEF set_operation_override
  <2> QED
    BY <1>1, <2>2, Zenon DEF TypeOK
<1>5. ASSUME inherit_default(actor)
      PROVE  TypeOK'
  <2>1. override' \in Override /\ UNCHANGED <<role, default>>
    BY <1>5 DEF inherit_default, NoOverride, Override
  <2> QED
    BY <1>1, <2>1, Zenon DEF TypeOK
<1>6. TypeOK'
  BY <1>2, <1>3, <1>4, <1>5, Zenon
<1> QED
  BY <1>1, <1>6, ApprovalsKept, Zenon

LEMMA NextInv ==
  ASSUME IInv, [Next]_vars
  PROVE  IInv'
<1>1. ASSUME NEW actor \in Agents \cup {Nobody},
             \/ \E a \in Agents, r \in Roles :
                  add_agent(actor, a, r) \/ set_agent_role(actor, a, r)
             \/ \E change \in Defaults : set_default_policy(actor, change)
             \/ \E change \in Overrides : set_operation_override(actor, change)
             \/ inherit_default(actor)
      PROVE  IInv'
  BY <1>1, RulesInv, Zenon
<1>2. ASSUME NEW a \in Agents, request_approval(a)
      PROVE  IInv'
  BY <1>2, RequestInv, Zenon
<1>3. ASSUME NEW a \in Agents, NEW i \in DOMAIN approvals,
             vote(i, a, "yes") \/ vote(i, a, "no")
      PROVE  IInv'
  BY <1>3, VoteInv, Zenon
<1>4. ASSUME NEW a \in Agents, NEW i \in DOMAIN approvals, consume_approval(i, a)
      PROVE  IInv'
  BY <1>4, ConsumeInv, Zenon
<1>5. ASSUME NEW i \in DOMAIN approvals, restore_approval(i)
      PROVE  IInv'
  BY <1>5, RestoreInv, Zenon
<1>6. CASE UNCHANGED vars
  <2>1. /\ role' = role /\ default' = default /\ override' = override
        /\ toAgent' = toAgent /\ approvals' = approvals
    BY <1>6, Zenon DEF vars
  <2>2. TypeOK'
    BY <2>1, Zenon DEF IInv, TypeOK
  <2> QED
    BY <2>1, <2>2, ApprovalsKept, Zenon
<1> QED
  BY <1>1, <1>2, <1>3, <1>4, <1>5, <1>6, Zenon DEF Next

LEMMA InvariantHolds ==
  Spec => []IInv
<1>1. Init => IInv
  BY InitInv
<1>2. IInv /\ [Next]_vars => IInv'
  BY NextInv
<1> QED
  BY <1>1, <1>2, PTL DEF Spec

(* The tables stay well formed; in particular a policy command never leaves a
   repository without a threshold, roles or the two flags (registry.py). *)
THEOREM AuthorityTypeCorrect ==
  Spec => []TypeOK
<1>1. IInv => TypeOK
  BY DEF IInv
<1> QED
  BY <1>1, InvariantHolds, PTL

(* Whatever was consumed was approved by somebody else than its consumer,
   however roles and policy changed in between (gate.py, consume_approval()). *)
THEOREM TwoPersonsAlways ==
  Spec => []TwoPersonRule
<1>1. IInv => TwoPersonRule
  BY DEF IInv
<1> QED
  BY <1>1, InvariantHolds, PTL

(* One denial decides an instance for good (gate.py, vote()). *)
THEOREM DenialAlwaysWins ==
  Spec => []DenialWins
<1>1. IInv => DenialWins
  BY DEF IInv
<1> QED
  BY <1>1, InvariantHolds, PTL

(* The trigger of migration 011 and _authorization_refusal() decide alike. *)
THEOREM RulesAlwaysAgree ==
  Spec => []EngineAgrees
<1>1. IInv => EngineAgrees
  BY RulesAgree DEF IInv
<1> QED
  BY <1>1, InvariantHolds, PTL

(* Every use has the votes the policy in force asks of the others
   (gate.py, consume_approval()): among the actions only consume_approval()
   turns an approved instance into a consumed one. *)
THEOREM UsesHaveTheVotes ==
  Spec => OthersSuffice
<1> DEFINE Used(i) == approvals[i].status = "approved" /\ approvals'[i].status = "consumed"
           Enough(i) ==
             LET others == Eligible(i) \ {approvals'[i].consumer}
                 yes == Cardinality(others \cap Yes(i))
             IN /\ yes >= policy.threshold
                /\ policy.quorum => 3 * yes > 2 * Cardinality(others)
<1>1. ASSUME IInv, [Next]_vars, NEW i \in DOMAIN approvals, Used(i)
      PROVE  Enough(i)
  <2> USE <1>1 DEF IInv, TypeOK
  <2>1. approvals[i] \in Approval
    BY LenProperties
  <2>2. PICK c \in Agents : consume_approval(i, c)
    <3>1. approvals' # approvals
      BY <1>1, Zenon
    <3>2. ~ \E a \in Agents : request_approval(a)
      BY <2>1, RowAdded DEF request_approval, Live
    <3>3. ASSUME NEW a \in Agents, NEW j \in DOMAIN approvals, NEW v \in {"yes", "no"},
                 vote(j, a, v)
          PROVE  FALSE
      <4>1. approvals'[i].status \in {"approved", "denied", "pending"}
        BY <2>1, <3>3 DEF vote, Decided
      <4> QED
        BY <4>1
    <3>4. ASSUME NEW j \in DOMAIN approvals, restore_approval(j)
          PROVE  FALSE
      BY <2>1, <3>4 DEF restore_approval, Live
    <3>5. ASSUME NEW a \in Agents, NEW j \in DOMAIN approvals, consume_approval(j, a)
          PROVE  j = i
      BY <2>1, <3>5 DEF consume_approval
    <3>6. CASE UNCHANGED vars
      BY <3>1, <3>6, Zenon DEF vars
    <3> QED
      BY <1>1, <3>1, <3>2, <3>3, <3>4, <3>5, <3>6, Zenon
         DEF Next, add_agent, set_agent_role, set_default_policy, set_operation_override,
             inherit_default
  <2>3. approvals'[i].consumer = c
    BY <2>1, <2>2 DEF consume_approval, Approval
  <2> QED
    BY <2>2, <2>3, OthersAuthorize DEF consume_approval
<1>2. IInv /\ [Next]_vars =>
        [\A i \in DOMAIN approvals : Used(i) => Enough(i)]_vars
  BY <1>1, Zenon
<1> QED
  BY <1>2, InvariantHolds, PTL DEF Spec, OthersSuffice

(* The last operator cannot step down (registry.py, set_agent_role()). *)
THEOREM BootstrapStaysOver ==
  Spec => BootstrapEndsForGood
<1>1. ASSUME TypeOK, Next
      PROVE  Operators # {} => Operators' # {}
  <2>1. ASSUME NEW actor \in Agents \cup {Nobody}, NEW a \in Agents, NEW r \in Roles,
               add_agent(actor, a, r)
        PROVE  Operators \subseteq Operators'
    BY <1>1, <2>1 DEF add_agent, TypeOK, Operators, Unregistered
  <2>2. ASSUME NEW actor \in Agents \cup {Nobody}, NEW a \in Agents, NEW r \in Roles,
               set_agent_role(actor, a, r), Operators # {}
        PROVE  Operators' # {}
    <3>1. PICK b \in Operators : b # a
      BY <2>2 DEF set_agent_role
    <3>2. b \in Operators'
      BY <1>1, <2>2, <3>1 DEF set_agent_role, TypeOK, Operators
    <3> QED
      BY <3>2
  <2>3. CASE role' = role
    BY <2>3, Zenon DEF Operators
  <2> QED
    BY <1>1, <2>1, <2>2, <2>3, Zenon
       DEF Next, set_default_policy, set_operation_override, inherit_default,
           request_approval, vote, consume_approval, restore_approval
<1>2. IInv /\ [Next]_vars => [Operators # {} => Operators' # {}]_vars
  BY <1>1, Zenon DEF IInv
<1> QED
  BY <1>2, InvariantHolds, PTL DEF Spec, BootstrapEndsForGood

=============================================================================
