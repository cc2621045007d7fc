------------------------ MODULE ExecutionGateProofs ------------------------
(***************************************************************************)
(* Proofs about ExecutionGate for every number of callers, approvals,      *)
(* decisions, policies and grants.                                         *)
(***************************************************************************)
EXTENDS ExecutionGate, TLAPS

\* Evaluate always gives one of the three statuses.
LEMMA VerdictType ==
    ASSUME NEW a \in Agents, NEW cap \in Capabilities
    PROVE  Verdict(a, cap) \in DecisionStatus
BY DEF Verdict, Evaluate, DecisionStatus

\* The stores are well typed initially.
LEMMA AuthInitType == AuthInit => AuthTypeOK
BY CatalogAssumption DEF AuthInit, AuthTypeOK, Policy, Grant, Versions

\* Operator changes keep the stores well typed.
LEMMA AuthNextType == AuthTypeOK /\ [AuthNext]_authVars => AuthTypeOK'
<1> SUFFICES ASSUME AuthTypeOK, [AuthNext]_authVars PROVE AuthTypeOK'
    OBVIOUS
<1> USE CatalogAssumption
<1>1. CASE Tick
    BY <1>1 DEF Tick, AuthTypeOK
<1>2. ASSUME NEW p \in PolicyCatalog, SupersedePolicy(p) PROVE AuthTypeOK'
  <2>1. p \in Policy /\ p.id \in PolicyIDs
      BY DEF Policy
  <2>u. /\ updating' \in [PolicyCatalog -> Nat] /\ changes' \in 0 .. MaxChanges
        /\ UNCHANGED <<current, grants, byAgent, clock>>
      BY <1>2 DEF SupersedePolicy, Change, AuthTypeOK
  <2>2. CASE current[p.id] # 0 /\ versions[p.id][current[p.id]].status = "active"
    <3> DEFINE v == current[p.id]
               old == versions[p.id][v]
               new == [old EXCEPT !.status = "superseded"]
    <3>1. v \in Versions /\ old \in Policy /\ old # NoPolicy
        BY <2>1, <2>2 DEF AuthTypeOK
    <3>2. new \in Policy
        BY <3>1 DEF Policy
    <3>3. versions' = [versions EXCEPT ![p.id] = [versions[p.id] EXCEPT ![v] = new]]
        BY <1>2, <2>1, <2>2 DEF SupersedePolicy, AuthTypeOK
    <3>4. versions' \in [PolicyIDs -> [Versions -> Policy \cup {NoPolicy}]]
        BY <2>1, <3>1, <3>2, <3>3 DEF AuthTypeOK
    <3>5. \A i \in PolicyIDs : current[i] # 0 => versions'[i][current[i]] # NoPolicy
        BY <2>1, <3>1, <3>2, <3>3 DEF AuthTypeOK
    <3>6. QED
        BY <2>u, <3>4, <3>5 DEF AuthTypeOK
  <2>3. CASE ~(current[p.id] # 0 /\ versions[p.id][current[p.id]].status = "active")
    <3>1. versions' = versions
        BY <1>2, <2>3 DEF SupersedePolicy
    <3>2. QED
        BY <2>u, <3>1 DEF AuthTypeOK
  <2>4. QED
      BY <2>2, <2>3
<1>3. ASSUME NEW p \in PolicyCatalog, InstallPolicy(p) PROVE AuthTypeOK'
  <2>1. p \in Policy /\ p # NoPolicy
      OBVIOUS
  <2>2. p.id \in PolicyIDs /\ p.version \in Versions
      BY <2>1 DEF Policy, Versions
  <2>3. versions' = [versions EXCEPT ![p.id] = [versions[p.id] EXCEPT ![p.version] = p]]
      BY <1>3, <2>2 DEF InstallPolicy, AuthTypeOK
  <2>4. versions' \in [PolicyIDs -> [Versions -> Policy \cup {NoPolicy}]]
      BY <2>1, <2>2, <2>3 DEF AuthTypeOK
  <2>5. current' \in [PolicyIDs -> Versions \cup {0}]
      BY <1>3, <2>2 DEF InstallPolicy, AuthTypeOK
  <2>6. \A i \in PolicyIDs : current'[i] # 0 => versions'[i][current'[i]] # NoPolicy
      BY <1>3, <2>1, <2>2, <2>3 DEF InstallPolicy, AuthTypeOK
  <2>7. QED
      BY <1>3, <2>4, <2>5, <2>6 DEF InstallPolicy, AuthTypeOK
<1>4. ASSUME NEW id \in GrantIDs, RevokeGrant(id) PROVE AuthTypeOK'
  <2>1. grants[id] \in Grant
      BY <1>4 DEF RevokeGrant, AuthTypeOK
  <2>2. [grants[id] EXCEPT !.revoked = TRUE, !.status = "revoked"] \in Grant
      BY <2>1 DEF Grant
  <2>3. grants' = [grants EXCEPT ![id] =
                     [grants[id] EXCEPT !.revoked = TRUE, !.status = "revoked"]]
      BY <1>4 DEF RevokeGrant, AuthTypeOK
  <2>4. QED
      BY <1>4, <2>2, <2>3 DEF RevokeGrant, Change, AuthTypeOK
<1>5. ASSUME NEW g \in GrantCatalog, StoreGrant(g) PROVE AuthTypeOK'
    BY <1>5 DEF StoreGrant, Change, AuthTypeOK, Grant
<1>6. CASE UNCHANGED authVars
    BY <1>6 DEF authVars, AuthTypeOK
<1>7. QED
    BY <1>1, <1>2, <1>3, <1>4, <1>5, <1>6 DEF AuthNext, Restrict
\* The well-typed stores, with every policy object under its own identifier,
\* so that a grant and the policy found through it always match.
AuthInv ==
    /\ AuthTypeOK
    /\ \A i \in PolicyIDs, v \in Versions :
           versions[i][v] # NoPolicy => versions[i][v].id = i
    /\ \A i \in GrantIDs : grants[i] # NoGrant => grants[i].id # NoID

\* The stores satisfy the invariant initially.
LEMMA AuthInvInit == AuthInit => AuthInv
<1>1. AuthInit => AuthTypeOK
    BY AuthInitType
<1>2. QED
    BY <1>1, CatalogAssumption DEF AuthInit, AuthInv

\* No operator change moves a policy object to another identifier.
LEMMA AuthInvStep == AuthInv /\ [AuthNext]_authVars => AuthInv'
<1> SUFFICES ASSUME AuthInv, [AuthNext]_authVars PROVE AuthInv'
    OBVIOUS
<1>0. AuthTypeOK /\ AuthTypeOK'
    BY AuthNextType DEF AuthInv
<1> USE CatalogAssumption
<1>1. CASE Tick \/ UNCHANGED authVars
    BY <1>0, <1>1 DEF Tick, authVars, AuthInv
<1>2. ASSUME NEW p \in PolicyCatalog, SupersedePolicy(p) PROVE AuthInv'
  <2>1. p.id \in PolicyIDs
      BY DEF Policy
  <2>2. CASE current[p.id] # 0 /\ versions[p.id][current[p.id]].status = "active"
    <3> DEFINE v == current[p.id]
               old == versions[p.id][v]
               new == [old EXCEPT !.status = "superseded"]
    <3>1. v \in Versions /\ old \in Policy /\ old.id = p.id
        BY <1>0, <2>1, <2>2 DEF AuthTypeOK, AuthInv
    <3>2. new.id = p.id
        BY <3>1 DEF Policy
    <3>3. versions' = [versions EXCEPT ![p.id] = [versions[p.id] EXCEPT ![v] = new]]
        BY <1>0, <1>2, <2>1, <2>2 DEF SupersedePolicy, AuthTypeOK
    <3> HIDE DEF new, old, v
    <3>4. /\ versions'[p.id][v] = new
          /\ \A i \in PolicyIDs, u \in Versions :
               i # p.id \/ u # v => versions'[i][u] = versions[i][u]
        BY <1>0, <2>1, <3>1, <3>3 DEF AuthTypeOK
    <3>5. \A i \in PolicyIDs, u \in Versions : versions'[i][u] # NoPolicy => versions'[i][u].id = i
        BY <3>2, <3>4 DEF AuthInv
    <3>6. QED
        BY <1>0, <1>2, <3>5 DEF SupersedePolicy, AuthInv
  <2>3. CASE ~(current[p.id] # 0 /\ versions[p.id][current[p.id]].status = "active")
      BY <1>0, <1>2, <2>3 DEF SupersedePolicy, AuthInv
  <2>4. QED
      BY <2>2, <2>3
<1>3. ASSUME NEW p \in PolicyCatalog, InstallPolicy(p) PROVE AuthInv'
  <2>1. p \in Policy /\ p.id \in PolicyIDs /\ p.version \in Versions
      BY DEF Policy, Versions
  <2>2. versions' = [versions EXCEPT ![p.id] = [versions[p.id] EXCEPT ![p.version] = p]]
      BY <1>0, <1>3, <2>1 DEF InstallPolicy, AuthTypeOK
  <2>3. QED
      BY <1>0, <1>3, <2>1, <2>2 DEF InstallPolicy, AuthTypeOK, AuthInv
<1>4. ASSUME NEW id \in GrantIDs, RevokeGrant(id) PROVE AuthInv'
  <2>1. grants[id] \in Grant
      BY <1>0, <1>4 DEF RevokeGrant, AuthTypeOK
  <2> DEFINE new == [grants[id] EXCEPT !.revoked = TRUE, !.status = "revoked"]
  <2>2. new.id = grants[id].id
      BY <2>1 DEF Grant
  <2>3. grants' = [grants EXCEPT ![id] = new]
      BY <1>0, <1>4 DEF RevokeGrant, AuthTypeOK
  <2> HIDE DEF new
  <2>4. \A i \in GrantIDs : grants'[i] # NoGrant => grants'[i].id # NoID
    <3>1. grants[id] # NoGrant /\ grants'[id] = new
        BY <1>0, <1>4, <2>3 DEF RevokeGrant, AuthTypeOK
    <3>2. \A i \in GrantIDs \ {id} : grants'[i] = grants[i]
        BY <1>0, <2>3 DEF AuthTypeOK
    <3>3. QED
        BY <2>2, <3>1, <3>2 DEF AuthInv
  <2>5. QED
      BY <1>0, <1>4, <2>4 DEF RevokeGrant, AuthInv
<1>5. ASSUME NEW g \in GrantCatalog, StoreGrant(g) PROVE AuthInv'
    BY <1>0, <1>5 DEF StoreGrant, AuthTypeOK, AuthInv
<1>6. QED
    BY <1>1, <1>2, <1>3, <1>4, <1>5 DEF AuthNext, Restrict

\* The invariant holds in every state of the stores.
LEMMA AuthInvAlways == AuthSpec => []AuthInv
BY AuthInvInit, AuthInvStep, PTL DEF AuthSpec

\* What Evaluate returns for a policy and a grant found through each other.
LEMMA EvaluateExact ==
    ASSUME NEW p \in Policy, NEW g \in Grant, NEW a \in Agents, NEW cap \in Capabilities,
           NEW now \in Nat, p.status = "active", g.policy = p.id, g.id # NoID
    PROVE  LET core == /\ g.agent = a /\ g.version = p.version
                       /\ g.status = "active" /\ ~g.revoked /\ now <= g.expires
                       /\ cap \in (g.caps \cap p.allowed) \ (p.denied \cup p.protected)
           IN  /\ Evaluate(p, g, a, cap, now)[1] = "ALLOW" <=> core /\ cap \notin p.approval
               /\ Evaluate(p, g, a, cap, now)[1] = "REQUIRE_APPROVAL" <=> core /\ cap \in p.approval
<1>1. p.id \in PolicyIDs /\ g.expires \in Nat
    BY DEF Policy, Grant
<1>2. GrantIsValid(g, now) <=> ~g.revoked /\ g.status = "active" /\ now <= g.expires
    BY <1>1, NoIDAssumption DEF GrantIsValid
<1>3. QED
    BY <1>2 DEF Evaluate

\* The grant found for an agent is a stored one.
LEMMA GrantFound ==
    ASSUME AuthInv, NEW a \in Agents, GetGrantByAgent(a) # NoGrant
    PROVE  GetGrantByAgent(a) \in Grant /\ GetGrantByAgent(a).id # NoID
BY DEF AuthInv, AuthTypeOK, GetGrantByAgent

\* The policy found for an identifier is active and has that identifier.
LEMMA PolicyFound ==
    ASSUME AuthInv, NEW id, GetPolicy(id) # NoPolicy
    PROVE  GetPolicy(id) \in Policy /\ GetPolicy(id).id = id /\ GetPolicy(id).status = "active"
<1>1. id \in PolicyIDs /\ current[id] \in Versions /\ GetPolicy(id) = versions[id][current[id]]
      /\ versions[id][current[id]].status = "active"
    BY DEF AuthInv, AuthTypeOK, GetPolicy
<1>2. QED
    BY <1>1 DEF AuthInv, AuthTypeOK

\* In every state an agent is allowed exactly what its grant and its policy
\* both name, minus what is denied or protected (evaluator.go).
THEOREM LeastPrivilegeThm == AuthSpec => []LeastPrivilege
<1>1. AuthInv => LeastPrivilege
  <2> SUFFICES ASSUME AuthInv, NEW a \in Agents, NEW cap \in Capabilities
               PROVE  LET g == GetGrantByAgent(a)
                          p == IF g = NoGrant THEN NoPolicy ELSE GetPolicy(g.policy)
                          bound == /\ p # NoPolicy
                                   /\ g.agent = a /\ g.version = p.version
                                   /\ g.status = "active" /\ ~g.revoked /\ clock <= g.expires
                          core == IF bound
                                  THEN (g.caps \cap p.allowed) \ (p.denied \cup p.protected)
                                  ELSE {}
                      IN /\ (Verdict(a, cap) = "ALLOW") <=> (cap \in core /\ cap \notin p.approval)
                         /\ (Verdict(a, cap) = "REQUIRE_APPROVAL")
                              <=> (cap \in core /\ cap \in p.approval)
      BY DEF LeastPrivilege
  <2> DEFINE g == GetGrantByAgent(a)
             p == IF g = NoGrant THEN NoPolicy ELSE GetPolicy(g.policy)
  <2>1. CASE g = NoGrant \/ p = NoPolicy
      BY <2>1 DEF Verdict
  <2>2. CASE g # NoGrant /\ p # NoPolicy
    <3>1. g \in Grant /\ g.id # NoID /\ p = GetPolicy(g.policy)
        BY <2>2, GrantFound
    <3>2. p \in Policy /\ p.id = g.policy /\ p.status = "active"
        BY <2>2, <3>1, PolicyFound
    <3>3. Verdict(a, cap) = Evaluate(p, g, a, cap, clock)[1]
        BY <2>2, <3>1 DEF Verdict
    <3>4. clock \in Nat
        BY DEF AuthInv, AuthTypeOK
    <3> HIDE DEF g, p
    <3>5. /\ Verdict(a, cap) = "ALLOW" <=>
               /\ g.agent = a /\ g.version = p.version
               /\ g.status = "active" /\ ~g.revoked /\ clock <= g.expires
               /\ cap \in (g.caps \cap p.allowed) \ (p.denied \cup p.protected)
               /\ cap \notin p.approval
          /\ Verdict(a, cap) = "REQUIRE_APPROVAL" <=>
               /\ g.agent = a /\ g.version = p.version
               /\ g.status = "active" /\ ~g.revoked /\ clock <= g.expires
               /\ cap \in (g.caps \cap p.allowed) \ (p.denied \cup p.protected)
               /\ cap \in p.approval
        BY <3>1, <3>2, <3>3, <3>4, EvaluateExact
    <3>6. QED
        BY <2>2, <3>5 DEF g, p
  <2>3. QED
      BY <2>1, <2>2
<1>2. QED
    BY <1>1, AuthInvAlways, PTL

\* A restricting step leaves every verdict as it is or turns it into DENY.
LEMMA RestrictDenies ==
    ASSUME AuthInv, AuthInv', Restrict, NEW a \in Agents, NEW cap \in Capabilities
    PROVE  Verdict(a, cap)' = Verdict(a, cap) \/ Verdict(a, cap)' = "DENY"
<1> DEFINE g == GetGrantByAgent(a)
<1>1. CASE Tick
  <2>1. g' = g /\ GetPolicy(g.policy)' = GetPolicy(g.policy)
      BY <1>1 DEF Tick, GetGrantByAgent, GetPolicy
  <2>2. CASE g = NoGrant
      BY <2>1, <2>2 DEF Verdict
  <2>3. CASE g # NoGrant
    <3>1. g.expires \in Nat /\ clock \in Nat /\ clock' = clock + 1
        BY <1>1, <2>3, GrantFound DEF Grant, Tick, AuthInv, AuthTypeOK
    <3>2. GrantIsValid(g, clock') => GrantIsValid(g, clock)
        BY <3>1 DEF GrantIsValid
    <3> DEFINE p == GetPolicy(g.policy)
    <3>3. \/ Evaluate(p, g, a, cap, clock')[1] = Evaluate(p, g, a, cap, clock)[1]
          \/ Evaluate(p, g, a, cap, clock')[1] = "DENY"
        BY <3>2 DEF Evaluate
    <3>4. QED
        BY <2>1, <3>3 DEF Verdict
  <2>4. QED
      BY <2>2, <2>3
<1>2. ASSUME NEW q \in PolicyCatalog, SupersedePolicy(q)
      PROVE  Verdict(a, cap)' = Verdict(a, cap) \/ Verdict(a, cap)' = "DENY"
  <2>1. g' = g /\ clock' = clock /\ current' = current
      BY <1>2 DEF SupersedePolicy, GetGrantByAgent
  <2>2. GetPolicy(g.policy)' = GetPolicy(g.policy) \/ GetPolicy(g.policy)' = NoPolicy
    <3>1. q.id \in PolicyIDs
        BY CatalogAssumption DEF Policy
    <3>2. CASE current[q.id] # 0 /\ versions[q.id][current[q.id]].status = "active"
      <4> DEFINE v == current[q.id]
                 new == [versions[q.id][v] EXCEPT !.status = "superseded"]
      <4>1. v \in Versions /\ versions[q.id][v] \in Policy
          BY <3>1, <3>2 DEF AuthTypeOK, AuthInv
      <4>2. new.status = "superseded"
          BY <4>1 DEF Policy
      <4>3. versions' = [versions EXCEPT ![q.id] = [versions[q.id] EXCEPT ![v] = new]]
          BY <1>2, <3>1, <3>2 DEF SupersedePolicy, AuthTypeOK, AuthInv
      <4> HIDE DEF new, v
      <4>4. /\ versions'[q.id][v].status = "superseded"
            /\ \A i \in PolicyIDs : i # q.id => versions'[i] = versions[i]
          BY <3>1, <4>1, <4>2, <4>3 DEF AuthTypeOK, AuthInv
      <4>5. QED
          BY <2>1, <4>4 DEF GetPolicy, v
    <3>3. CASE ~(current[q.id] # 0 /\ versions[q.id][current[q.id]].status = "active")
      <4>1. versions' = versions
          BY <1>2, <3>3 DEF SupersedePolicy
      <4>2. QED
          BY <2>1, <4>1 DEF GetPolicy
    <3>4. QED
        BY <3>2, <3>3
  <2>3. QED
      BY <2>1, <2>2 DEF Verdict
<1>3. ASSUME NEW id \in GrantIDs, RevokeGrant(id)
      PROVE  Verdict(a, cap)' = Verdict(a, cap) \/ Verdict(a, cap)' = "DENY"
  <2> DEFINE new == [grants[id] EXCEPT !.revoked = TRUE, !.status = "revoked"]
  <2>1. new.revoked = TRUE /\ new.status = "revoked"
      BY <1>3 DEF RevokeGrant, AuthInv, AuthTypeOK, Grant
  <2>2. grants' = [grants EXCEPT ![id] = new]
      BY <1>3 DEF RevokeGrant, AuthInv, AuthTypeOK
  <2>3. UNCHANGED <<clock, versions, current, byAgent>>
      BY <1>3 DEF RevokeGrant
  <2>4. g' = g \/ g' = new
      BY <2>2, <2>3 DEF GetGrantByAgent, AuthInv, AuthTypeOK
  <2>5. CASE g' = g
    <3>1. GetPolicy(g.policy)' = GetPolicy(g.policy)
        BY <2>3, <2>5 DEF GetPolicy
    <3>2. QED
        BY <2>3, <2>5, <3>1 DEF Verdict
  <2>6. CASE g' = new
    <3>1. ~GrantIsValid(g', clock')
        BY <2>1, <2>6 DEF GrantIsValid
    <3>2. \A p : Evaluate(p, g', a, cap, clock')[1] = "DENY"
        BY <3>1 DEF Evaluate
    <3>3. QED
        BY <3>2 DEF Verdict
  <2>7. QED
      BY <2>4, <2>5, <2>6
<1>4. QED
    BY <1>1, <1>2, <1>3 DEF Restrict

\* A tick, an UpdatePolicy that has only superseded, and a RevokeGrant never
\* raise what any agent may do, in any reachable state.
THEOREM RestrictingNeverWidensThm == AuthSpec => RestrictingNeverWidens
<1>1. AuthInv /\ AuthInv' /\ [AuthNext]_authVars
        => [Restrict => \A a \in Agents, cap \in Capabilities :
                           Rank(Verdict(a, cap)') <= Rank(Verdict(a, cap))]_authVars
  <2> SUFFICES ASSUME AuthInv, AuthInv', Restrict,
                      NEW a \in Agents, NEW cap \in Capabilities
               PROVE  Rank(Verdict(a, cap)') <= Rank(Verdict(a, cap))
      OBVIOUS
  <2>1. Verdict(a, cap)' = Verdict(a, cap) \/ Verdict(a, cap)' = "DENY"
      BY RestrictDenies
  <2>2. Verdict(a, cap) \in DecisionStatus
      BY VerdictType
  <2>3. QED
      BY <2>1, <2>2 DEF Rank, DecisionStatus
<1>2. QED
    BY <1>1, AuthInvAlways, PTL DEF AuthSpec, RestrictingNeverWidens
-----------------------------------------------------------------------------
\* The locals of a call that has returned are well typed.
LEMMA NoCallType == NoCall \in Call
BY ApprovalAssumption DEF NoCall, Call, AllKinds, DecisionStatus

\* An absent approval is well typed.
LEMMA NoApprovalType == NoApproval \in Approval
BY ApprovalAssumption DEF NoApproval, Approval, ApprovalStatus

\* The writes of the approval store keep it well typed.
LEMMA StoreExceptType ==
    ASSUME NEW store \in [ApprovalIDs -> Approval], NEW id \in ApprovalIDs,
           NEW st \in ApprovalStatus, NEW h \in Hashes
    PROVE  /\ [store EXCEPT ![id].status = st] \in [ApprovalIDs -> Approval]
           /\ [store EXCEPT ![id].status = st, ![id].hash = h] \in [ApprovalIDs -> Approval]
<1>1. /\ [store[id] EXCEPT !.status = st] \in Approval
      /\ [store[id] EXCEPT !.status = st, !.hash = h] \in Approval
    BY DEF Approval
<1>2. QED
    BY <1>1

\* The locals of an evaluated request are well typed.
LEMMA CallPolicyType ==
    ASSUME NEW k \in Call, NEW d \in DecisionIDs, NEW p \in Policy,
           NEW q \in RequestIDs
    PROVE  [k EXCEPT !.dec = d, !.policy = p.id, !.version = p.version,
                     !.res = q] \in Call
<1>1. p.id \in PolicyIDs /\ p.version \in Nat
    BY DEF Policy
<1>2. QED
    BY <1>1 DEF Call

\* LatestDecision finds a recorded decision under d, or answers 0.
LEMMA LatestDecisionFound ==
    ASSUME TypeOK, NEW d, LatestDecision(d) # 0
    PROVE  /\ LatestDecision(d) \in DOMAIN events
           /\ events[LatestDecision(d)].dec = d
           /\ events[LatestDecision(d)].type = "AUTHORIZATION_DECISION"
<1>1. PICK i \in DOMAIN events : IsDecision(events, d, i)
    BY DEF LatestDecision
<1>2. LatestDecision(d) = CHOOSE j \in DOMAIN events : IsDecision(events, d, j)
    BY <1>1 DEF LatestDecision
<1>3. LatestDecision(d) \in DOMAIN events /\ IsDecision(events, d, LatestDecision(d))
    BY <1>1, <1>2
<1>4. QED
    BY <1>3 DEF IsDecision

\* LatestDecision is a place in the ledger or 0.
LEMMA LatestDecisionType ==
    ASSUME TypeOK, NEW d PROVE LatestDecision(d) \in Nat
<1>1. DOMAIN events = 1 .. Len(events) /\ Len(events) \in Nat
    BY DEF TypeOK
<1>2. QED
    BY <1>1, LatestDecisionFound

\* Moving a caller with well-typed locals keeps pc and call well typed.
LEMMA ContinueType ==
    ASSUME TypeOK, NEW c \in Callers, NEW label \in PCs, NEW k \in Call,
           Continue(c, label, k)
    PROVE  pc' \in [Callers -> PCs] /\ call' \in [Callers -> Call]
BY NoCallType DEF Continue, Goto, TypeOK

\* Moving a caller keeps pc well typed.
LEMMA GotoType ==
    ASSUME TypeOK, NEW c \in Callers, NEW label \in PCs, Goto(c, label)
    PROVE  pc' \in [Callers -> PCs]
BY DEF Goto, TypeOK

\* A call's event is well typed.
LEMMA EventOfType ==
    ASSUME TypeOK, NEW c \in Callers,
           NEW type \in {"AUTHORIZATION_DECISION", "EXECUTION_ALLOWED", "EXECUTION_BLOCKED"},
           NEW decision \in DecisionStatus
    PROVE  EventOf(c, type, decision) \in Event
<1>1. call[c] \in Call
    BY DEF TypeOK
<1>2. QED
    BY <1>1, ApprovalAssumption DEF EventOf, Event, Call, DecisionStatus

\* A projected audit event is well typed, no execution and no decision.
LEMMA LegacyType ==
    ASSUME NEW agent \in Agents \cup {NoID}, NEW cap \in Capabilities \cup {NoID},
           NEW type \in {"LEGACY_EXECUTION_ALLOWED", "LEGACY_EXECUTION_BLOCKED",
                         "LEGACY_HANDOFF_VALIDATION"},
           NEW decision \in DecisionStatus \cup {"NONE"}
    PROVE  /\ LegacyEvent(agent, cap, type, decision) \in Event
           /\ LegacyEvent(agent, cap, type, decision).type # "EXECUTION_ALLOWED"
           /\ EntrySound(LegacyEvent(agent, cap, type, decision))
BY ApprovalAssumption DEF LegacyEvent, Event, EntrySound

\* Changing the status, the time, the approval flag or the place of the
\* decision of a call.
LEMMA CallExceptType ==
    ASSUME NEW k \in Call, NEW st \in DecisionStatus, NEW t \in Nat, NEW b \in BOOLEAN
    PROVE  /\ [k EXCEPT !.status = st] \in Call
           /\ [k EXCEPT !.status = st, !.via = b] \in Call
           /\ [k EXCEPT !.now = t, !.status = st] \in Call
           /\ [k EXCEPT !.from = t] \in Call
<1>1. [k EXCEPT !.status = st] \in Call
    BY DEF Call
<1>2. [k EXCEPT !.status = st, !.via = b] \in Call
    BY DEF Call
<1>3. [k EXCEPT !.now = t, !.status = st] \in Call
    BY DEF Call
<1>4. [k EXCEPT !.from = t] \in Call
    BY DEF Call
<1>5. QED
    BY <1>1, <1>2, <1>3, <1>4

\* Init satisfies the type invariant.
LEMMA InitType == Init => TypeOK
BY AuthInitType, NoCallType, NoApprovalType, GateAssumption DEF Init, TypeOK, PCs

\* Every step preserves the type invariant.
LEMMA NextType == TypeOK /\ [Next]_vars => TypeOK'
<1> SUFFICES ASSUME TypeOK, [Next]_vars PROVE TypeOK'
    OBVIOUS
<1> USE GateAssumption, ApprovalAssumption, NoIDAssumption
<1>a. UNCHANGED authVars => AuthTypeOK'
    BY AuthNextType DEF TypeOK
<1>1. ASSUME NEW c \in Callers, NEW kind \in Kinds \ {"direct"}, NEW r \in Requests,
             NEW d \in DecisionIDs, NEW a \in ApprovalIDs \cup {NoID},
             Receive(c, kind, r, d, a)
      PROVE  TypeOK'
  <2> DEFINE g == GetGrantByAgent(r.agent)
             p == IF g = NoGrant THEN NoPolicy ELSE GetPolicy(g.policy)
             status == Verdict(r.agent, r.cap)
             base == [NoCall EXCEPT !.kind = kind, !.req = r.id, !.agent = r.agent,
                                    !.cap = r.cap, !.hash = r.hash, !.apr = a,
                                    !.now = clock, !.status = status]
             full == [base EXCEPT !.dec = d, !.policy = p.id, !.version = p.version,
                                  !.res = r.id]
  <2>1. r \in [id : RequestIDs, agent : Agents, cap : Capabilities, hash : Hashes]
      OBVIOUS
  <2>2. status \in DecisionStatus
      BY <2>1, VerdictType
  <2>3. base \in Call
      BY <2>1, <2>2, NoCallType DEF Call, NoCall, TypeOK, AuthTypeOK, AllKinds
  <2>4. p # NoPolicy => p \in Policy
      BY DEF GetPolicy, TypeOK, AuthTypeOK
  <2>5. p # NoPolicy => full \in Call
    <3> HIDE DEF p, base
    <3>1. QED
        BY <2>1, <2>3, <2>4, CallPolicyType
  <2>6. pc' \in [Callers -> PCs] /\ call' \in [Callers -> Call]
    <3>1. CASE p = NoPolicy
      <4> DEFINE label == CASE kind = "gate" -> "audit"
                            [] kind = "execute" -> "canonical"
                            [] kind = "authorize" -> "idle"
      <4>1. label \in PCs
          BY DEF AllKinds, PCs
      <4>2. Continue(c, label, base)
          BY <1>1, <3>1 DEF Receive
      <4>3. QED
          BY <4>1, <4>2, <2>3, ContinueType
    <3>2. CASE p # NoPolicy
      <4> DEFINE label == IF status = "REQUIRE_APPROVAL" /\ a # NoID
                          THEN "approval" ELSE "decide"
      <4>1. label \in PCs
          BY DEF PCs
      <4>2. Continue(c, label, full)
          BY <1>1, <3>2 DEF Receive
      <4>3. QED
          BY <4>1, <4>2, <3>2, <2>5, ContinueType
    <3>3. QED
        BY <3>1, <3>2
  <2>7. started' \in 0..MaxCalls
      BY <1>1 DEF Receive, TypeOK
  <2>8. QED
      BY <1>1, <1>a, <2>6, <2>7 DEF Receive, TypeOK
<1>2. ASSUME NEW c \in Callers, NEW r \in Requests, NEW q \in RequestIDs \cup {NoID},
             NEW d \in DecisionIDs, NEW a \in ApprovalIDs \cup {NoID},
             ExecuteDecision(c, r, q, d, a)
      PROVE  TypeOK'
  <2> DEFINE k == [NoCall EXCEPT !.kind = "direct", !.req = IF q = NoID THEN r.id ELSE q,
                                 !.res = r.id, !.agent = r.agent,
                                 !.cap = r.cap, !.hash = r.hash, !.dec = d, !.apr = a,
                                 !.now = clock, !.status = "ALLOW",
                                 !.from = LatestDecision(d)]
  <2>1. r \in [id : RequestIDs, agent : Agents, cap : Capabilities, hash : Hashes]
      OBVIOUS
  <2>2. k \in Call
    <3>1. PICK n \in Nat : n = LatestDecision(d)
        BY LatestDecisionType
    <3>2. PICK id \in RequestIDs : id = IF q = NoID THEN r.id ELSE q
        BY <2>1
    <3>3. clock \in Nat
        BY DEF TypeOK, AuthTypeOK
    <3>4. [NoCall EXCEPT !.kind = "direct", !.req = id, !.res = r.id, !.agent = r.agent,
                         !.cap = r.cap, !.hash = r.hash, !.dec = d, !.apr = a,
                         !.now = clock, !.status = "ALLOW", !.from = n] \in Call
        BY ZenonT(60), <2>1, <3>3, NoCallType DEF Call, NoCall, AllKinds, DecisionStatus
    <3>5. QED
        BY <3>1, <3>2, <3>4
  <2>3. call' \in [Callers -> Call]
      BY <1>2, <2>2 DEF ExecuteDecision, TypeOK
  <2>4. pc' \in [Callers -> PCs]
      BY <1>2, GotoType DEF ExecuteDecision, PCs
  <2>5. QED
      BY <1>2, <1>a, <2>3, <2>4 DEF ExecuteDecision, TypeOK
<1>3. ASSUME NEW c \in Callers, CheckApproval(c) PROVE TypeOK'
  <2>1. PICK ok \in BOOLEAN :
           call' = [call EXCEPT ![c].status = IF ok THEN "ALLOW" ELSE "DENY", ![c].via = ok]
      BY <1>3 DEF CheckApproval, BoundTo, ApprovalIsValid
  <2>2. call' = [call EXCEPT ![c] =
                   [call[c] EXCEPT !.status = IF ok THEN "ALLOW" ELSE "DENY", !.via = ok]]
      BY <2>1 DEF TypeOK
  <2>3. call' \in [Callers -> Call]
      BY <2>2, CallExceptType DEF TypeOK, DecisionStatus
  <2>4. pc' \in [Callers -> PCs]
      BY <1>3, GotoType DEF CheckApproval, PCs
  <2>5. QED
      BY <1>3, <1>a, <2>3, <2>4 DEF CheckApproval, TypeOK
<1>4. ASSUME NEW c \in Callers, RecordDecision(c) PROVE TypeOK'
  <2>1. call[c] \in Call /\ call[c].status \in DecisionStatus
      BY DEF TypeOK, Call
  <2>2. events' \in Seq(Event)
    <3>1. PICK e \in Event : events' = Append(events, e)
        BY <1>4, <2>1, EventOfType DEF RecordDecision
    <3>2. QED
        BY <3>1 DEF TypeOK
  <2>3. PICK label \in PCs :
          Continue(c, label, [call[c] EXCEPT !.from = Len(events) + 1])
      BY <1>4 DEF RecordDecision, PCs
  <2>4. [call[c] EXCEPT !.from = Len(events) + 1] \in Call
    <3>1. PICK n \in Nat : n = Len(events) + 1
        BY DEF TypeOK
    <3>2. QED
        BY <2>1, <3>1, CallExceptType
  <2>5. pc' \in [Callers -> PCs] /\ call' \in [Callers -> Call]
      BY <2>3, <2>4, ContinueType
  <2>6. QED
      BY <1>4, <1>a, <2>2, <2>5 DEF RecordDecision, TypeOK
<1>5. ASSUME NEW c \in Callers, Handoff(c) PROVE TypeOK'
  <2>1. call' \in [Callers -> Call]
    <3>1. CASE UNCHANGED call
        BY <3>1 DEF TypeOK
    <3>2. CASE call' = [call EXCEPT ![c].status = "DENY"]
        BY <3>2, CallExceptType DEF TypeOK, DecisionStatus
    <3>3. QED
        BY <1>5, <3>1, <3>2 DEF Handoff
  <2>2. pc' \in [Callers -> PCs]
      BY <1>5, GotoType DEF Handoff, PCs
  <2>3. call[c].agent \in Agents \cup {NoID}
      BY DEF TypeOK, Call
  <2>4. events' \in Seq(Event)
    <3>1. CASE events' = events
        BY <3>1 DEF TypeOK
    <3>2. CASE events' # events
      <4>1. PICK e \in Event : events' = Append(events, e)
          BY <1>5, <2>3, <3>2, LegacyType DEF Handoff
      <4>2. QED
          BY <4>1 DEF TypeOK
    <3>3. QED
        BY <3>1, <3>2
  <2>5. QED
      BY <1>5, <1>a, <2>1, <2>2, <2>4 DEF Handoff, TypeOK
<1>6. ASSUME NEW c \in Callers, CheckCanonical(c) PROVE TypeOK'
  <2>1. PICK ok \in BOOLEAN :
           /\ call' = [call EXCEPT ![c].now = IF call[c].kind = "execute" THEN call[c].now
                                                                          ELSE clock,
                                   ![c].status = IF ok THEN @ ELSE "DENY"]
           /\ Goto(c, IF ok THEN "executed" ELSE "execute")
      BY <1>6 DEF CheckCanonical, Canonical
  <2>2. call[c] \in Call /\ call[c].status \in DecisionStatus /\ call[c].now \in Nat
        /\ clock \in Nat
      BY DEF TypeOK, AuthTypeOK, Call
  <2> DEFINE st == IF ok THEN call[c].status ELSE "DENY"
             now == IF call[c].kind = "execute" THEN call[c].now ELSE clock
  <2>3. call' = [call EXCEPT ![c] = [call[c] EXCEPT !.now = now, !.status = st]]
      BY <2>1 DEF TypeOK
  <2>4. st \in DecisionStatus /\ now \in Nat
      BY <2>2 DEF DecisionStatus
  <2>5. call' \in [Callers -> Call]
      BY <2>2, <2>3, <2>4, CallExceptType DEF TypeOK
  <2>6. pc' \in [Callers -> PCs]
      BY <2>1, GotoType DEF PCs
  <2>7. QED
      BY <1>6, <1>a, <2>5, <2>6 DEF CheckCanonical, TypeOK
<1>7. ASSUME NEW c \in Callers, CheckExecuted(c) PROVE TypeOK'
  <2>1. PICK done \in BOOLEAN :
           /\ call' = [call EXCEPT ![c].status = IF done THEN "DENY" ELSE @]
           /\ \E label \in PCs : Goto(c, label)
      BY <1>7 DEF CheckExecuted, HasExecution, PCs
  <2>2. call[c] \in Call /\ call[c].status \in DecisionStatus
      BY DEF TypeOK, Call
  <2>3. call' = [call EXCEPT ![c] =
                   [call[c] EXCEPT !.status = IF done THEN "DENY" ELSE call[c].status]]
      BY <2>1 DEF TypeOK
  <2>4. call' \in [Callers -> Call]
      BY <2>2, <2>3, CallExceptType DEF TypeOK, DecisionStatus
  <2>5. QED
      BY <1>7, <1>a, <2>1, <2>4, GotoType DEF CheckExecuted, TypeOK
<1>8. ASSUME NEW c \in Callers, ConsumeApproval(c) PROVE TypeOK'
  <2>1. approvals' \in [ApprovalIDs -> Approval]
    <3>1. call[c].apr \in ApprovalIDs \cup {NoID}
        BY DEF TypeOK, Call
    <3>2. Consumed(approvals, call[c].apr) \in [ApprovalIDs -> Approval]
      <4>1. CASE call[c].apr \in ApprovalIDs
          BY <4>1, StoreExceptType DEF Consumed, TypeOK, ApprovalStatus
      <4>2. CASE call[c].apr = NoID
          BY <4>2 DEF Consumed, TypeOK
      <4>3. QED
          BY <3>1, <4>1, <4>2
    <3>3. QED
        BY <1>8, <3>2 DEF ConsumeApproval, TypeOK
  <2>2. call' \in [Callers -> Call]
    <3>1. CASE UNCHANGED call
        BY <3>1 DEF TypeOK
    <3>2. CASE call' = [call EXCEPT ![c].status = "DENY"]
        BY <3>2, CallExceptType DEF TypeOK, DecisionStatus
    <3>3. QED
        BY <1>8, <3>1, <3>2 DEF ConsumeApproval
  <2>3. pc' \in [Callers -> PCs]
      BY <1>8, GotoType DEF ConsumeApproval, PCs
  <2>4. QED
      BY <1>8, <1>a, <2>1, <2>2, <2>3 DEF ConsumeApproval, TypeOK
<1>9. ASSUME NEW c \in Callers, RecordExecution(c) PROVE TypeOK'
  <2>1. events' \in Seq(Event)
    <3>1. PICK e \in Event : events' = Append(events, e)
        BY <1>9, EventOfType DEF RecordExecution, DecisionStatus
    <3>2. QED
        BY <3>1 DEF TypeOK
  <2>2. PICK label \in PCs : Continue(c, label, call[c])
      BY <1>9 DEF RecordExecution, PCs
  <2>3. QED
      BY <1>9, <1>a, <2>1, <2>2, ContinueType DEF RecordExecution, TypeOK
<1>10. ASSUME NEW c \in Callers, Audit(c) PROVE TypeOK'
  <2>1. events' \in Seq(Event)
    <3>0. call[c].agent \in Agents \cup {NoID} /\ call[c].cap \in Capabilities \cup {NoID}
        BY DEF TypeOK, Call
    <3>1. PICK e \in Event : events' = Append(events, e)
        BY <1>10, <3>0, LegacyType DEF Audit, DecisionStatus
    <3>2. QED
        BY <3>1 DEF TypeOK
  <2>2. pc' \in [Callers -> PCs] /\ call' \in [Callers -> Call]
      BY <1>10, NoCallType, ContinueType DEF Audit, PCs
  <2>3. QED
      BY <1>10, <1>a, <2>1, <2>2 DEF Audit, TypeOK
<1>11. ASSUME NEW c \in Callers, NEW d \in DecisionIDs, NEW e \in Expiries,
              RequestApproval(c, d, e)
       PROVE  TypeOK'
  <2>1. PICK i \in DOMAIN events :
          call' = [call EXCEPT ![c] =
              [NoCall EXCEPT !.kind = "request", !.dec = d, !.agent = events[i].agent,
                             !.cap = events[i].cap, !.hash = events[i].hash,
                             !.policy = events[i].policy, !.version = events[i].version,
                             !.expires = e]]
      BY <1>11 DEF RequestApproval
  <2>2. events[i] \in Event
      BY <2>1 DEF TypeOK
  <2>3. [NoCall EXCEPT !.kind = "request", !.dec = d, !.agent = events[i].agent,
                       !.cap = events[i].cap, !.hash = events[i].hash,
                       !.policy = events[i].policy, !.version = events[i].version,
                       !.expires = e] \in Call
    <3>1. /\ events[i].agent \in Agents \cup {NoID} /\ events[i].cap \in Capabilities \cup {NoID}
          /\ events[i].hash \in Hashes /\ events[i].policy \in PolicyIDs \cup {NoID}
          /\ events[i].version \in Nat
        BY <2>2 DEF Event
    <3>2. QED
        BY ZenonT(60), <3>1, NoCallType DEF Call, NoCall
  <2>4. call' \in [Callers -> Call]
      BY <2>1, <2>3 DEF TypeOK
  <2>5. pc' \in [Callers -> PCs]
      BY <1>11, GotoType DEF RequestApproval, PCs
  <2>6. QED
      BY <1>11, <1>a, <2>4, <2>5 DEF RequestApproval, TypeOK
<1>12. ASSUME NEW c \in Callers, CreateApproval(c) PROVE TypeOK'
  <2>1. PICK id \in ApprovalIDs :
          approvals' = Created(approvals, id, call[c], call[c].expires)
      BY <1>12 DEF CreateApproval, FreeApprovalIDs
  <2>2. call[c] \in Call
      BY DEF TypeOK
  <2>3. approvals' \in [ApprovalIDs -> Approval]
      BY <2>1, <2>2 DEF Created, TypeOK, Call, Approval, ApprovalStatus
  <2>4. pc' \in [Callers -> PCs] /\ call' \in [Callers -> Call]
      BY <1>12, NoCallType, ContinueType DEF CreateApproval, PCs
  <2>5. QED
      BY <1>12, <1>a, <2>3, <2>4 DEF CreateApproval, TypeOK
<1>13. ASSUME NEW id \in ApprovalIDs, NEW h \in Hashes, Approve(id, h) PROVE TypeOK'
  <2>1. approvals' \in [ApprovalIDs -> Approval]
    <3> DEFINE hh == IF approvals[id].hash # NoHash THEN approvals[id].hash ELSE h
    <3>1. approvals[id].hash \in Hashes
        BY DEF TypeOK, Approval
    <3>2. \/ approvals' = approvals
          \/ approvals' = [approvals EXCEPT ![id].status = "expired"]
          \/ approvals' = [approvals EXCEPT ![id].status = "approved", ![id].hash = hh]
        BY <1>13 DEF Approve, Approved, TypeOK
    <3>3. approvals \in [ApprovalIDs -> Approval] /\ hh \in Hashes
        BY <3>1 DEF TypeOK
    <3>4. {"expired", "approved"} \subseteq ApprovalStatus
        BY DEF ApprovalStatus
    <3>5. [approvals EXCEPT ![id].status = "expired"] \in [ApprovalIDs -> Approval]
        BY <3>3, <3>4, StoreExceptType
    <3>6. [approvals EXCEPT ![id].status = "approved", ![id].hash = hh]
            \in [ApprovalIDs -> Approval]
      <4> HIDE DEF hh
      <4>1. QED
          BY <3>3, <3>4, StoreExceptType
    <3>7. QED
        BY <3>2, <3>3, <3>5, <3>6
  <2>2. QED
      BY <1>13, <1>a, <2>1 DEF Approve, TypeOK
<1>14. ASSUME NEW id \in ApprovalIDs, Reject(id) PROVE TypeOK'
  <2>1. approvals' \in [ApprovalIDs -> Approval]
    <3>1. \/ approvals' = approvals
          \/ approvals' = [approvals EXCEPT ![id].status = "expired"]
          \/ approvals' = [approvals EXCEPT ![id].status = "rejected"]
        BY <1>14 DEF Reject, Rejected, TypeOK
    <3>2. approvals \in [ApprovalIDs -> Approval] /\ NoHash \in Hashes
        BY DEF TypeOK
    <3>3. {"expired", "rejected"} \subseteq ApprovalStatus
        BY DEF ApprovalStatus
    <3>4. \A st \in {"expired", "rejected"} :
             [approvals EXCEPT ![id].status = st] \in [ApprovalIDs -> Approval]
        BY <3>2, <3>3, StoreExceptType
    <3>5. QED
        BY <3>1, <3>2, <3>4
  <2>2. QED
      BY <1>14, <1>a, <2>1 DEF Reject, TypeOK
<1>15. CASE AuthorityStep
    BY <1>15, AuthNextType DEF AuthorityStep, gateVars, TypeOK
<1>16. CASE UNCHANGED vars
    BY <1>16, <1>a DEF vars, gateVars, TypeOK
<1>17. QED
    BY <1>1, <1>2, <1>3, <1>4, <1>5, <1>6, <1>7, <1>8, <1>9, <1>10, <1>11, <1>12,
       <1>13, <1>14, <1>15, <1>16 DEF Next, CallerStep, ReviewerStep

\* Type correctness of the execution boundary in every reachable state.
THEOREM TypeCorrect == Spec => []TypeOK
BY InitType, NextType, PTL DEF Spec
-----------------------------------------------------------------------------
(***************************************************************************)
(* GateInv is inductive.  Most steps are quiet: they record no execution,  *)
(* leave approved and consumed approvals alone, and leave every caller as  *)
(* it was or in a state that satisfies its own part of the invariant.      *)
(* Consuming an approval and recording an execution are treated apart.     *)
(***************************************************************************)
QuietLog ==
    \/ events' = events
    \/ \E e \in Event : /\ e.type # "EXECUTION_ALLOWED" /\ EntrySound(e)
                        /\ events' = Append(events, e)

QuietStore ==
    \A id \in ApprovalIDs :
      approvals[id].status \in {"approved", "consumed"} => approvals'[id] = approvals[id]

Same(x) == pc'[x] = pc[x] /\ call'[x] = call[x]
Fine(x) == ~Paid(x) /\ Backed(x) /\ Bound(x)

\* Appending to the ledger changes no earlier event.
LEMMA LogGrows ==
    ASSUME TypeOK, NEW e \in Event, events' = Append(events, e)
    PROVE  /\ DOMAIN events = 1 .. Len(events)
           /\ DOMAIN events' = 1 .. (Len(events) + 1)
           /\ \A i \in DOMAIN events : events'[i] = events[i]
           /\ events'[Len(events) + 1] = e
           /\ Len(events) \in Nat
BY DEF TypeOK

\* The executions of the ledger after a quiet append are those before it.
LEMMA QuietExecutions ==
    ASSUME TypeOK, QuietLog
    PROVE  /\ Executions' = Executions
           /\ DOMAIN events \subseteq DOMAIN events'
           /\ \A i \in DOMAIN events : events'[i] = events[i]
<1>1. CASE events' = events
    BY <1>1 DEF Executions
<1>2. ASSUME NEW e \in Event, e.type # "EXECUTION_ALLOWED", events' = Append(events, e)
      PROVE  /\ Executions' = Executions
             /\ DOMAIN events \subseteq DOMAIN events'
             /\ \A i \in DOMAIN events : events'[i] = events[i]
    BY <1>2, LogGrows DEF Executions
<1>3. QED
    BY <1>1, <1>2 DEF QuietLog

\* An ALLOW that supports a call or an execution goes on supporting it.
LEMMA SupportLasts ==
    ASSUME NEW x, NEW i \in DOMAIN events, events'[i] = events[i], Supports(i, x)
    PROVE  /\ i >= x.from
           /\ events'[i].type = "AUTHORIZATION_DECISION" /\ events'[i].decision = "ALLOW"
           /\ events'[i].dec = x.dec /\ events'[i].agent = x.agent
           /\ events'[i].cap = x.cap /\ events'[i].hash = x.hash
BY DEF Supports, Allows

\* The locals m are about the same action as the locals k.
SameAction(k, m) ==
    /\ m.kind = k.kind /\ m.req = k.req /\ m.res = k.res /\ m.from = k.from
    /\ m.dec = k.dec /\ m.agent = k.agent /\ m.cap = k.cap /\ m.hash = k.hash
    /\ m.policy = k.policy /\ m.version = k.version /\ m.apr = k.apr

\* A caller that goes on with the same action stays backed, if it is backed
\* where it enters the execution path.
LEMMA StillBacked ==
    ASSUME GateInv, NEW c \in Callers, SameAction(call[c], call'[c]),
           DOMAIN events \subseteq DOMAIN events',
           \A i \in DOMAIN events : events'[i] = events[i],
           pc'[c] \in {"approval", "decide"} => pc[c] \in {"approval", "decide"},
           pc'[c] \in {"executed", "consume", "execute"} /\ call'[c].status = "ALLOW" =>
             \E i \in DOMAIN events :
               /\ Supports(i, call[c])
               /\ call[c].kind = "direct" \/ events[i].req = call[c].req
    PROVE  Backed(c)'
<1>1. Backed(c)
    BY DEF GateInv
<1>2. /\ call'[c].kind = "direct" \/ call'[c].res \in {NoID, call'[c].req}
      /\ pc'[c] \in {"approval", "decide"} => call'[c].req # NoID
    BY <1>1 DEF Backed, SameAction
<1>3. call'[c].from # 0 =>
         /\ call'[c].from \in DOMAIN events' /\ events'[call'[c].from].dec = call'[c].dec
         /\ events'[call'[c].from].type = "AUTHORIZATION_DECISION"
    BY <1>1 DEF Backed, SameAction
<1>4. ASSUME pc'[c] \in {"executed", "consume", "execute"}, call'[c].status = "ALLOW"
      PROVE  \E i \in DOMAIN events' :
               /\ Supports(i, call[c])'
               /\ call'[c].kind = "direct" \/ events'[i].req = call'[c].req
  <2>1. PICK i \in DOMAIN events :
           /\ Supports(i, call[c])
           /\ call[c].kind = "direct" \/ events[i].req = call[c].req
      BY <1>4
  <2>2. Supports(i, call[c])'
      BY <2>1, SupportLasts DEF SameAction, Supports, Allows
  <2>3. QED
      BY <2>1, <2>2 DEF SameAction
<1>5. QED
    BY <1>2, <1>3, <1>4 DEF Backed

\* A caller that does not move keeps its part of the invariant.
LEMMA UnmovedCaller ==
    ASSUME GateInv, NEW x \in Callers, Same(x), QuietStore,
           DOMAIN events \subseteq DOMAIN events',
           \A i \in DOMAIN events : events'[i] = events[i]
    PROVE  /\ Backed(x)' /\ Bound(x)'
           /\ Paid(x)' => Paid(x)
<1>1. Backed(x)'
  <2>1. SameAction(call[x], call'[x]) /\ pc'[x] = pc[x] /\ call'[x] = call[x]
      BY DEF Same, SameAction
  <2>2. Backed(x)
      BY DEF GateInv
  <2>3. QED
      BY <2>1, <2>2, StillBacked DEF Backed
<1>2. call[x].apr \in ApprovalIDs \cup {NoID}
    BY DEF GateInv, TypeOK, Call
<1>3. Bound(x)'
    BY <1>2 DEF Bound, Same, QuietStore, SameBinding, GateInv
<1>4. Paid(x)' => Paid(x)
    BY DEF Paid, Same
<1>5. QED
    BY <1>1, <1>3, <1>4

\* Every quiet step preserves the invariant.
LEMMA QuietStep ==
    ASSUME GateInv, TypeOK', QuietLog, QuietStore,
           \A x \in Callers : Same(x) \/ Fine(x)'
    PROVE  GateInv'
<1> USE DEF GateInv
<1>1. /\ Executions' = Executions
      /\ DOMAIN events \subseteq DOMAIN events'
      /\ \A i \in DOMAIN events : events'[i] = events[i]
    BY QuietExecutions
<1>2. \A k \in Executions : events'[k] = events[k] /\ events[k] \in Event
                            /\ k \in DOMAIN events
    BY <1>1 DEF Executions, TypeOK
<1>3. \A x \in Callers : Backed(x)' /\ Bound(x)' /\ (Paid(x)' => Same(x) /\ Paid(x))
    BY <1>1, UnmovedCaller DEF Fine
<1>4. ExecutionAuthorized'
  <2> SUFFICES ASSUME NEW k \in Executions
               PROVE  \E i \in 1 .. (k - 1) :
                        /\ Supports(i, events[k])'
                        /\ events'[k].direct \/ events'[i].req = events'[k].req
      BY <1>1 DEF ExecutionAuthorized
  <2>1. PICK i \in 1 .. (k - 1) :
          Supports(i, events[k]) /\ (events[k].direct \/ events[i].req = events[k].req)
      BY DEF ExecutionAuthorized
  <2>2. i \in DOMAIN events
      BY <1>2 DEF TypeOK
  <2>3. QED
      BY <1>1, <1>2, <2>1, <2>2 DEF Supports, Allows
<1>5. ApprovalSingleUse'
    BY <1>1, <1>2 DEF ApprovalSingleUse
<1>6. \A k \in Executions : events[k].apr \in ApprovalIDs \cup {NoID}
    BY <1>2 DEF Event
<1>e. \A i \in DOMAIN events' : EntrySound(events[i])'
  <2>1. \A e \in Event : EntrySound(e) => EntrySound(e)'
    <3> SUFFICES ASSUME NEW e \in Event, EntrySound(e) PROVE EntrySound(e)'
        OBVIOUS
    <3>1. e.apr \in ApprovalIDs \cup {NoID}
        BY DEF Event
    <3>2. QED
        BY <3>1 DEF EntrySound, ApprovedFor, QuietStore, SameBinding
  <2>2. \A i \in DOMAIN events : events[i] \in Event /\ EntrySound(events[i])
      BY DEF TypeOK
  <2>3. CASE events' = events
      BY <2>1, <2>2, <2>3 DEF EntrySound, ApprovedFor, SameBinding
  <2>4. ASSUME NEW e \in Event, EntrySound(e), events' = Append(events, e)
        PROVE  \A i \in DOMAIN events' : EntrySound(events[i])'
    <3>1. \A i \in DOMAIN events' : events'[i] = e \/ (i \in DOMAIN events /\ events'[i] = events[i])
        BY <2>4, LogGrows
    <3>2. QED
        BY <2>1, <2>2, <2>4, <3>1 DEF EntrySound, ApprovedFor, SameBinding
  <2>5. QED
      BY <2>3, <2>4 DEF QuietLog
<1>7. ApprovedExecutionsBound'
  <2>1. \A k \in Executions' : \A i \in 1 .. (k - 1) : i \in DOMAIN events'
      BY <1>1, <1>2 DEF TypeOK
  <2>2. \A k \in Executions' : events'[k].via =>
           ApprovedFor(events[k])' /\ approvals'[events'[k].apr].status = "consumed"
      BY <1>1, <1>2, <1>6 DEF ApprovedExecutionsBound, ApprovedFor, QuietStore, SameBinding
  <2>3. QED
      BY <1>e, <2>1, <2>2 DEF ApprovedExecutionsBound, EntrySound
<1>8. ApprovalPaysOnce'
  <2>1. \A k \in Executions' :
          events'[k].apr # NoID => approvals'[events'[k].apr].status = "consumed"
      BY <1>1, <1>2, <1>6 DEF ApprovalPaysOnce, QuietStore
  <2>2. \A c \in Callers : call[c].apr \in ApprovalIDs \cup {NoID}
      BY DEF TypeOK, Call
  <2>3. ASSUME NEW c \in Callers, Paid(c)'
        PROVE  /\ approvals'[call'[c].apr].status = "consumed"
               /\ \A k \in Executions' : events'[k].apr # call'[c].apr
               /\ \A x \in Callers : Paid(x)' /\ call'[x].apr = call'[c].apr => x = c
    <3>1. Paid(c) /\ call'[c] = call[c]
        BY <1>3, <2>3 DEF Same
    <3>2. approvals'[call'[c].apr].status = "consumed"
        BY <2>2, <3>1 DEF ApprovalPaysOnce, QuietStore, Paid
    <3>3. \A k \in Executions' : events'[k].apr # call'[c].apr
        BY <1>1, <1>2, <3>1 DEF ApprovalPaysOnce
    <3>4. \A x \in Callers : Paid(x)' /\ call'[x].apr = call'[c].apr => x = c
        BY <1>3, <3>1 DEF ApprovalPaysOnce, Same
    <3>5. QED
        BY <3>2, <3>3, <3>4
  <2>4. QED
      BY <2>1, <2>3 DEF ApprovalPaysOnce
<1>9. QED
    BY <1>3, <1>4, <1>5, <1>7, <1>8, <1>e

\* A step that moves caller c alone, to a label with well-typed locals k.
LEMMA OneCaller ==
    ASSUME TypeOK, NEW c \in Callers, NEW label, NEW k,
           pc' = [pc EXCEPT ![c] = label], call' = [call EXCEPT ![c] = k]
    PROVE  /\ \A x \in Callers : x # c => Same(x)
           /\ pc'[c] = label /\ call'[c] = k
BY DEF TypeOK, Same

\* A caller that returns has nothing left to account for.
LEMMA IdleIsFine ==
    ASSUME NEW c \in Callers, pc'[c] = "idle", call'[c] = NoCall
    PROVE  Fine(c)'
BY DEF Fine, Paid, Backed, Bound, NoCall

\* A request is evaluated and not yet authorized by anything.
LEMMA ReceiveFine ==
    ASSUME TypeOK, NEW c \in Callers, NEW kind \in Kinds \ {"direct"},
           NEW r \in Requests, NEW d \in DecisionIDs,
           NEW a \in ApprovalIDs \cup {NoID}, Receive(c, kind, r, d, a)
    PROVE  \A x \in Callers : Same(x) \/ Fine(x)'
<1> DEFINE g == GetGrantByAgent(r.agent)
           p == IF g = NoGrant THEN NoPolicy ELSE GetPolicy(g.policy)
           status == Verdict(r.agent, r.cap)
           base == [NoCall EXCEPT !.kind = kind, !.req = r.id, !.agent = r.agent,
                                  !.cap = r.cap, !.hash = r.hash, !.apr = a,
                                  !.now = clock, !.status = status]
           full == [base EXCEPT !.dec = d, !.policy = p.id, !.version = p.version,
                                !.res = r.id]
<1>0. /\ base.via = FALSE /\ base.apr = a /\ base.from = 0 /\ base.res = NoID
      /\ full.via = FALSE /\ full.apr = a /\ full.res = r.id /\ full.req = r.id
      /\ full.from = 0
    BY DEF NoCall
<1>r. r.id \in RequestIDs /\ r.id # NoID
    BY GateAssumption
<1>1. PICK label, k :
        /\ Continue(c, label, k)
        /\ k.via = FALSE
        /\ label \notin {"executed", "consume", "execute"}
        /\ label = "approval" => k.apr # NoID
        /\ label \in {"approval", "decide"} => k.req # NoID
        /\ k.res \in {NoID, k.req}
        /\ k.from = 0
  <2>1. CASE p = NoPolicy
    <3> DEFINE label == CASE kind = "gate" -> "audit"
                          [] kind = "execute" -> "canonical"
                          [] kind = "authorize" -> "idle"
    <3>1. Continue(c, label, base)
        BY <2>1 DEF Receive
    <3>2. label \in {"audit", "canonical", "idle"}
        BY GateAssumption DEF AllKinds
    <3> HIDE DEF label, base
    <3>3. QED
        BY <1>0, <3>1, <3>2
  <2>2. CASE p # NoPolicy
    <3> DEFINE label == IF status = "REQUIRE_APPROVAL" /\ a # NoID THEN "approval" ELSE "decide"
    <3>1. Continue(c, label, full)
        BY <2>2 DEF Receive
    <3>2. label \in {"approval", "decide"} /\ (label = "approval" => a # NoID)
        OBVIOUS
    <3> HIDE DEF label, full
    <3>3. QED
        BY <1>0, <1>r, <3>1, <3>2
  <2>3. QED
      BY <2>1, <2>2
<1> HIDE DEF g, p, status, base, full
<1>2. CASE label = "idle"
    BY <1>1, <1>2, OneCaller, IdleIsFine DEF Continue, Goto
<1>3. CASE label # "idle"
  <2>1. /\ \A x \in Callers : x # c => Same(x)
        /\ pc'[c] = label /\ call'[c] = k
      BY <1>1, <1>3, OneCaller DEF Continue, Goto
  <2>2. events' = events
      BY DEF Receive
  <2>3. QED
      BY <1>1, <2>1, <2>2 DEF Fine, Paid, Backed, Bound
<1>4. QED
    BY <1>2, <1>3

\* The handoff check changes nothing the invariant speaks of.
LEMMA HandoffFine ==
    ASSUME GateInv, NEW c \in Callers, Handoff(c)
    PROVE  \A x \in Callers : Same(x) \/ Fine(x)'
<1>1. PICK label, st :
        /\ label \in {"canonical", "audit"}
        /\ pc' = [pc EXCEPT ![c] = label]
        /\ call' = [call EXCEPT ![c] = [call[c] EXCEPT !.status = st]]
  <2>1. call = [call EXCEPT ![c] = [call[c] EXCEPT !.status = call[c].status]]
      BY DEF GateInv, TypeOK, Call
  <2>2. QED
      BY <2>1 DEF Handoff, Goto
<1>2. /\ \A x \in Callers : x # c => Same(x)
      /\ pc'[c] = label /\ call'[c] = [call[c] EXCEPT !.status = st]
    BY <1>1, OneCaller DEF GateInv
<1>3. /\ call'[c].via = call[c].via /\ call'[c].apr = call[c].apr
      /\ SameAction(call[c], call'[c])
    BY <1>2 DEF GateInv, TypeOK, Call, SameAction
<1>4. approvals' = approvals /\ QuietLog
  <2>1. call[c].agent \in Agents \cup {NoID}
      BY DEF GateInv, TypeOK, Call
  <2>2. QED
      BY <2>1, LegacyType DEF Handoff, QuietLog
<1>5. Fine(c)'
  <2>1. Backed(c)'
      BY <1>1, <1>2, <1>3, <1>4, StillBacked, QuietExecutions DEF GateInv
  <2>2. Bound(c)'
      BY <1>1, <1>2, <1>3, <1>4 DEF GateInv, Bound, SameBinding, SameAction
  <2>3. QED
      BY <1>1, <1>2, <2>1, <2>2 DEF Fine, Paid
<1>6. QED
    BY <1>2, <1>5

\* Authorize accepts an approval only when it is valid and bound to the call.
LEMMA CheckApprovalFine ==
    ASSUME GateInv, NEW c \in Callers, CheckApproval(c)
    PROVE  \A x \in Callers : Same(x) \/ Fine(x)'
<1> DEFINE ap == approvals[call[c].apr]
<1>1. PICK ok \in BOOLEAN :
        /\ ok => BoundTo(ap, call[c]) /\ ApprovalIsValid(ap, call[c].now)
        /\ call' = [call EXCEPT ![c] =
                      [call[c] EXCEPT !.status = IF ok THEN "ALLOW" ELSE "DENY", !.via = ok]]
  <2> DEFINE yes == BoundTo(ap, call[c]) /\ ApprovalIsValid(ap, call[c].now)
  <2>1. yes \in BOOLEAN
      BY DEF BoundTo, ApprovalIsValid
  <2>2. call' = [call EXCEPT ![c].status = IF yes THEN "ALLOW" ELSE "DENY", ![c].via = yes]
      BY DEF CheckApproval
  <2> HIDE DEF yes
  <2>3. call' = [call EXCEPT ![c] =
                   [call[c] EXCEPT !.status = IF yes THEN "ALLOW" ELSE "DENY", !.via = yes]]
      BY <2>2 DEF GateInv, TypeOK
  <2>4. QED
      BY <2>1, <2>3 DEF yes
<1>2. /\ \A x \in Callers : x # c => Same(x)
      /\ pc'[c] = "decide"
      /\ call'[c] = [call[c] EXCEPT !.status = IF ok THEN "ALLOW" ELSE "DENY", !.via = ok]
  <2> DEFINE k == [call[c] EXCEPT !.status = IF ok THEN "ALLOW" ELSE "DENY", !.via = ok]
  <2>1. call' = [call EXCEPT ![c] = k]
      BY <1>1
  <2>2. TypeOK /\ pc' = [pc EXCEPT ![c] = "decide"]
      BY DEF CheckApproval, Goto, GateInv
  <2> HIDE DEF k
  <2>3. /\ \A x \in Callers : x # c => Same(x)
        /\ pc'[c] = "decide" /\ call'[c] = k
      BY <2>1, <2>2, OneCaller
  <2>4. QED
      BY <2>3 DEF k
<1>3. /\ call'[c].via = ok /\ call'[c].apr = call[c].apr
      /\ SameAction(call[c], call'[c])
  <2>1. call[c] \in Call
      BY DEF GateInv, TypeOK
  <2>2. SameAction(call[c], call'[c])
      BY <1>2, <2>1 DEF Call, SameAction
  <2>3. QED
      BY <1>2, <2>1, <2>2 DEF Call
<1>4. call[c].apr # NoID
    BY DEF CheckApproval, GateInv, Bound
<1>5. ok => SameBinding(ap, call'[c]) /\ ap.status = "approved"
    BY <1>1, <1>3 DEF BoundTo, SameBinding, ApprovalIsValid, SameAction
<1>6. approvals' = approvals /\ events' = events /\ pc[c] = "approval"
    BY DEF CheckApproval
<1>7. Bound(c)'
    BY <1>2, <1>3, <1>4, <1>5, <1>6 DEF Bound, SameBinding
<1>8. Fine(c)'
    BY <1>2, <1>3, <1>6, <1>7, StillBacked DEF Fine, Paid
<1>9. QED
    BY <1>2, <1>8

\* A call enters the execution path only with a recorded ALLOW behind it.
LEMMA CheckCanonicalFine ==
    ASSUME GateInv, NEW c \in Callers, CheckCanonical(c)
    PROVE  \A x \in Callers : Same(x) \/ Fine(x)'
<1> DEFINE now == IF call[c].kind = "execute" THEN call[c].now ELSE clock
<1>1. PICK ok \in BOOLEAN :
        /\ ok => Canonical(call[c])
        /\ call' = [call EXCEPT ![c] =
                      [call[c] EXCEPT !.now = now, !.status = IF ok THEN call[c].status ELSE "DENY"]]
        /\ pc' = [pc EXCEPT ![c] = IF ok THEN "executed" ELSE "execute"]
  <2>1. PICK ok \in BOOLEAN : ok = Canonical(call[c])
      BY DEF Canonical
  <2> DEFINE status == IF ok THEN call[c].status ELSE "DENY"
  <2>2. call' = [call EXCEPT ![c].now = now, ![c].status = status]
      BY <2>1 DEF CheckCanonical, GateInv, TypeOK
  <2>3. pc' = [pc EXCEPT ![c] = IF ok THEN "executed" ELSE "execute"]
      BY <2>1 DEF CheckCanonical, Goto
  <2>4. call' = [call EXCEPT ![c] = [call[c] EXCEPT !.now = now, !.status = status]]
      BY <2>2 DEF GateInv, TypeOK
  <2>5. QED
      BY <2>1, <2>3, <2>4
<1>2. /\ \A x \in Callers : x # c => Same(x)
      /\ pc'[c] = IF ok THEN "executed" ELSE "execute"
      /\ call'[c] = [call[c] EXCEPT !.now = now, !.status = IF ok THEN call[c].status ELSE "DENY"]
  <2> DEFINE label == IF ok THEN "executed" ELSE "execute"
             next == [call[c] EXCEPT !.now = now, !.status = IF ok THEN call[c].status ELSE "DENY"]
  <2>1. TypeOK /\ pc' = [pc EXCEPT ![c] = label] /\ call' = [call EXCEPT ![c] = next]
      BY <1>1 DEF GateInv
  <2> HIDE DEF label, next
  <2>2. (\A x \in Callers : x # c => Same(x)) /\ pc'[c] = label /\ call'[c] = next
      BY <2>1, OneCaller
  <2>3. QED
      BY <2>2 DEF label, next
<1>3. /\ call'[c].via = call[c].via /\ call'[c].apr = call[c].apr
      /\ call'[c].status = IF ok THEN call[c].status ELSE "DENY"
      /\ SameAction(call[c], call'[c])
  <2>1. call[c] \in Call
      BY DEF GateInv, TypeOK
  <2>2. SameAction(call[c], call'[c])
      BY <1>2, <2>1 DEF Call, SameAction
  <2>3. QED
      BY <1>2, <2>1, <2>2 DEF Call
<1>4. approvals' = approvals /\ events' = events
    BY DEF CheckCanonical
<1>5. ok => \E i \in DOMAIN events :
              /\ Supports(i, call[c])
              /\ call[c].kind = "direct" \/ events[i].req = call[c].req
  <2> SUFFICES ASSUME ok
               PROVE  \E i \in DOMAIN events :
                        /\ Supports(i, call[c])
                        /\ call[c].kind = "direct" \/ events[i].req = call[c].req
      OBVIOUS
  <2>1. PICK i \in DOMAIN events :
          /\ IsDecision(events, call[c].dec, i)
          /\ events[i].decision = "ALLOW"
          /\ events[i].req = call[c].res /\ events[i].agent = call[c].agent
          /\ events[i].cap = call[c].cap /\ events[i].hash = call[c].hash
      BY <1>1 DEF Canonical
  <2>2. i >= call[c].from
    <3>1. i \in Nat
        BY DEF GateInv, TypeOK
    <3>2. QED
        BY <2>1, <3>1 DEF IsDecision, GateInv, Backed
  <2>3. Supports(i, call[c])
      BY <2>1, <2>2 DEF IsDecision, Supports, Allows
  <2>4. events[i].req # NoID
      BY <2>1 DEF IsDecision, GateInv, EntrySound
  <2>5. call[c].kind = "direct" \/ events[i].req = call[c].req
      BY <2>1, <2>4 DEF GateInv, Backed
  <2>6. QED
      BY <2>3, <2>5
<1>6. Backed(c)'
    BY <1>2, <1>3, <1>4, <1>5, StillBacked
<1>7. Bound(c)'
    BY <1>2, <1>3, <1>4 DEF Bound, SameBinding, SameAction, GateInv
<1>8. ~Paid(c)'
    BY <1>2, <1>3 DEF Paid
<1>9. QED
    BY <1>2, <1>6, <1>7, <1>8 DEF Fine

\* A call that goes on past HasExecution with an approval has yet to pay.
LEMMA CheckExecutedFine ==
    ASSUME GateInv, NEW c \in Callers, CheckExecuted(c)
    PROVE  \A x \in Callers : Same(x) \/ Fine(x)'
<1>1. PICK done \in BOOLEAN :
        /\ call' = [call EXCEPT ![c] =
                      [call[c] EXCEPT !.status = IF done THEN "DENY" ELSE call[c].status]]
        /\ pc' = [pc EXCEPT ![c] =
                    IF ~done /\ call[c].status = "ALLOW" /\ call[c].apr # NoID
                    THEN "consume" ELSE "execute"]
  <2>1. HasExecution(events, call[c].dec) \in BOOLEAN
      BY DEF HasExecution
  <2>2. QED
      BY <2>1 DEF CheckExecuted, Goto, GateInv, TypeOK
<1>2. /\ \A x \in Callers : x # c => Same(x)
      /\ pc'[c] = IF ~done /\ call[c].status = "ALLOW" /\ call[c].apr # NoID
                  THEN "consume" ELSE "execute"
      /\ call'[c] = [call[c] EXCEPT !.status = IF done THEN "DENY" ELSE call[c].status]
    BY <1>1, OneCaller DEF GateInv
<1>3. /\ call'[c].via = call[c].via /\ call'[c].apr = call[c].apr
      /\ call'[c].status = IF done THEN "DENY" ELSE call[c].status
      /\ SameAction(call[c], call'[c])
  <2>1. call[c] \in Call
      BY DEF GateInv, TypeOK
  <2>2. SameAction(call[c], call'[c])
      BY <1>2, <2>1 DEF Call, SameAction
  <2>3. QED
      BY <1>2, <2>1, <2>2 DEF Call
<1>4. approvals' = approvals /\ events' = events /\ pc[c] = "executed"
    BY DEF CheckExecuted
<1>5. call'[c].status = "ALLOW" =>
         \E i \in DOMAIN events :
           /\ Supports(i, call[c])
           /\ call[c].kind = "direct" \/ events[i].req = call[c].req
    BY <1>3, <1>4 DEF GateInv, Backed
<1>6. Backed(c)'
    BY <1>2, <1>3, <1>4, <1>5, StillBacked
<1>7. Bound(c)'
    BY <1>2, <1>3, <1>4 DEF Bound, SameBinding, SameAction, GateInv
<1>8. ~Paid(c)'
    BY <1>2, <1>3 DEF Paid
<1>9. QED
    BY <1>2, <1>6, <1>7, <1>8 DEF Fine

\* The decision brought along to ExecuteDecision is not trusted yet.
LEMMA ExecuteDecisionFine ==
    ASSUME TypeOK, NEW c \in Callers, NEW r \in Requests,
           NEW q \in RequestIDs \cup {NoID}, NEW d \in DecisionIDs,
           NEW a \in ApprovalIDs \cup {NoID}, ExecuteDecision(c, r, q, d, a)
    PROVE  \A x \in Callers : Same(x) \/ Fine(x)'
<1> DEFINE k == [NoCall EXCEPT !.kind = "direct", !.req = IF q = NoID THEN r.id ELSE q,
                               !.res = r.id, !.agent = r.agent,
                               !.cap = r.cap, !.hash = r.hash, !.dec = d, !.apr = a,
                               !.now = clock, !.status = "ALLOW",
                               !.from = LatestDecision(d)]
<1>1. k.via = FALSE /\ k.kind = "direct" /\ k.dec = d /\ k.from = LatestDecision(d)
    BY DEF NoCall
<1>2. /\ call' = [call EXCEPT ![c] = k] /\ pc' = [pc EXCEPT ![c] = "canonical"]
      /\ events' = events
    BY DEF ExecuteDecision, Goto
<1> HIDE DEF k
<1>3. /\ \A x \in Callers : x # c => Same(x)
      /\ pc'[c] = "canonical" /\ call'[c] = k
    BY <1>2, OneCaller
<1>4. QED
    BY <1>1, <1>2, <1>3, LatestDecisionFound DEF Fine, Paid, Backed, Bound

\* A caller that asks for an approval is on its way to no execution.
LEMMA RequestApprovalFine ==
    ASSUME TypeOK, NEW c \in Callers, NEW d \in DecisionIDs, NEW e \in Expiries,
           RequestApproval(c, d, e)
    PROVE  \A x \in Callers : Same(x) \/ Fine(x)'
<1>1. PICK k : /\ call' = [call EXCEPT ![c] = k]
               /\ k.via = FALSE /\ k.from = 0 /\ k.res = NoID
  <2>1. PICK i \in DOMAIN events :
          call' = [call EXCEPT ![c] =
              [NoCall EXCEPT !.kind = "request", !.dec = d, !.agent = events[i].agent,
                             !.cap = events[i].cap, !.hash = events[i].hash,
                             !.policy = events[i].policy, !.version = events[i].version,
                             !.expires = e]]
      BY DEF RequestApproval
  <2> DEFINE k == [NoCall EXCEPT !.kind = "request", !.dec = d, !.agent = events[i].agent,
                             !.cap = events[i].cap, !.hash = events[i].hash,
                             !.policy = events[i].policy, !.version = events[i].version,
                             !.expires = e]
  <2>2. k.via = FALSE /\ k.from = 0 /\ k.res = NoID
      BY DEF NoCall
  <2>3. call' = [call EXCEPT ![c] = k]
      BY <2>1
  <2> HIDE DEF k
  <2>4. QED
      BY <2>2, <2>3
<1>2. /\ \A x \in Callers : x # c => Same(x)
      /\ pc'[c] = "create" /\ call'[c] = k
  <2>1. pc' = [pc EXCEPT ![c] = "create"]
      BY DEF RequestApproval, Goto
  <2>2. QED
      BY <1>1, <2>1, OneCaller
<1>3. QED
    BY <1>1, <1>2 DEF Fine, Paid, Backed, Bound

\* A caller that goes on with unchanged locals, outside the execution path.
LEMMA ContinueFine ==
    ASSUME GateInv, NEW c \in Callers, NEW label, Continue(c, label, call[c]),
           label \in {"idle", "canonical", "handoff", "audit"}, approvals' = approvals,
           DOMAIN events \subseteq DOMAIN events',
           \A i \in DOMAIN events : events'[i] = events[i]
    PROVE  \A x \in Callers : Same(x) \/ Fine(x)'
<1>1. CASE label = "idle"
    BY <1>1, OneCaller, IdleIsFine DEF Continue, Goto, GateInv
<1>2. CASE label # "idle"
  <2>1. /\ \A x \in Callers : x # c => Same(x)
        /\ pc'[c] = label /\ call'[c] = call[c]
      BY <1>2, OneCaller DEF Continue, Goto, GateInv
  <2>2. Backed(c)'
    <3>1. SameAction(call[c], call'[c])
        BY <2>1 DEF SameAction
    <3>2. QED
        BY <1>2, <2>1, <3>1, StillBacked
  <2>3. Fine(c)'
      BY <2>1, <2>2 DEF GateInv, Fine, Paid, Bound, SameBinding
  <2>4. QED
      BY <2>1, <2>3
<1>3. QED
    BY <1>1, <1>2

\* A caller that has recorded its decision goes on with its place.
LEMMA DecidedFine ==
    ASSUME GateInv, NEW c \in Callers, NEW label,
           Continue(c, label, [call[c] EXCEPT !.from = Len(events) + 1]),
           label \in {"idle", "canonical", "handoff", "audit"}, approvals' = approvals,
           NEW e \in Event, events' = Append(events, e),
           e.type = "AUTHORIZATION_DECISION", e.dec = call[c].dec
    PROVE  \A x \in Callers : Same(x) \/ Fine(x)'
<1> DEFINE k == [call[c] EXCEPT !.from = Len(events) + 1]
<1>1. CASE label = "idle"
    BY <1>1, OneCaller, IdleIsFine DEF Continue, Goto, GateInv
<1>2. CASE label # "idle"
  <2>1. /\ \A x \in Callers : x # c => Same(x)
        /\ pc'[c] = label /\ call'[c] = k
      BY <1>2, OneCaller DEF Continue, Goto, GateInv
  <2>2. /\ k.from = Len(events) + 1 /\ k.via = call[c].via /\ k.apr = call[c].apr
        /\ k.kind = call[c].kind /\ k.res = call[c].res /\ k.req = call[c].req
        /\ k.dec = call[c].dec /\ k.agent = call[c].agent /\ k.cap = call[c].cap
        /\ k.hash = call[c].hash /\ k.policy = call[c].policy
        /\ k.version = call[c].version
      BY DEF GateInv, TypeOK, Call
  <2> HIDE DEF k
  <2>3. k.from \in DOMAIN events' /\ events'[k.from] = e
    <3>1. k.from \in 1 .. (Len(events) + 1)
        BY <2>2, LogGrows DEF GateInv
    <3>2. QED
        BY <2>2, <3>1, LogGrows DEF GateInv
  <2>4. Backed(c)'
      BY <1>2, <2>1, <2>2, <2>3 DEF GateInv, Backed
  <2>5. Bound(c)'
      BY <1>2, <2>1, <2>2 DEF GateInv, Bound, SameBinding
  <2>6. QED
      BY <1>2, <2>1, <2>4, <2>5 DEF Fine, Paid
<1>3. QED
    BY <1>1, <1>2

\* Consuming an approval: the caller becomes the one execution it pays for.
LEMMA ConsumeStep ==
    ASSUME GateInv, TypeOK', NEW c \in Callers, ConsumeApproval(c),
           ApprovalIsValid(approvals[call[c].apr], call[c].now)
    PROVE  GateInv'
<1> DEFINE a == call[c].apr
<1>1. a \in ApprovalIDs /\ approvals[a].status = "approved"
    BY DEF GateInv, Bound, ConsumeApproval, TypeOK, Call, ApprovalIsValid
<1>2. /\ events' = events /\ call' = call
      /\ approvals' = [approvals EXCEPT ![a].status = "consumed"]
      /\ \A x \in Callers : x # c => pc'[x] = pc[x]
      /\ pc[c] = "consume" /\ pc'[c] = "execute"
    BY DEF ConsumeApproval, Consumed, Goto, GateInv, TypeOK
<1>3. /\ approvals'[a].status = "consumed"
      /\ \A id \in ApprovalIDs : id # a => approvals'[id] = approvals[id]
      /\ \A id \in ApprovalIDs :
           \A y : SameBinding(approvals[id], y) => SameBinding(approvals'[id], y)
    BY <1>1, <1>2 DEF GateInv, TypeOK, Approval, SameBinding
<1>4. Executions' = Executions
      /\ \A k \in Executions : events[k].apr \in ApprovalIDs \cup {NoID}
  <2>1. \A k \in Executions : events[k] \in Event
      BY DEF Executions, GateInv, TypeOK
  <2>2. \A k \in Executions : events[k].apr \in ApprovalIDs \cup {NoID}
      BY <2>1 DEF Event
  <2>3. Executions' = Executions
      BY <1>2 DEF Executions
  <2>4. QED
      BY <2>2, <2>3
<1>5. \A k \in Executions : events[k].apr # a
    BY <1>1, <1>4, ApprovalAssumption DEF GateInv, ApprovalPaysOnce
<1>6. \A x \in Callers : Paid(x) => call[x].apr # a
    BY <1>1 DEF GateInv, ApprovalPaysOnce
<1>7. ExecutionAuthorized' /\ ApprovalSingleUse'
    BY <1>2, <1>4 DEF GateInv, ExecutionAuthorized, ApprovalSingleUse, Supports, Allows
<1>e. \A i \in DOMAIN events' : EntrySound(events[i])'
  <2> SUFFICES ASSUME NEW i \in DOMAIN events, events[i].via PROVE ApprovedFor(events[i])'
      BY <1>2 DEF GateInv, EntrySound
  <2>0. events[i] \in Event
      BY DEF GateInv, TypeOK
  <2>1. events[i].apr \in ApprovalIDs \cup {NoID} /\ ApprovedFor(events[i])
      BY <2>0 DEF GateInv, Event, EntrySound
  <2>2. approvals'[events[i].apr].status \in {"approved", "consumed"}
      BY <1>3, <2>1 DEF ApprovedFor
  <2>3. SameBinding(approvals'[events[i].apr], events[i])
      BY <1>3, <2>1 DEF ApprovedFor
  <2>4. QED
      BY <1>2, <2>1, <2>2, <2>3 DEF ApprovedFor, SameBinding
<1>8. ApprovedExecutionsBound'
  <2>1. \A k \in Executions : \A i \in 1 .. (k - 1) : i \in DOMAIN events
      BY DEF Executions, GateInv, TypeOK
  <2>2. \A k \in Executions : events[k].via =>
           approvals'[events[k].apr].status = "consumed" /\ k \in DOMAIN events
      BY <1>3, <1>4, <1>5 DEF GateInv, ApprovedExecutionsBound, ApprovedFor, Executions
  <2>3. QED
      BY <1>2, <1>4, <1>e, <2>1, <2>2 DEF ApprovedExecutionsBound, EntrySound
<1>9. \A x \in Callers : Paid(x)' => x = c \/ Paid(x)
    BY <1>2 DEF Paid
<1>10. ApprovalPaysOnce'
  <2>1. \A x \in Callers : call[x].apr \in ApprovalIDs \cup {NoID}
      BY DEF GateInv, TypeOK, Call
  <2>2. \A k \in Executions : events[k].apr # NoID
                              => approvals'[events[k].apr].status = "consumed"
      BY <1>3, <1>4, <1>5 DEF GateInv, ApprovalPaysOnce
  <2>3. ASSUME NEW x \in Callers, Paid(x)'
        PROVE  /\ approvals'[call[x].apr].status = "consumed"
               /\ \A k \in Executions : events[k].apr # call[x].apr
               /\ \A y \in Callers : Paid(y)' /\ call[y].apr = call[x].apr => y = x
    <3>1. CASE x = c
        BY <3>1, <1>3, <1>5, <1>6, <1>9
    <3>2. CASE x # c
      <4>1. Paid(x) /\ call[x].apr # a /\ call[x].apr # NoID
          BY <3>2, <2>3, <1>6, <1>9 DEF Paid
      <4>2. QED
          BY <4>1, <2>1, <1>3, <1>9 DEF GateInv, ApprovalPaysOnce
    <3>3. QED
        BY <3>1, <3>2
  <2>4. QED
      BY <1>2, <1>4, <2>2, <2>3 DEF ApprovalPaysOnce
<1>11. ASSUME NEW x \in Callers PROVE Backed(x)' /\ Bound(x)'
  <2>1. call[x].apr \in ApprovalIDs \cup {NoID}
      BY DEF GateInv, TypeOK, Call
  <2>2. Backed(x)'
      BY <1>2 DEF GateInv, Backed, Supports, Allows
  <2>3. approvals[call[x].apr].status \in {"approved", "consumed"} /\ call[x].apr # NoID
        => approvals'[call[x].apr].status \in {"approved", "consumed"}
      BY <2>1, <1>3
  <2>4. Bound(x)'
      BY <1>2, <1>3, <2>1, <2>3 DEF GateInv, Bound, SameBinding
  <2>5. QED
      BY <2>2, <2>4
<1>12. QED
    BY <1>7, <1>8, <1>10, <1>11, <1>e DEF GateInv

\* Recording an execution: the caller's payment becomes the event's.
LEMMA ExecuteStep ==
    ASSUME GateInv, TypeOK', NEW c \in Callers, RecordExecution(c), call[c].status = "ALLOW"
    PROVE  GateInv'
<1> DEFINE e == EventOf(c, "EXECUTION_ALLOWED", "ALLOW")
<1>0. PICK n \in Nat : n = Len(events) + 1
    BY DEF GateInv, TypeOK
<1>1. e \in Event /\ events' = Append(events, e)
    BY EventOfType DEF RecordExecution, GateInv, DecisionStatus
<1>2. /\ e.type = "EXECUTION_ALLOWED" /\ e.apr = call[c].apr /\ e.via = call[c].via
      /\ e.req = call[c].req /\ (call[c].kind = "direct" => e.direct)
      /\ \A y : SameBinding(y, call[c]) => SameBinding(y, e)
      /\ \A i : Supports(i, call[c]) => Supports(i, e)
  <2>1. call[c].via \in BOOLEAN
      BY DEF GateInv, TypeOK, Call
  <2>2. /\ e.type = "EXECUTION_ALLOWED" /\ e.apr = call[c].apr /\ e.req = call[c].req
        /\ e.dec = call[c].dec /\ e.agent = call[c].agent /\ e.cap = call[c].cap
        /\ e.hash = call[c].hash /\ e.policy = call[c].policy
        /\ e.version = call[c].version /\ e.from = call[c].from
        /\ (call[c].kind = "direct" => e.direct)
      BY DEF EventOf
  <2>3. e.via = call[c].via
      BY <2>1 DEF EventOf
  <2> HIDE DEF e
  <2>4. QED
      BY <2>2, <2>3 DEF SameBinding, Supports, Allows
<1> HIDE DEF e
<1>3. /\ DOMAIN events = 1 .. Len(events) /\ DOMAIN events' = 1 .. n
      /\ \A i \in DOMAIN events : events'[i] = events[i]
      /\ events'[n] = e /\ Len(events) \in Nat
    BY <1>0, <1>1, LogGrows DEF GateInv
<1>4. Executions' = Executions \cup {n} /\ n \notin Executions
      /\ \A k \in Executions : k \in DOMAIN events
    BY <1>0, <1>2, <1>3 DEF Executions
<1>5. approvals' = approvals
    BY DEF RecordExecution
<1>6. \A x \in Callers : Same(x) \/ Fine(x)'
  <2>1. PICK label \in {"idle", "audit"} : Continue(c, label, call[c])
      BY DEF RecordExecution
  <2>2. DOMAIN events \subseteq DOMAIN events'
      BY <1>0, <1>3
  <2>3. QED
      BY <1>3, <1>5, <2>1, <2>2, ContinueFine
<1>7. pc[c] = "execute" /\ pc'[c] \in {"idle", "audit"}
  <2>1. PICK label \in {"idle", "audit"} : Goto(c, label)
      BY DEF RecordExecution, Continue
  <2>2. QED
      BY <2>1 DEF RecordExecution, Goto, GateInv, TypeOK
<1>8. \A x \in Callers : Paid(x)' => Paid(x) /\ call'[x] = call[x] /\ x # c
    BY <1>6, <1>7 DEF Same, Fine, Paid
<1>9. ExecutionAuthorized'
  <2>1. ASSUME NEW k \in Executions
        PROVE  \E i \in 1 .. (k - 1) :
                 /\ Supports(i, events[k])'
                 /\ events'[k].direct \/ events'[i].req = events'[k].req
    <3>1. PICK i \in 1 .. (k - 1) :
            Supports(i, events[k]) /\ (events[k].direct \/ events[i].req = events[k].req)
        BY DEF GateInv, ExecutionAuthorized
    <3>2. i \in DOMAIN events
        BY <1>3, <1>4
    <3>3. QED
        BY <1>3, <1>4, <3>1, <3>2 DEF Supports, Allows
  <2>2. \E i \in 1 .. (n - 1) :
          /\ Supports(i, events[n])'
          /\ events'[n].direct \/ events'[i].req = events'[n].req
    <3>1. PICK i \in DOMAIN events :
            Supports(i, call[c]) /\ (call[c].kind = "direct" \/ events[i].req = call[c].req)
        BY <1>7 DEF GateInv, Backed
    <3>2. i \in 1 .. (n - 1) /\ Supports(i, e) /\ events'[i] = events[i]
        BY <1>0, <1>2, <1>3, <3>1
    <3>3. Supports(i, events[n])'
        BY <1>3, <3>2 DEF Supports, Allows
    <3>4. QED
        BY <1>2, <1>3, <3>1, <3>2, <3>3
  <2>3. QED
      BY <1>4, <2>1, <2>2 DEF ExecutionAuthorized
<1>10. call[c].apr # NoID => Paid(c)
    BY <1>7 DEF Paid
<1>11. ApprovalSingleUse'
    BY <1>2, <1>3, <1>4, <1>10 DEF GateInv, ApprovalSingleUse, ApprovalPaysOnce
<1>e. /\ \A i \in DOMAIN events' : EntrySound(events[i])'
      /\ e.via => approvals[e.apr].status = "consumed"
  <2>1. call[c].via => /\ call[c].apr # NoID
                       /\ approvals[call[c].apr].status = "consumed"
                       /\ SameBinding(approvals[call[c].apr], e)
      BY <1>2, <1>10 DEF GateInv, Bound, ApprovalPaysOnce
  <2>2. EntrySound(e)
      BY <1>2, <2>1 DEF EntrySound, ApprovedFor
  <2>3. \A i \in DOMAIN events' : events'[i] = e \/ (i \in DOMAIN events /\ events'[i] = events[i])
      BY <1>0, <1>3
  <2>4. \A i \in DOMAIN events' : EntrySound(events[i])'
      BY <1>5, <2>2, <2>3 DEF GateInv, EntrySound, ApprovedFor, SameBinding
  <2>5. QED
      BY <1>2, <2>1, <2>4
<1>12. ApprovedExecutionsBound'
  <2>1. \A k \in Executions : events'[k] = events[k]
      BY <1>3, <1>4
  <2>2. \A k \in Executions' : events'[k].via =>
           approvals'[events'[k].apr].status = "consumed"
      BY <1>3, <1>4, <1>5, <1>e, <2>1 DEF GateInv, ApprovedExecutionsBound
  <2>3. \A k \in Executions' : k \in DOMAIN events' /\ \A i \in 1 .. (k - 1) : i \in DOMAIN events'
      BY <1>0, <1>3, <1>4
  <2>4. QED
      BY <1>e, <2>2, <2>3 DEF ApprovedExecutionsBound, EntrySound
<1>13. ApprovalPaysOnce'
  <2>1. \A k \in Executions : events'[k] = events[k]
      BY <1>3, <1>4
  <2>2. \A k \in Executions' : events'[k].apr # NoID
                               => approvals'[events'[k].apr].status = "consumed"
      BY <1>2, <1>3, <1>4, <1>5, <1>10, <2>1 DEF GateInv, ApprovalPaysOnce
  <2>3. ASSUME NEW x \in Callers, Paid(x)'
        PROVE  /\ approvals'[call'[x].apr].status = "consumed"
               /\ \A k \in Executions' : events'[k].apr # call'[x].apr
               /\ \A y \in Callers : Paid(y)' /\ call'[y].apr = call'[x].apr => y = x
    <3>1. Paid(x) /\ call'[x] = call[x] /\ x # c /\ call[x].apr # NoID
        BY <2>3, <1>8 DEF Paid
    <3>2. call[c].apr # call[x].apr
        BY <3>1, <1>10 DEF GateInv, ApprovalPaysOnce
    <3>3. QED
        BY <1>2, <1>3, <1>4, <1>5, <1>8, <2>1, <3>1, <3>2 DEF GateInv, ApprovalPaysOnce
  <2>4. QED
      BY <2>2, <2>3 DEF ApprovalPaysOnce
<1>14. \A x \in Callers : Backed(x)' /\ Bound(x)'
  <2>1. QuietStore
      BY <1>5 DEF QuietStore
  <2>2. DOMAIN events \subseteq DOMAIN events'
      BY <1>0, <1>3
  <2>3. QED
      BY <1>3, <1>6, <2>1, <2>2, UnmovedCaller DEF Fine
<1>15. QED
    BY <1>9, <1>11, <1>12, <1>13, <1>14, <1>e DEF GateInv

\* Init satisfies the inductive invariant: nothing is recorded or under way.
LEMMA InitInv == Init => GateInv
<1> SUFFICES ASSUME Init PROVE GateInv
    OBVIOUS
<1>1. TypeOK
    BY InitType
<1>2. Executions = {}
    BY DEF Init, Executions
<1>3. \A c \in Callers : pc[c] = "idle" /\ call[c] = NoCall
    BY DEF Init
<1>4. \A c \in Callers : Backed(c) /\ Bound(c) /\ ~Paid(c)
    BY <1>3 DEF Backed, Bound, Paid, NoCall
<1>5. DOMAIN events = {}
    BY DEF Init
<1>6. QED
    BY <1>1, <1>2, <1>4, <1>5 DEF GateInv, ExecutionAuthorized, ApprovalSingleUse,
                            ApprovedExecutionsBound, ApprovalPaysOnce

\* Every step preserves the inductive invariant.
LEMMA NextInv == GateInv /\ [Next]_vars => GateInv'
<1> SUFFICES ASSUME GateInv, [Next]_vars PROVE GateInv'
    OBVIOUS
<1>a. TypeOK /\ TypeOK'
    BY NextType DEF GateInv
<1>b. events' = events => QuietLog
    BY DEF QuietLog
<1>c. approvals' = approvals => QuietStore
    BY DEF QuietStore
<1>d. pc' = pc /\ call' = call => \A x \in Callers : Same(x)
    BY DEF Same
<1>e. QuietLog => /\ DOMAIN events \subseteq DOMAIN events'
                  /\ \A i \in DOMAIN events : events'[i] = events[i]
    BY <1>a, QuietExecutions
<1>1. ASSUME NEW c \in Callers, NEW kind \in Kinds \ {"direct"}, NEW r \in Requests,
             NEW d \in DecisionIDs, NEW a \in ApprovalIDs \cup {NoID},
             Receive(c, kind, r, d, a)
      PROVE  GateInv'
  <2>1. events' = events /\ approvals' = approvals
      BY <1>1 DEF Receive
  <2>2. QED
      BY <1>1, <1>a, <1>b, <1>c, <2>1, ReceiveFine, QuietStep
<1>2. ASSUME NEW c \in Callers, NEW r \in Requests, NEW q \in RequestIDs \cup {NoID},
             NEW d \in DecisionIDs, NEW a \in ApprovalIDs \cup {NoID},
             ExecuteDecision(c, r, q, d, a)
      PROVE  GateInv'
  <2>1. events' = events /\ approvals' = approvals
      BY <1>2 DEF ExecuteDecision
  <2>2. QED
      BY <1>2, <1>a, <1>b, <1>c, <2>1, ExecuteDecisionFine, QuietStep
<1>3. ASSUME NEW c \in Callers, CheckApproval(c) PROVE GateInv'
  <2>1. events' = events /\ approvals' = approvals
      BY <1>3 DEF CheckApproval
  <2>2. QED
      BY <1>3, <1>a, <1>b, <1>c, <2>1, CheckApprovalFine, QuietStep
<1>4. ASSUME NEW c \in Callers, RecordDecision(c) PROVE GateInv'
  <2>1. approvals' = approvals
      BY <1>4 DEF RecordDecision
  <2>2. call[c].status \in DecisionStatus
      BY <1>a DEF TypeOK, Call
  <2> DEFINE e == EventOf(c, "AUTHORIZATION_DECISION", call[c].status)
  <2>3. e \in Event /\ events' = Append(events, e)
      BY <1>4, <1>a, <2>2, EventOfType DEF RecordDecision
  <2>4. /\ e.type = "AUTHORIZATION_DECISION" /\ e.dec = call[c].dec /\ e.req = call[c].req
        /\ e.via => call[c].via /\ e.apr = call[c].apr
        /\ \A y : SameBinding(y, call[c]) => SameBinding(y, e)
      BY DEF EventOf, SameBinding
  <2> HIDE DEF e
  <2>5. QuietLog
    <3>1. pc[c] = "decide" /\ Backed(c) /\ Bound(c)
        BY <1>4 DEF RecordDecision, GateInv
    <3>2. EntrySound(e)
        BY <2>4, <3>1 DEF EntrySound, ApprovedFor, Backed, Bound
    <3>3. QED
        BY <2>3, <2>4, <3>2 DEF QuietLog
  <2>6. PICK label \in {"idle", "canonical", "handoff", "audit"} :
          Continue(c, label, [call[c] EXCEPT !.from = Len(events) + 1])
      BY <1>4 DEF RecordDecision
  <2>7. QED
      BY <1>a, <1>c, <2>1, <2>3, <2>4, <2>5, <2>6, DecidedFine, QuietStep
<1>5. ASSUME NEW c \in Callers, Handoff(c) PROVE GateInv'
  <2>1. call[c].agent \in Agents \cup {NoID}
      BY <1>a DEF TypeOK, Call
  <2>2. QuietLog
      BY <1>5, <1>b, <2>1, LegacyType DEF Handoff, QuietLog
  <2>3. approvals' = approvals
      BY <1>5 DEF Handoff
  <2>4. QED
      BY <1>5, <1>a, <1>c, <2>2, <2>3, HandoffFine, QuietStep
<1>6. ASSUME NEW c \in Callers, CheckCanonical(c) PROVE GateInv'
  <2>1. events' = events /\ approvals' = approvals
      BY <1>6 DEF CheckCanonical
  <2>2. QED
      BY <1>6, <1>a, <1>b, <1>c, <2>1, CheckCanonicalFine, QuietStep
<1>7. ASSUME NEW c \in Callers, CheckExecuted(c) PROVE GateInv'
  <2>1. events' = events /\ approvals' = approvals
      BY <1>7 DEF CheckExecuted
  <2>2. QED
      BY <1>7, <1>a, <1>b, <1>c, <2>1, CheckExecutedFine, QuietStep
<1>8. ASSUME NEW c \in Callers, ConsumeApproval(c) PROVE GateInv'
  <2>1. CASE ApprovalIsValid(approvals[call[c].apr], call[c].now)
      BY <1>8, <1>a, <2>1, ConsumeStep
  <2>2. CASE ~ApprovalIsValid(approvals[call[c].apr], call[c].now)
    <3> DEFINE k == [call[c] EXCEPT !.status = "DENY"]
    <3>1. /\ events' = events /\ approvals' = approvals
          /\ pc' = [pc EXCEPT ![c] = "execute"] /\ call' = [call EXCEPT ![c] = k]
        BY <1>8, <2>2 DEF ConsumeApproval, Goto
    <3>2. /\ k.via = call[c].via /\ k.apr = call[c].apr /\ k.status = "DENY"
          /\ SameAction(call[c], k)
        BY <1>a DEF TypeOK, Call, SameAction
    <3> HIDE DEF k
    <3>3. /\ \A x \in Callers : x # c => Same(x)
          /\ pc'[c] = "execute" /\ call'[c] = k
        BY <1>a, <3>1, OneCaller
    <3>4. Fine(c)'
      <4>1. Backed(c)'
          BY <3>1, <3>2, <3>3, StillBacked
      <4>2. Bound(c)'
          BY <3>1, <3>2, <3>3 DEF GateInv, Bound, SameBinding, SameAction
      <4>3. QED
          BY <3>2, <3>3, <4>1, <4>2 DEF Fine, Paid
    <3>5. QED
        BY <1>a, <1>b, <1>c, <3>1, <3>3, <3>4, QuietStep
  <2>3. QED
      BY <2>1, <2>2
<1>9. ASSUME NEW c \in Callers, RecordExecution(c) PROVE GateInv'
  <2>1. CASE call[c].status = "ALLOW"
      BY <1>9, <1>a, <2>1, ExecuteStep
  <2>2. CASE call[c].status # "ALLOW"
    <3>1. approvals' = approvals /\ Continue(c, "idle", call[c])
        BY <1>9, <2>2 DEF RecordExecution
    <3>2. QuietLog
      <4> DEFINE e == EventOf(c, "EXECUTION_BLOCKED", "DENY")
      <4>1. e \in Event /\ events' = Append(events, e)
          BY <1>9, <1>a, <2>2, EventOfType DEF RecordExecution, DecisionStatus
      <4>2. e.type # "EXECUTION_ALLOWED" /\ EntrySound(e)
          BY DEF EventOf, EntrySound
      <4>3. QED
          BY <4>1, <4>2 DEF QuietLog
    <3>3. QED
        BY <1>a, <1>c, <1>e, <3>1, <3>2, ContinueFine, QuietStep
  <2>3. QED
      BY <2>1, <2>2
<1>10. ASSUME NEW c \in Callers, Audit(c) PROVE GateInv'
  <2>1. approvals' = approvals /\ Continue(c, "idle", NoCall)
      BY <1>10 DEF Audit
  <2>2. QuietLog
    <3>1. call[c].agent \in Agents \cup {NoID} /\ call[c].cap \in Capabilities \cup {NoID}
        BY <1>a DEF TypeOK, Call
    <3>2. PICK e \in Event : /\ e.type # "EXECUTION_ALLOWED" /\ EntrySound(e)
                             /\ events' = Append(events, e)
        BY <1>10, <3>1, LegacyType DEF Audit, DecisionStatus
    <3>3. QED
        BY <3>2 DEF QuietLog
  <2>3. \A x \in Callers : Same(x) \/ Fine(x)'
      BY <1>a, <2>1, OneCaller, IdleIsFine DEF Continue, Goto
  <2>4. QED
      BY <1>a, <1>c, <2>1, <2>2, <2>3, QuietStep
<1>11. ASSUME NEW c \in Callers, NEW d \in DecisionIDs, NEW e \in Expiries,
              RequestApproval(c, d, e)
       PROVE  GateInv'
  <2>1. events' = events /\ approvals' = approvals
      BY <1>11 DEF RequestApproval
  <2>2. QED
      BY <1>11, <1>a, <1>b, <1>c, <2>1, RequestApprovalFine, QuietStep
<1>12. ASSUME NEW c \in Callers, CreateApproval(c) PROVE GateInv'
  <2>1. events' = events /\ Continue(c, "idle", NoCall)
      BY <1>12 DEF CreateApproval
  <2>2. QuietStore
      BY <1>12, <1>a DEF CreateApproval, FreeApprovalIDs, Created, QuietStore, TypeOK
  <2>3. \A x \in Callers : Same(x) \/ Fine(x)'
      BY <1>a, <2>1, OneCaller, IdleIsFine DEF Continue, Goto
  <2>4. QED
      BY <1>a, <1>b, <2>1, <2>2, <2>3, QuietStep
<1>13. ASSUME NEW id \in ApprovalIDs, NEW h \in Hashes, Approve(id, h) PROVE GateInv'
  <2>1. QuietStore
      BY <1>13, <1>a DEF Approve, Approved, QuietStore, TypeOK
  <2>2. events' = events /\ pc' = pc /\ call' = call
      BY <1>13 DEF Approve
  <2>3. QED
      BY <1>a, <1>b, <1>d, <2>1, <2>2, QuietStep
<1>14. ASSUME NEW id \in ApprovalIDs, Reject(id) PROVE GateInv'
  <2>1. QuietStore
      BY <1>14, <1>a DEF Reject, Rejected, QuietStore, TypeOK
  <2>2. events' = events /\ pc' = pc /\ call' = call
      BY <1>14 DEF Reject
  <2>3. QED
      BY <1>a, <1>b, <1>d, <2>1, <2>2, QuietStep
<1>15. CASE AuthorityStep \/ UNCHANGED vars
  <2>1. events' = events /\ approvals' = approvals /\ pc' = pc /\ call' = call
      BY <1>15 DEF AuthorityStep, gateVars, vars
  <2>2. QED
      BY <1>a, <1>b, <1>c, <1>d, <2>1, QuietStep
<1>16. QED
    BY <1>1, <1>2, <1>3, <1>4, <1>5, <1>6, <1>7, <1>8, <1>9, <1>10, <1>11, <1>12,
       <1>13, <1>14, <1>15 DEF Next, CallerStep, ReviewerStep

\* GateInv holds in every reachable state.
THEOREM GateSafe == Spec => []GateInv
BY InitInv, NextInv, PTL DEF Spec

\* No execution reaches the ledger without an ALLOW for exactly its decision,
\* agent, capability and artifact, no earlier than the latest decision when
\* the call began, and for its request unless the decision was brought along
\* (executeDecision).
THEOREM OnlyAuthorizedExecutions == Spec => []ExecutionAuthorized
<1>1. GateInv => ExecutionAuthorized
    BY DEF GateInv
<1>2. QED
    BY <1>1, GateSafe, PTL

\* An approval never pays for two executions (ApprovalStore.Consume).
THEOREM ApprovalsAreSingleUse == Spec => []ApprovalSingleUse
<1>1. GateInv => ApprovalSingleUse
    BY DEF GateInv
<1>2. QED
    BY <1>1, GateSafe, PTL

\* What allows an execution through an approval was approved for it, and a
\* call authorized through one has used that one up (Authorize's binding
\* test, Consume by ID).
THEOREM ApprovalsStayBound == Spec => []ApprovedExecutionsBound
<1>1. GateInv => ApprovedExecutionsBound
    BY DEF GateInv
<1>2. QED
    BY <1>1, GateSafe, PTL

\* Each step moves each approval forward or leaves it alone.
LEMMA ApprovalStep ==
    ASSUME TypeOK, [Next]_vars, NEW id \in ApprovalIDs
    PROVE  MovesForward(approvals[id], approvals'[id])
<1>a. approvals \in [ApprovalIDs -> Approval]
    BY DEF TypeOK
<1>b. approvals' = approvals => MovesForward(approvals[id], approvals'[id])
    BY DEF MovesForward
<1>1. ASSUME NEW c \in Callers, CallerStep(c), approvals' # approvals
      PROVE  MovesForward(approvals[id], approvals'[id])
  <2>1. CASE ConsumeApproval(c)
    <3>1. call[c].apr \in ApprovalIDs /\ approvals[call[c].apr].status = "approved"
          /\ approvals' = [approvals EXCEPT ![call[c].apr].status = "consumed"]
        BY <1>1, <2>1, <1>a DEF ConsumeApproval, Consumed, ApprovalIsValid
    <3>2. QED
        BY <3>1, <1>a DEF MovesForward, Lifecycle, Approval
  <2>2. CASE CreateApproval(c)
    <3>1. PICK new \in ApprovalIDs :
            /\ approvals[new].status = "none"
            /\ approvals' = Created(approvals, new, call[c], call[c].expires)
        BY <2>2 DEF CreateApproval, FreeApprovalIDs
    <3>2. QED
        BY <3>1, <1>a DEF MovesForward, Lifecycle, Created
  <2>3. ASSUME \/ CheckApproval(c) \/ RecordDecision(c) \/ Handoff(c) \/ CheckCanonical(c)
               \/ CheckExecuted(c) \/ RecordExecution(c) \/ Audit(c)
        PROVE  approvals' = approvals
      BY <2>3 DEF CheckApproval, RecordDecision, Handoff, CheckCanonical, CheckExecuted,
                  RecordExecution, Audit
  <2>4. ASSUME NEW kind, NEW r, NEW q, NEW d, NEW a, NEW e,
               \/ Receive(c, kind, r, d, a) \/ ExecuteDecision(c, r, q, d, a)
               \/ RequestApproval(c, d, e)
        PROVE  approvals' = approvals
      BY <2>4 DEF Receive, ExecuteDecision, RequestApproval
  <2>5. QED
      BY <1>1, <2>1, <2>2, <2>3, <2>4 DEF CallerStep
<1>2. ASSUME NEW x \in ApprovalIDs, NEW h \in Hashes, Approve(x, h)
      PROVE  MovesForward(approvals[id], approvals'[id])
  <2> DEFINE hh == IF approvals[x].hash # NoHash THEN approvals[x].hash ELSE h
  <2>1. \/ approvals' = approvals
        \/ approvals[x].status = "pending"
           /\ approvals' = [approvals EXCEPT ![x] = [approvals[x] EXCEPT !.status = "expired"]]
        \/ approvals[x].status = "pending"
           /\ approvals' = [approvals EXCEPT ![x] =
                              [approvals[x] EXCEPT !.status = "approved", !.hash = hh]]
      BY <1>2, <1>a DEF Approve, Approved
  <2>2. approvals[x].hash # NoHash => hh = approvals[x].hash
      OBVIOUS
  <2> HIDE DEF hh
  <2>3. CASE /\ approvals[x].status = "pending"
             /\ approvals' = [approvals EXCEPT ![x] =
                                [approvals[x] EXCEPT !.status = "approved", !.hash = hh]]
    <3>1. CASE id = x
      <4>1. approvals'[id] = [approvals[id] EXCEPT !.status = "approved", !.hash = hh]
          BY <2>3, <3>1, <1>a
      <4>2. QED
          BY <4>1, <2>2, <2>3, <3>1, <1>a DEF MovesForward, Lifecycle, Approval
    <3>2. CASE id # x
        BY <2>3, <3>2, <1>a DEF MovesForward
    <3>3. QED
        BY <3>1, <3>2
  <2>4. CASE /\ approvals[x].status = "pending"
             /\ approvals' = [approvals EXCEPT ![x] = [approvals[x] EXCEPT !.status = "expired"]]
      BY <2>4, <1>a DEF MovesForward, Lifecycle, Approval
  <2>5. QED
      BY <2>1, <2>3, <2>4, <1>b
<1>3. ASSUME NEW x \in ApprovalIDs, Reject(x)
      PROVE  MovesForward(approvals[id], approvals'[id])
  <2>1. \/ approvals' = approvals
        \/ approvals[x].status = "pending"
           /\ \E st \in {"expired", "rejected"} :
                approvals' = [approvals EXCEPT ![x] = [approvals[x] EXCEPT !.status = st]]
      BY <1>3, <1>a DEF Reject, Rejected
  <2>2. QED
      BY <2>1, <1>a, <1>b DEF MovesForward, Lifecycle, Approval
<1>4. CASE AuthorityStep \/ UNCHANGED vars
    BY <1>4, <1>b DEF AuthorityStep, gateVars, vars
<1>5. QED
    BY <1>1, <1>2, <1>3, <1>4, <1>b DEF Next, ReviewerStep

\* Approvals only move forward and keep what they are bound to (approval.go).
THEOREM ApprovalsMoveForward == Spec => ApprovalLifecycle
<1>1. TypeOK /\ [Next]_vars
        => [\A id \in ApprovalIDs : MovesForward(approvals[id], approvals'[id])]_vars
    BY ApprovalStep
<1>2. QED
    BY <1>1, TypeCorrect, PTL DEF Spec, ApprovalLifecycle
=============================================================================
