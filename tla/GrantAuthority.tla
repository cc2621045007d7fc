--------------------------- MODULE GrantAuthority ---------------------------
(***************************************************************************)
(* The authority an agent holds at a moment: the policies of PolicyStore   *)
(* (internal/investordemo/policy_engine.go), the grants of GrantStore      *)
(* (grant_store.go) and the clock, with the operations that change them    *)
(* while requests are in flight.                                           *)
(*                                                                         *)
(* PolicyStore keeps two maps to the same *Policy objects: `versions` by   *)
(* version and `policies` by ID.  Here `versions` holds the objects and    *)
(* `current` the version the second map points to, so that marking the     *)
(* current object "superseded" is seen through both, as in Go.             *)
(***************************************************************************)
EXTENDS PolicyEvaluator

CONSTANTS PolicyCatalog,   \* the policies an operator may install
          GrantCatalog,    \* the grants an operator may store
          InitialPolicy, InitialGrant,   \* what SetupDemoEnvironment stores
          MaxTime,         \* bound on the clock
          MaxChanges,      \* bound on the operator's changes
          NoPolicy, NoGrant

ASSUME CatalogAssumption ==
    /\ PolicyCatalog \subseteq Policy
    /\ \A p \in PolicyCatalog : p.version > 0 /\ p.status = "active"
    /\ GrantCatalog \subseteq Grant
    /\ \A g \in GrantCatalog : g.id # NoID
    /\ InitialPolicy \in PolicyCatalog /\ InitialGrant \in GrantCatalog
    /\ MaxTime \in Nat /\ MaxChanges \in Nat
    /\ NoPolicy \notin Policy
    /\ NoGrant \notin Grant

VARIABLES clock,      \* time.Now()
          versions,   \* PolicyStore.versions: PolicyID -> version -> object
          current,    \* PolicyStore.policies: PolicyID -> its version, or 0
          updating,   \* per policy: the UpdatePolicy calls that have yet to install it
          grants,     \* GrantStore.grants: GrantID -> grant
          byAgent,    \* GrantStore.byAgent: AgentID -> GrantID
          changes     \* operator changes so far (bounded by MaxChanges)

authVars == <<clock, versions, current, updating, grants, byAgent, changes>>

Versions == {p.version : p \in PolicyCatalog}

AuthTypeOK ==
    /\ clock \in Nat
    /\ versions \in [PolicyIDs -> [Versions -> Policy \cup {NoPolicy}]]
    /\ current \in [PolicyIDs -> Versions \cup {0}]
    /\ \A i \in PolicyIDs : current[i] # 0 => versions[i][current[i]] # NoPolicy
    /\ updating \in [PolicyCatalog -> Nat]
    /\ grants \in [GrantIDs -> Grant \cup {NoGrant}]
    /\ byAgent \in [Agents -> GrantIDs \cup {NoID}]
    /\ changes \in 0..MaxChanges

\* SetupDemoEnvironment: one policy and one grant are stored before the
\* server starts.
AuthInit ==
    /\ clock = 0
    /\ versions = [i \in PolicyIDs |-> [v \in Versions |->
                     IF i = InitialPolicy.id /\ v = InitialPolicy.version
                     THEN InitialPolicy ELSE NoPolicy]]
    /\ current = [i \in PolicyIDs |-> IF i = InitialPolicy.id
                                      THEN InitialPolicy.version ELSE 0]
    /\ updating = [p \in PolicyCatalog |-> 0]
    /\ grants = [i \in GrantIDs |-> IF i = InitialGrant.id THEN InitialGrant ELSE NoGrant]
    /\ byAgent = [a \in Agents |-> IF a = InitialGrant.agent THEN InitialGrant.id ELSE NoID]
    /\ changes = 0
-----------------------------------------------------------------------------
\* PolicyStore.GetPolicy: the current policy of an ID, if it is active.
GetPolicy(id) ==
    IF id \in PolicyIDs /\ current[id] # 0
       /\ versions[id][current[id]].status = "active"
    THEN versions[id][current[id]]
    ELSE NoPolicy

\* GrantStore.GetGrantByAgent.
GetGrantByAgent(a) ==
    IF byAgent[a] = NoID THEN NoGrant ELSE grants[byAgent[a]]

\* What enforceControlPlane and Authorize decide for a request made now,
\* before any approval is considered.
Verdict(a, cap) ==
    LET g == GetGrantByAgent(a) IN
    IF g = NoGrant THEN "DENY"
    ELSE LET p == GetPolicy(g.policy) IN
         IF p = NoPolicy THEN "DENY" ELSE Evaluate(p, g, a, cap, clock)[1]
-----------------------------------------------------------------------------
\* One more change by the operator.
Change == changes < MaxChanges /\ changes' = changes + 1

Tick ==
    /\ clock < MaxTime
    /\ clock' = clock + 1
    /\ UNCHANGED <<versions, current, updating, grants, byAgent, changes>>

\* UpdatePolicy, first half: the active policy of that ID is marked
\* superseded.  PolicyStore has no lock, so readers and other updates may
\* come in between.
SupersedePolicy(p) ==
    /\ Change
    /\ updating' = [updating EXCEPT ![p] = @ + 1]
    /\ versions' =
         IF current[p.id] # 0 /\ versions[p.id][current[p.id]].status = "active"
         THEN [versions EXCEPT ![p.id][current[p.id]].status = "superseded"]
         ELSE versions
    /\ UNCHANGED <<clock, current, grants, byAgent>>

\* UpdatePolicy, second half: both maps point to the new object.
InstallPolicy(p) ==
    /\ updating[p] > 0
    /\ current' = [current EXCEPT ![p.id] = p.version]
    /\ versions' = [versions EXCEPT ![p.id][p.version] = p]
    /\ updating' = [updating EXCEPT ![p] = @ - 1]
    /\ UNCHANGED <<clock, grants, byAgent, changes>>

\* StoreGrant: an agent has one grant; an older grant of the agent stays in
\* `grants` but is no longer found through the agent.
StoreGrant(g) ==
    /\ Change
    /\ grants' = [grants EXCEPT ![g.id] = g]
    /\ byAgent' = [byAgent EXCEPT ![g.agent] = g.id]
    /\ UNCHANGED <<clock, versions, current, updating>>

\* RevokeGrant: an error when the grant is unknown (no state change).
RevokeGrant(id) ==
    /\ Change
    /\ grants[id] # NoGrant
    /\ grants' = [grants EXCEPT ![id].revoked = TRUE, ![id].status = "revoked"]
    /\ UNCHANGED <<clock, versions, current, updating, byAgent>>

Restrict ==
    \/ Tick
    \/ \E p \in PolicyCatalog : SupersedePolicy(p)
    \/ \E id \in GrantIDs : RevokeGrant(id)

AuthNext ==
    \/ Restrict
    \/ \E p \in PolicyCatalog : InstallPolicy(p)
    \/ \E g \in GrantCatalog : StoreGrant(g)

AuthSpec == AuthInit /\ [][AuthNext]_authVars
-----------------------------------------------------------------------------
\* The order of the early returns of Evaluate does not matter to the status:
\* an agent is allowed exactly what its grant and its policy both name, minus
\* everything denied or protected; what needs approval is never plainly
\* allowed (evaluator.go, stated without its order).
LeastPrivilege ==
    \A a \in Agents, cap \in Capabilities :
      LET g == GetGrantByAgent(a)
          p == IF g = NoGrant THEN NoPolicy ELSE GetPolicy(g.policy)
          bound == /\ p # NoPolicy
                   /\ g.agent = a /\ g.version = p.version
                   /\ g.status = "active" /\ ~g.revoked /\ clock <= g.expires
          core == IF bound THEN (g.caps \cap p.allowed) \ (p.denied \cup p.protected)
                  ELSE {}
      IN /\ (Verdict(a, cap) = "ALLOW") <=> (cap \in core /\ cap \notin p.approval)
         /\ (Verdict(a, cap) = "REQUIRE_APPROVAL") <=> (cap \in core /\ cap \in p.approval)

Rank(status) ==
    CASE status = "DENY" -> 0 [] status = "REQUIRE_APPROVAL" -> 1 [] status = "ALLOW" -> 2

\* Time passing, a policy being superseded and a grant being revoked never
\* give any agent more authority than it had, in any order with the other
\* operations; only installing a policy or storing a grant may.
RestrictingNeverWidens ==
    [][Restrict => \A a \in Agents, cap \in Capabilities :
                      Rank(Verdict(a, cap)') <= Rank(Verdict(a, cap))]_authVars
=============================================================================
