-------------------------- MODULE PolicyEvaluator --------------------------
(***************************************************************************)
(* The deterministic policy evaluation of internal/controlplane:           *)
(* Grant.IsValid (model.go) and Evaluator.Evaluate (evaluator.go) as pure  *)
(* operators over records.  Only the fields evaluation reads are kept; a   *)
(* capability list is a set, since Evaluate only asks for membership.      *)
(***************************************************************************)
EXTENDS Integers

CONSTANTS Agents, Capabilities, PolicyIDs, GrantIDs,
          NoID          \* the empty string as an identifier

ASSUME NoIDAssumption == NoID \notin PolicyIDs \cup GrantIDs

DecisionStatus == {"ALLOW", "DENY", "REQUIRE_APPROVAL"}

Policy ==
    [id : PolicyIDs, version : Nat, status : {"active", "superseded"},
     allowed : SUBSET Capabilities, denied : SUBSET Capabilities,
     protected : SUBSET Capabilities, approval : SUBSET Capabilities]

Grant ==
    [id : GrantIDs \cup {NoID}, agent : Agents, policy : PolicyIDs \cup {NoID},
     version : Nat, caps : SUBSET Capabilities, expires : Nat,
     status : {"active", "revoked"}, revoked : BOOLEAN]

\* Mutant: the comparison with ExpiresAt is turned round.
GrantIsValid_flippedExpiry(g, now) ==
    /\ ~g.revoked
    /\ g.status = "active"
    /\ now > g.expires
    /\ g.policy # NoID /\ g.id # NoID

\* Grant.IsValid: valid up to and including ExpiresAt.
GrantIsValid(g, now) ==
    /\ ~g.revoked
    /\ g.status = "active"
    /\ ~(now > g.expires)
    /\ g.policy # NoID /\ g.id # NoID

\* Mutant: the allow list is consulted before the protected list.
Evaluate_allowFirst(p, g, agent, cap, now) ==
    IF p.status # "active"            THEN <<"DENY", "stale_policy">>
    ELSE IF ~GrantIsValid(g, now)     THEN <<"DENY", "grant_not_valid">>
    ELSE IF g.policy # p.id           THEN <<"DENY", "grant_policy_mismatch">>
    ELSE IF g.version # p.version     THEN <<"DENY", "grant_version_mismatch">>
    ELSE IF g.agent # agent           THEN <<"DENY", "agent_scope_mismatch">>
    ELSE IF cap \notin g.caps         THEN <<"DENY", "capability_not_in_grant">>
    ELSE IF cap \in p.allowed /\ cap \notin p.approval
                                      THEN <<"ALLOW", "allowed_by_policy">>
    ELSE IF cap \in p.protected       THEN <<"DENY", "protected_capability">>
    ELSE IF cap \in p.denied          THEN <<"DENY", "denied_by_policy">>
    ELSE IF cap \notin p.allowed      THEN <<"DENY", "denied_by_policy">>
    ELSE                                   <<"REQUIRE_APPROVAL", "approval_required">>

\* Evaluator.Evaluate, with the policy and the grant present (Authorize
\* rejects a nil policy or grant before it evaluates): the first check that
\* fails decides, and <<status, reason>> is the result.
Evaluate(p, g, agent, cap, now) ==
    IF p.status # "active"            THEN <<"DENY", "stale_policy">>
    ELSE IF ~GrantIsValid(g, now)     THEN <<"DENY", "grant_not_valid">>
    ELSE IF g.policy # p.id           THEN <<"DENY", "grant_policy_mismatch">>
    ELSE IF g.version # p.version     THEN <<"DENY", "grant_version_mismatch">>
    ELSE IF g.agent # agent           THEN <<"DENY", "agent_scope_mismatch">>
    ELSE IF cap \notin g.caps         THEN <<"DENY", "capability_not_in_grant">>
    ELSE IF cap \in p.protected       THEN <<"DENY", "protected_capability">>
    ELSE IF cap \in p.denied          THEN <<"DENY", "denied_by_policy">>
    ELSE IF cap \notin p.allowed      THEN <<"DENY", "denied_by_policy">>
    ELSE IF cap \in p.approval        THEN <<"REQUIRE_APPROVAL", "approval_required">>
    ELSE                                   <<"ALLOW", "allowed_by_policy">>
=============================================================================
