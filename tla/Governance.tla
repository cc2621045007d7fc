----------------------------- MODULE Governance -----------------------------
(***************************************************************************)
(* The governance control plane (internal/governance/control/control.go,   *)
(* policy/registry.go) under the gateway of the runtime                    *)
(* (internal/runtime/gateway): agents ask for tools, policies and          *)
(* restrictions change at any time.                                        *)
(*                                                                         *)
(* A tool request has a tool, and a resource and an action or "".  The     *)
(* policies judge the resource and the action, where "" stands for the tool *)
(* and for "execute"; restrictions and the sandbox look at the tool.  Of a *)
(* scope and a rule's condition the model keeps what they match, and of a  *)
(* restriction's patterns the requests.                                    *)
(* The registry's lists of versions are sets; the histories, which are     *)
(* only appended to, and who asked are left out.                           *)
(***************************************************************************)
EXTENDS Integers, Sequences, SequencesExt, FiniteSets

CONSTANTS Callers, Tools, Resources, None,
          Policies,      \* what may be registered: id, version, scope, default, rules
          Restrictions,  \* what may be added: sets of requests
          BlockedTools,  \* SandboxConfig: blocked, or not among the allowed
          FailClosed     \* the option of the control plane

Actions == {"", "execute", "read"}
Requests == [tool : Tools, resource : Resources \cup {""}, action : Actions]
Targets == [resource : Tools \cup Resources, action : Actions \ {""}]
Decisions == {"DENY", "REQUIRE_APPROVAL", "ALLOW"}

\* What the control plane decides on.
Target(r) == [resource |-> IF r.resource = "" THEN r.tool ELSE r.resource,
              action |-> IF r.action = "" THEN "execute" ELSE r.action]

ASSUME GovernanceAssumption ==
    /\ None \notin Policies /\ None \notin Decisions \cup {"denied", "completed", "failed"}
    /\ FailClosed \in BOOLEAN /\ Restrictions \subseteq SUBSET Requests
    /\ \A p \in Policies :
        /\ p.scope \subseteq Targets /\ p.default \in Decisions
        /\ p.rules \in Seq([passes : SUBSET Targets, decision : Decisions, priority : Int])
    /\ \A p, q \in Policies : p.id = q.id /\ p.version = q.version => p = q

PolicyIDs == {p.id : p \in Policies}

VARIABLES versions,      \* Registry.versions: the policies that are registered
          policies,      \* Registry.policies: ID -> policy or None
          flagged,       \* the policies with Active = true
          restrictions,  \* ExecutionGateway.restrictions
          pc, req, decision, outcome,   \* caller -> its call of Authorize
          \* History of a call: whether the policies allowed the request at
          \* some time since it began, and the restrictions at the beginning.
          allowed, before

registry == <<versions, policies, flagged>>
call == <<pc, req, decision, outcome>>
vars == <<registry, restrictions, call, allowed, before>>

NoRequest == [tool |-> None, resource |-> "", action |-> ""]

Init ==
    /\ versions = {} /\ policies = [id \in PolicyIDs |-> None] /\ flagged = {}
    /\ restrictions = {}
    /\ pc = [c \in Callers |-> "idle"] /\ req = [c \in Callers |-> NoRequest]
    /\ decision = [c \in Callers |-> None] /\ outcome = [c \in Callers |-> None]
    /\ allowed = [c \in Callers |-> FALSE] /\ before = [c \in Callers |-> {}]
-----------------------------------------------------------------------------
Rank(d) == CASE d = "DENY" -> 3 [] d = "REQUIRE_APPROVAL" -> 2 [] d = "ALLOW" -> 1 [] OTHER -> 0

\* evaluatePolicy: a failing rule denies, otherwise the rule with the highest
\* priority, the first one among equals, decides; without rules the default.
\* (The evaluator's only error is a nil context, which Evaluate rules out.)
PolicyDecision(p, r) ==
    LET First(i) == \A j \in 1..Len(p.rules) :
                        p.rules[i].priority >= p.rules[j].priority + (IF j < i THEN 1 ELSE 0)
    IN  IF \E i \in 1..Len(p.rules) : r \notin p.rules[i].passes THEN "DENY"
        ELSE IF p.rules = <<>> THEN p.default
        ELSE p.rules[CHOOSE i \in 1..Len(p.rules) : First(i)].decision

Stricter_last(d, e) == e   \* Mutant: the last policy decides.

Stricter(d, e) == IF Rank(e) >= Rank(d) THEN e ELSE d

\* Registry.ActiveFor; flags are the marked policies.
ActiveFor(active, flags, r) ==
    {p \in {active[id] : id \in PolicyIDs} \ {None} : p \in flags /\ r \in p.scope}

\* Evaluate, with the matching policies in the order of the map.
Aggregate(order, r) ==
    IF order = <<>> THEN (IF FailClosed THEN "DENY" ELSE "ALLOW")
    ELSE FoldLeft(LAMBDA d, p : Stricter(d, PolicyDecision(p, r)), None, order)

\* What the policies may decide for a tool request.
Outcomes(active, flags, r) ==
    {Aggregate(order, Target(r)) : order \in SetToSeqs(ActiveFor(active, flags, Target(r)))}

\* The registry changes; for the calls under way the history is kept.
Change(newVersions, newPolicies, newFlags) ==
    /\ versions' = newVersions /\ policies' = newPolicies /\ flagged' = newFlags
    /\ allowed' = [c \in Callers |->
           pc[c] # "idle" /\ (allowed[c] \/ "ALLOW" \in Outcomes(newPolicies, newFlags, req[c]))]
    /\ UNCHANGED <<restrictions, call, before>>

\* Registry.Register: the new version is active, and the old one is not.
Register(p) ==
    /\ p \notin versions
    /\ Change(versions \cup {p}, [policies EXCEPT ![p.id] = p],
              (flagged \cup {p}) \ ({policies[p.id]} \ {None}))

\* Mutant: the new version is marked before the old one is unmarked.
SetActive_late(p) ==
    /\ p \in versions
    /\ Change(versions, [policies EXCEPT ![p.id] = p], (flagged \cup {p}) \ {policies[p.id]})

\* Registry.SetActive, of the active version too.
SetActive(p) ==
    /\ p \in versions
    /\ Change(versions, [policies EXCEPT ![p.id] = p], (flagged \ {policies[p.id]}) \cup {p})

\* Registry.Delete: all versions go (and with them their marks: Register sets
\* the mark of a policy that comes back).
Delete(id) ==
    /\ \E p \in versions : p.id = id
    /\ Change({p \in versions : p.id # id}, [policies EXCEPT ![id] = None],
              {p \in flagged : p.id # id})

AddRestriction(x) ==
    /\ x \notin restrictions /\ restrictions' = restrictions \cup {x}
    /\ UNCHANGED <<registry, call, allowed, before>>
-----------------------------------------------------------------------------
Goes(c, from, to) == pc[c] = from /\ pc' = [pc EXCEPT ![c] = to]

\* ExecutionGateway.Authorize, through an adapter or not.
Authorize(c, r) ==
    /\ Goes(c, "idle", "evaluate") /\ req' = [req EXCEPT ![c] = r]
    /\ before' = [before EXCEPT ![c] = restrictions]
    /\ allowed' = [allowed EXCEPT ![c] = "ALLOW" \in Outcomes(policies, flagged, r)]
    /\ UNCHANGED <<registry, restrictions, decision, outcome>>

\* ControlPlane.Evaluate: the policies are read at once, and not changed after.
Evaluate(c) ==
    /\ Goes(c, "evaluate", "restrict")
    /\ \E d \in Outcomes(policies, flagged, req[c]) : decision' = [decision EXCEPT ![c] = d]
    /\ UNCHANGED <<registry, restrictions, req, outcome, allowed, before>>

\* Mutant: what the policies allow is executed.
CheckRestrictions_skipped(c) ==
    /\ decision[c] = "ALLOW"
    /\ Goes(c, "restrict", "execute")
    /\ UNCHANGED <<registry, restrictions, req, decision, outcome, allowed, before>>

\* restrictionsMatch, with the request as it was made, and the decision.
CheckRestrictions(c) ==
    /\ decision[c] = "ALLOW" /\ ~\E x \in restrictions : req[c] \in x
    /\ Goes(c, "restrict", "execute")
    /\ UNCHANGED <<registry, restrictions, req, decision, outcome, allowed, before>>

Denied(c) ==
    /\ decision[c] # "ALLOW" \/ \E x \in restrictions : req[c] \in x
    /\ Goes(c, "restrict", "returned")
    /\ outcome' = [outcome EXCEPT ![c] = "denied"]
    /\ UNCHANGED <<registry, restrictions, req, decision, allowed, before>>

\* DefaultSandbox.Execute refuses blocked tools and those not among the allowed.
SandboxRuns(r) == r.tool \notin BlockedTools

\* The execution in the sandbox and the record of its outcome.
Execute(c) ==
    /\ Goes(c, "execute", "returned")
    /\ outcome' = [outcome EXCEPT ![c] =
                       IF SandboxRuns(req[c]) THEN "completed" ELSE "failed"]
    /\ UNCHANGED <<registry, restrictions, req, decision, allowed, before>>

\* The call returns, and the agent may call again.
Return(c) ==
    /\ Goes(c, "returned", "idle")
    /\ req' = [req EXCEPT ![c] = NoRequest] /\ decision' = [decision EXCEPT ![c] = None]
    /\ outcome' = [outcome EXCEPT ![c] = None]
    /\ allowed' = [allowed EXCEPT ![c] = FALSE] /\ before' = [before EXCEPT ![c] = {}]
    /\ UNCHANGED <<registry, restrictions>>

Next ==
    \/ \E p \in Policies : Register(p) \/ SetActive(p)
    \/ \E id \in PolicyIDs : Delete(id)
    \/ \E x \in Restrictions : AddRestriction(x)
    \/ \E c \in Callers :
        \/ \E r \in Requests : Authorize(c, r)
        \/ Evaluate(c) \/ CheckRestrictions(c) \/ Denied(c) \/ Execute(c) \/ Return(c)

Spec == Init /\ [][Next]_vars
-----------------------------------------------------------------------------
\* The two places that say which version is active agree: the registered
\* versions of a policy that are marked are the one in the map, also after
\* activating the active version, an older one, or registering after Delete.
RegistryConsistent ==
    \A id \in PolicyIDs :
        {p \in versions : p.id = id /\ p \in flagged} =
        IF policies[id] = None THEN {} ELSE {policies[id]}

\* "Given the same policy, action, and context it always produces the same
\* decision" (control.go): whatever the order of the map, and where a policy
\* matches already, one more never makes the decision less strict.
DecisionSettled ==
    \A r \in Targets :
        LET Matching == ActiveFor(policies, flagged, r)
            All(S) == {Aggregate(order, r) : order \in SetToSeqs(S)}
        IN  /\ Cardinality(All(Matching)) = 1
            /\ \A p \in {q \in Policies : policies[q.id] = None /\ r \in q.scope} :
                   Matching # {} =>
                       \A d \in All(Matching), e \in All(Matching \cup {p}) : Rank(e) >= Rank(d)

\* A tool runs only if the policies allowed what the request names at some time
\* during the call, whatever changed meanwhile, and no restriction that was there
\* when the call began covers the tool and the action decided on; unless the
\* agent left the action out: restrictions are matched with "", policies with
\* "execute".
EnforcedDuringCall ==
    \A c \in Callers :
        outcome[c] \in {"completed", "failed"} =>
            /\ allowed[c]
            /\ \A x \in before[c] :
                   [req[c] EXCEPT !.action = Target(req[c]).action] \in x =>
                       req[c].action = ""
=============================================================================
