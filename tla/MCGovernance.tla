---------------------------- MODULE MCGovernance ----------------------------
EXTENDS Governance

All == Targets
Of(t) == {x \in Targets : x.resource = t}
Execs == {x \in Targets : x.action = "execute"}
Rule(passes, d, n) == [passes |-> passes, decision |-> d, priority |-> n]
P(id, v, scope, default, rules) ==
    [id |-> id, version |-> v, scope |-> scope, default |-> default, rules |-> rules]

\* Two versions of a policy for everything, two for the tool "deploy", with and
\* without rules, and one that stops all executions.
MCPolicies == {
    P("base", 1, All, "ALLOW", <<>>),
    P("base", 2, All, "DENY", <<Rule(Execs, "ALLOW", 1), Rule(All, "REQUIRE_APPROVAL", 0)>>),
    P("deploy", 1, Of("deploy"), "REQUIRE_APPROVAL", <<>>),
    P("deploy", 2, Of("deploy"), "ALLOW", <<Rule(All \ Execs, "ALLOW", 0)>>),
    P("freeze", 1, Execs, "DENY", <<>>) }

\* No execution of any tool; nothing with "deploy".
MCRestrictions ==
    {{r \in Requests : r.action = "execute"}, {r \in Requests : r.tool = "deploy"}}
=============================================================================
