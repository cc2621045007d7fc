-------------------------- MODULE MCGrantAuthority --------------------------
EXTENDS GrantAuthority

\* One policy in two versions over four capabilities: read is allowed by
\* both, deploy needs approval in version 1 and none in version 2, rotate is
\* allowed but protected, drop is allowed but denied.
MCCapabilities == {"read", "deploy", "rotate", "drop"}
MCPolicy(v, approval) ==
    [id |-> "P", version |-> v, status |-> "active",
     allowed |-> MCCapabilities, denied |-> {"drop"},
     protected |-> {"rotate"}, approval |-> approval]
MCPolicies == {MCPolicy(1, {"deploy"}), MCPolicy(2, {})}

MCGrant(id, a, v, caps, exp) ==
    [id |-> id, agent |-> a, policy |-> "P", version |-> v, caps |-> caps,
     expires |-> exp, status |-> "active", revoked |-> FALSE]
MCGrants == {MCGrant("G1", "a1", 1, MCCapabilities, 1),
             MCGrant("G1", "a2", 1, {"read"}, 2),
             MCGrant("G2", "a1", 2, {"read", "deploy", "rotate"}, 2),
             MCGrant("G2", "a2", 2, {"drop"}, 0)}
MCInitialPolicy == MCPolicy(1, {"deploy"})
MCInitialGrant == MCGrant("G1", "a1", 1, MCCapabilities, 1)
=============================================================================
