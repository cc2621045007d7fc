--------------------------- MODULE MCExecutionGate ---------------------------
EXTENDS ExecutionGate, TLC

\* Version 1 of the policy needs approval for deploy, version 2 does not.
MCPolicy(v, approval) ==
    [id |-> "P", version |-> v, status |-> "active",
     allowed |-> {"read", "deploy"}, denied |-> {}, protected |-> {},
     approval |-> approval]
MCPolicy1 == MCPolicy(1, {"deploy"})
MCPolicies == {MCPolicy1, MCPolicy(2, {})}

MCGrant1 ==
    [id |-> "G1", agent |-> "a1", policy |-> "P", version |-> 1,
     caps |-> {"read", "deploy"}, expires |-> 1, status |-> "active", revoked |-> FALSE]

MCRead == [id |-> "r1", agent |-> "a1", cap |-> "read", hash |-> "none"]
MCDeploy == [id |-> "r1", agent |-> "a1", cap |-> "deploy", hash |-> "h1"]
MCRead2 == [MCRead EXCEPT !.id = "r2"]

TwoReads == {MCRead, MCRead2}
ReadAndDeploy == {MCRead, MCDeploy}
OnePolicy == {MCPolicy1}
OneGrant == {MCGrant1}

Symmetry == Permutations(Callers) \cup Permutations(ApprovalIDs) \cup Permutations(DecisionIDs)
=============================================================================
