----------------------------- MODULE MCWorkflow -----------------------------
EXTENDS Workflow

CONSTANTS c1, c2, c3, c4, s1, s2, s3

\* Plain, retried and grouped execution of the same workflow, one of the groups
\* being empty, and one with MaxRetries below zero.
MCMode == [c \in Calls |-> IF c = c3 THEN "groups" ELSE "steps"]
MCMaxRetries == [c \in Calls |-> IF c = c2 THEN 2 ELSE IF c = c4 THEN -1 ELSE 0]
MCPlan == [steps |-> <<{s1}, {s2}>>, groups |-> <<{s1}, {}, {s2, s3}>>]
=============================================================================
