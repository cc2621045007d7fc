--------------------------- MODULE MCCoordinator ---------------------------
EXTENDS Coordinator

\* One urgent task that is tried twice, and one that is tried once since it is
\* pushed with a negative MaxRetry.
CONSTANTS t1, t2
MCPriority == [t \in Tasks |-> IF t = t2 THEN 1 ELSE 0]
MCMaxRetry == [t \in Tasks |-> IF t = t1 THEN -1 ELSE 1]
=============================================================================
