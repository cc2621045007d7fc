SPECIFICATION Spec
CONSTANTS
    c1 = c1
    c2 = c2
    c3 = c3
    c4 = c4
    s1 = s1
    s2 = s2
    s3 = s3
    Calls = {c1, c2, c3, c4}
    Steps = {s1, s2, s3}
    Timed = {s1, s2}
    Mode <- MCMode
    Plan <- MCPlan
    MaxRetries <- MCMaxRetries
CHECK_DEADLOCK FALSE
INVARIANTS OneExecution ResultAgrees EffectOnce
PROPERTIES TerminalIsFinal ExecutionEnds
