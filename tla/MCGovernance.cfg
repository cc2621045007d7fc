SPECIFICATION Spec
CONSTANTS
    Callers = {c1}
    Tools = {"deploy", "search"}
    Resources = {"search"}
    None = None
    Policies <- MCPolicies
    Restrictions <- MCRestrictions
    BlockedTools = {"search"}
    FailClosed = TRUE
CHECK_DEADLOCK FALSE
INVARIANTS RegistryConsistent DecisionSettled EnforcedDuringCall
