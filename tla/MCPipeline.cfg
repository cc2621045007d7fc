SPECIFICATION Spec
CONSTANTS
    a = a
    b = b
    Procs = {p1, p2}
    Specs = {a, b}
    None = None
    Languages = {"go", "rust"}
    Policies = {"lenient", "strict"}
    Checks = {"open", "strict"}
    PolicyPasses <- MCPolicyPasses
    Accepts <- MCAccepts
    MaxSize = 1
    MaxCalls = 3
CHECK_DEADLOCK FALSE
INVARIANTS CachedEqualsFresh PoliciesGuardOutput
SYMMETRY Symmetry
