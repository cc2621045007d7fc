SPECIFICATION Spec
CONSTANTS
    Agents = {"a1"}
    Capabilities = {"read", "deploy"}
    PolicyIDs = {"P"}
    GrantIDs = {"G1"}
    NoID = NoID
    NoPolicy = NoPolicy
    NoGrant = NoGrant
    PolicyCatalog <- OnePolicy
    GrantCatalog <- OneGrant
    InitialPolicy <- MCPolicy1
    InitialGrant <- MCGrant1
    MaxTime = 1
    MaxChanges = 0
    ApprovalIDs = {p1}
    DecisionIDs = {d1}
    Hashes = {"none", "h1"}
    NoHash = "none"
    NoExpiry = NoExpiry
    RequestIDs = {"r1", "r2"}
    Callers = {c1, c2}
    Requests <- TwoReads
    Kinds = {"gate"}
    Expiries = {NoExpiry}
    MaxCalls = 2
SYMMETRY Symmetry
INVARIANTS SingleExecution
CHECK_DEADLOCK FALSE
