SPECIFICATION AuthSpec
CONSTANTS
    Agents = {"a1", "a2"}
    Capabilities <- MCCapabilities
    PolicyIDs = {"P"}
    GrantIDs = {"G1", "G2"}
    NoID = NoID
    NoPolicy = NoPolicy
    NoGrant = NoGrant
    PolicyCatalog <- MCPolicies
    GrantCatalog <- MCGrants
    InitialPolicy <- MCInitialPolicy
    InitialGrant <- MCInitialGrant
    MaxTime = 3
    MaxChanges = 5
INVARIANTS LeastPrivilege
PROPERTY RestrictingNeverWidens
CHECK_DEADLOCK FALSE
