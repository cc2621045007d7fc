SPECIFICATION Spec
CONSTANTS
    Nodes = {a, b, c}
    Kinds = {"dependency", "dataflow"}
    NoNode = NoNode
    MaxEdges = 4
    TaskIDs = {1, 2, 3}
    Duration <- MCDuration
    Weight <- MCWeight
    Priority <- MCPriority
    Capacity = 2
    MaxTasks = 3
    MaxParts = 3
SYMMETRY Symmetry
CHECK_DEADLOCK FALSE
INVARIANTS GraphQueriesExact SchedulesExact
