SPECIFICATION Spec
CONSTANTS
    t1 = t1
    t2 = t2
    Tasks = {t1, t2}
    Workers = {w1, w2}
    NoTask = NoTask
    Priority <- MCPriority
    MaxRetry <- MCMaxRetry
    QueueSize = 1
    Closers = {"Stop", "Drain"}
INVARIANTS TaskConserved NoPanic MetricsSettle
PROPERTIES ImplementsTaskService ShutdownCompletes
