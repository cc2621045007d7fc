SPECIFICATION Spec
CONSTANTS
    m1 = m1
    m2 = m2
    q1 = q1
    q2 = q2
    d = d
    Messages = {m1, m2}
    Queues = {q1, q2, d}
    Direct = {d}
    Name <- MCName
    Key <- MCKey
    Capacity = 1
    MaxRetries = 2
    MaxDead = 1
    Callers <- MCCallers
    MaxTopics = 2
    MaxPublish <- MCMaxPublish
    NoMsg = NoMsg
    NoQueue = NoQueue
CHECK_DEADLOCK FALSE
INVARIANTS Accounted HandledOnce KeysExact DeadOnlyAfterRetries PanicNeedsOverlap
PROPERTIES Delivered
