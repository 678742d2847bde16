SPECIFICATION Spec
CONSTANTS
    v = v
    w = w
    NoItem = NoItem
    Items <- MCItems
    Key <- MCKey
    Priority <- MCPriority
    Workers <- MCWorkers
    MaxAttempts = 2
    MaxStarts = 2
CHECK_DEADLOCK FALSE
INVARIANTS
    QueueInv
    RunnersBounded
    FailuresAreCounted
    AttemptsBounded
PROPERTIES
    ImplementsQueue
