SPECIFICATION Spec
CONSTANTS
    Nodes = {n1}
    NoNode = NoNode
    TTL = 2
    AcquireTimeout = 1
    MaxJobs = 2
    QueueSize = 1
INVARIANTS
    ChainVerifies
CHECK_DEADLOCK FALSE
