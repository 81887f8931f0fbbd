SPECIFICATION LeaseSpec
CONSTANTS
    Nodes = {n1, n2}
    NoNode = NoNode
    TTL = 2
    AcquireTimeout = 2
PROPERTIES
    StandbyTakesOver
CHECK_DEADLOCK FALSE
