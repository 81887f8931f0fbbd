SPECIFICATION FairSpec
CONSTANTS
    Nodes = {n1, n2}
    NoNode = NoNode
    TTL = 2
    AcquireTimeout = 1
    MaxJobs = 3
    QueueSize = 1
INVARIANTS
    ChainLinked
    IndexFollowsChain
    JobsInOrder
    LateWriteAtMostOne
    TimelyRenewalKeepsLease
PROPERTIES
    CommittedStays
    QueueDrains
CHECK_DEADLOCK FALSE
