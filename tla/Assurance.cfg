SPECIFICATION AssuranceSpec
CONSTANTS
    None = None
    \* reconciler
    Nodes = {n1}
    NoNode = NoNode
    TTL = 2
    AcquireTimeout = 1
    MaxJobs = 2
    QueueSize = 1
    MaxTampers = 1
    MaxCycles = 2
    \* store tiers
    StoreRuns = {"r1"}
    Handlers = {"h1", "h2"}
    MaxOps = 3
    MaxTime = 2
    \* sealed values
    Values = {"u", "v"}
    MaxAttempts = 3
    MaxRestarts = 2
    MirrorQueue = 2
    \* revocation feed
    Root = "root"
    Artifact = "X"
    MaxFeeds = 2
    MaxClock = 4
    \* checkpoints, transparency log, receipts, erasure
    Interval = 2
    MaxEntries = 5
    MaxLeaves = 5
    Chips = {"c1", "c2"}
    Engines = {"e1", "e2"}
    MaxRecords = 3
    \* blueprints and porters
    BpStates = {"s1", "s2", "s3"}
    Ghost = "ghost"
    Blocks = {1, 2, 3}
    Porters = {"p"}
    MaxEdits = 1
    \* executor and client
    Sessions = {x1, x2}
    PlanTools <- MCPlanTools
    MaxEditions = 1
    MaxBegins = 2
    MaxCrashes = 1
INVARIANTS
    ReconcilerExact
    TiersAgree
    ValuesMatchChain
    RevokedStaysRefused
    EvidenceHolds
    PlansChecked
    BlessedStepsOnly
SYMMETRY SessionSymmetry
CHECK_DEADLOCK FALSE
