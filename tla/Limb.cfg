SPECIFICATION Spec
CONSTANTS
    None = None
    ExodKey = "exod"
    GrantKey = "govd"
    AclKey = "operator"
    Recorders = {p1, p2}
    Exists <- MCExists
    Outcome <- MCOutcome
    MaxNow = 3
    MaxBoot = 1
    MaxRecords = 2
    Threads = {t1, t2}
    Assertions <- MCAssertions
    Principals <- MCPrincipals
    Rate = 1
    Burst = 2
    CacheMax = 2
    MaxTtl = 3
    AuthSkew = 1
    MaxTime = 4
    MaxRestarts = 1
    MaxAdmitted = 5
INVARIANTS
    RunsWithinCeiling
    ReachIsGranted
    OneResultPerNonce
    AssertionAcceptedOnce
    QuotaHolds
SYMMETRY Symmetry
CHECK_DEADLOCK FALSE
