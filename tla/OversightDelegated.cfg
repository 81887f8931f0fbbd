SPECIFICATION FairSpec
CONSTANTS
    r1 = r1
    s1 = s1
    s2 = s2
    NoRun = NoRun
    Runs = {r1}
    Sessions = {s1, s2}
    NSteps = 2
    DelegatedRuns = {r1}
    ServerDelegated = FALSE
    MaxRuns = 1
    MaxRequests = 2
    MaxRestarts = 1
INVARIANTS
    LedgerInOrder
    DelegatedRecordedOnce
    DelegatedResultAttested
    SingleFlight
    CompletedNeverRedialled
    DiskIsPrefix
    ReexecutionExplained
PROPERTIES
    ClaimsAreReleased
CHECK_DEADLOCK FALSE
