SPECIFICATION Spec
CONSTANTS
    r1 = r1
    r2 = r2
    s1 = s1
    s2 = s2
    NoRun = NoRun
    Runs = {r1, r2}
    Sessions = {s1, s2}
    NSteps = 1
    DelegatedRuns = {r1}
    ServerDelegated = FALSE
    MaxRuns = 1
    MaxRequests = 2
    MaxRestarts = 1
INVARIANTS
    TypeOK
    CooperativeResultGranted
    NonAllowInert
CHECK_DEADLOCK FALSE
SYMMETRY SessionSymmetry
