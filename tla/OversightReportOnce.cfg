SPECIFICATION Spec
CONSTANTS
    r1 = r1
    s1 = s1
    s2 = s2
    NoRun = NoRun
    Runs = {r1}
    Sessions = {s1, s2}
    NSteps = 1
    DelegatedRuns = {}
    ServerDelegated = FALSE
    MaxRuns = 1
    MaxRequests = 3
    MaxRestarts = 0
INVARIANT
    CooperativeRecordedOnce
CHECK_DEADLOCK FALSE
