SPECIFICATION Spec
CONSTANTS
    None = None
    Quotes = {"q1"}
    Amount <- MCAmount
    Policy <- MCPolicy
    Funders = {"f1"}
    Bond = 3
    Roster <- MCRoster
    ApprovalLists <- MCApprovalLists
    Outcomes = {"upheld", "rejected", "void"}
    MaxTime = 1
    MaxRecords = 5
    MaxReceipts = 1
    Keys = {"k1", "k2"}
    Charges <- MCCharges
    TopUpUnits = 700
    Units = {150, 275}
    Meters <- MCMeters
    ProviderBills <- MCBills
    Rates <- MCRates
    Fields <- MCFields
    StagedSets <- MCStagedSets
    MaxEntries = 3
    MaxStaged = 4
INVARIANTS
    LedgerSound
    MoneyHasWork
    QuorumOfSigners
    OncePerKey
    RunningBalancesExact
    FmvResists
PROPERTIES
    SweepLeavesOnlyRefunded
CHECK_DEADLOCK FALSE
