SPECIFICATION Spec
CONSTANTS
    None = None
    Actors = {a1, a2}
    Nodes = {n1, n2}
    Requests = {q1, q2}
    Refs = {f1}
    Allowances = {1, 2}
    TopUps = {1}
    Prices = {2}
    MaxBoots = 2
    MaxTopUps = 2
INVARIANTS
    AllowedIsPaid
    ChargeExplained
PROPERTIES
    RefinesAccount
SYMMETRY BudgetSymmetry
CHECK_DEADLOCK FALSE
