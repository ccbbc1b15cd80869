SPECIFICATION Spec
CONSTANTS
    None = None
    Workers = {w1, w2}
    Merchants = {m1}
    Cap = 3
    MaxCost = 2
INVARIANTS
    BudgetInv
    SpendIsBounded
    ResultsAreAccounted
    ResultsCanBeReplayed
PROPERTIES
    SpendStopsAtCap
