SPECIFICATION Spec
CONSTANTS
    Jobs = {11, 12, 13}
    ClearJobs = {12}
    DirectJobs = {13}
    Budgets <- ClearBudgets
    MaxBindings = 2
    MaxActive = 2
CHECK_DEADLOCK FALSE
VIEW Canonical
INVARIANTS
    OverlaysEnd
