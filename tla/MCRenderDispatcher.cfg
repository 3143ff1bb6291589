SPECIFICATION Spec
CONSTANTS
    Jobs = {11, 12, 13}
    ClearJobs = {12}
    DirectJobs = {13}
    Budgets <- MCBudgets
    MaxBindings = 2
    MaxActive = 2
INVARIANTS
    Settled
    OneResult
PROPERTIES
    PublishedInOrder
    NoOldPixels
CHECK_DEADLOCK FALSE
VIEW Canonical
