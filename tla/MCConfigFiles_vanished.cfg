SPECIFICATION Spec
CONSTANTS
    Paths = {1, 2}
    Documents <- MCDocuments
    Directories <- OneFile
    Subscribed = {"a"}
    OwnPath <- MCOwnPath
    Writes <- MCWrites
    MaxEvents = 1
INVARIANTS
    LossIsNotDeletion
CHECK_DEADLOCK FALSE
