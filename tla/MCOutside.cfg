SPECIFICATION MCSpec
CONSTANTS
    Projections <- MCProjections
    Writes <- MCWrites
    Attempts = 2
    MaxEvents = 2
INVARIANTS
    SessionsAreRouted
    OneWatch
    SessionsKnow
    ActiveIsSource
PROPERTIES
    EventuallyServed
    Watched
    KeptWhileThere
    Settles
    EditsKeepOthers
    AdoptedInOrder
    Sticky
    PruneSparesControls
CHECK_DEADLOCK FALSE
