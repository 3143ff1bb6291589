SPECIFICATION MCSpec
CONSTANTS
    Tasks = {t1, t2, t3, t4}
    NoTask = none
    MaxDepth = 2
    Resources = {r1, r2, r3}
    Capacity = 2
    home = home
    menu = menu
    dial = dial
    builtin = builtin
    clock = clock
    lamp = lamp
    Routes = {home, menu}
    Home = home
    Definitions = {dial}
    Actions = {builtin, lamp}
    Builtin = builtin
    UsesOf <- LocalUses
    Devices <- PagesFit
    Sessions = {x1, x2}
    Commands = {}
    MaxAgreements = 2
    Generations = 2
INVARIANTS
    GateInv
    NoLostWakeup
    CountsMatch
    CapacityAccounted
    CacheAccounted
    NothingKept
    PageIsCurrent
PROPERTIES
    FifoHandoff
    WaiterServed
    ImplementsReserves
    DeferredRetried
    NobodyForgottenRuns
    EveryRenderEnds
    IdlePageCloses
CHECK_DEADLOCK FALSE
