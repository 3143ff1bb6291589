SPECIFICATION Spec
VIEW Canonical
CONSTANTS
    c1 = c1
    c2 = c2
    i1 = i1
    home = home
    menu = menu
    Pages = {home, menu}
    Controls = {c1, c2}
    Instances = {i1}
    ControlsOf <- UnequalPages
    InstanceOf <- SharedInstance
    SessionOf <- RenewalAndReconnection
    MaxBindings = 3
    Capacity = 1
    CleanupCapacity = 2
    Scenarios <- MCScenarios
INVARIANTS
    StatusIsReadiness
    PreparationAccounted
    PressWithinGrant
    PressHasAnEnd
    RoutesPointToLeases
    NothingCrossesAgreements
    ActiveIsAttached
CHECK_DEADLOCK FALSE
