SPECIFICATION Spec
CONSTANTS
    home = home
    menu = menu
    dial = dial
    builtin = builtin
    clock = clock
    lamp = lamp
    Routes = {home}
    Home = home
    Definitions = {dial}
    Actions = {builtin, lamp}
    Builtin = builtin
    UsesOf <- LocalUses
    Devices <- AnyDevice
    Sessions = {x1, x2}
    Commands = {}
    MaxAgreements = 1
    Generations = 2
PROPERTIES
    ClosingReplans
SYMMETRY Symmetry
CHECK_DEADLOCK FALSE
