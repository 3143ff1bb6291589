SPECIFICATION Spec
CONSTANTS
    home = home
    menu = menu
    dial = dial
    builtin = builtin
    clock = clock
    lamp = lamp
    Routes = {home}
    Home = home
    Definitions = {dial}
    Actions = {builtin, clock, lamp}
    Builtin = builtin
    UsesOf <- Uses
    Devices <- OneDevice
    Sessions = {x1, x2, x3}
    Commands = {k1}
    MaxAgreements = 1
    Generations = 2
INVARIANTS
    PageIsCurrent
SYMMETRY Symmetry
CHECK_DEADLOCK FALSE
