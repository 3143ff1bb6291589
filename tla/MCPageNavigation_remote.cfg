SPECIFICATION Spec
CONSTANTS
    home = home
    menu = menu
    dial = dial
    builtin = builtin
    clock = clock
    lamp = lamp
    Routes = {home}
    Home = home
    Definitions = {dial}
    Actions = {builtin, clock}
    Builtin = builtin
    UsesOf <- Uses
    Devices <- AnyDevice
    Sessions = {x1, x2, x3}
    Commands = {k1}
    MaxAgreements = 2
    Generations = 2
INVARIANTS
    ToldWhatIsShown
    OwnerHolds
PROPERTIES
    CommandsSeeTheirBase
SYMMETRY Symmetry
CHECK_DEADLOCK FALSE
